---- MODULE MCSched ----
(* Sched with rates that do not divide one another, as the real ones do not:
   3 1/3 ns to a timer tick, 1 1/2 ns to a cycle. *)
EXTENDS Sched
====
