---- MODULE MCInterrupts ----
(* Interrupts with the timer, the keyboard and the mouse. *)
EXTENDS Interrupts

MCLines == {0, 1, 12}
====
