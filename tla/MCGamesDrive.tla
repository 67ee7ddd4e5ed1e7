---- MODULE MCGamesDrive ----
(* Seven sectors: metadata, a file of two blocks and two of one. *)
EXTENDS GamesDrive

MCFiles == {[s0 |-> 1, len |-> 4], [s0 |-> 5, len |-> 1], [s0 |-> 6, len |-> 1]}
MCRequests == {{0, 1}, {2, 3}, {4, 5}, {6}, {6, 7}}
====
