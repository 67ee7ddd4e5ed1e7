---- MODULE MCKeyPath ----
(* KeyPath with a queue of three bytes and a ring of three words. *)
EXTENDS KeyPath
====
