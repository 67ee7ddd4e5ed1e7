---- MODULE MCDriveC ----
(* Drive C: of two chunks, one of them the system's. *)
EXTENDS DriveC

CONSTANTS sys, data

MCChunks == {sys, data}
====
