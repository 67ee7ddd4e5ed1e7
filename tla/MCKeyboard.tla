---- MODULE MCKeyboard ----
(* Keyboard with two scan codes and a queue of three bytes. *)
EXTENDS Keyboard

MCCodes == {"code1", "code2"}
====
