------------------------------- MODULE MCMouse -------------------------------
(* One button on a screen three positions wide.                             *)
EXTENDS Mouse

SomeMoves == {-2, 0, 2}
SomeModes == {1, 2}
=============================================================================
