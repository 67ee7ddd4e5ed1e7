---- MODULE MCPicMachine ----
(* PicMachine with one line below the cascade on the master and two slave lines. *)
EXTENDS PicMachine

MCLines == {5, 8, 12}
MCBases == {8}
MCMasks == {{}, {CascadeLine}, {4}, 0..7}
====
