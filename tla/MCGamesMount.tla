---- MODULE MCGamesMount ----
(* Two folders, or one before and after its files changed, of two disks each. *)
EXTENDS GamesMount

CONSTANTS a, b, first, second
====
