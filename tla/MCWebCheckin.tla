---------------------------- MODULE MCWebCheckin ----------------------------
(* Small instances of WebCheckin for TLC.                                  *)
EXTENDS WebCheckin, TLC

CONSTANTS r1, r2, gift

MCExtras == <<gift>>

Symmetric == Permutations(Runs)
=============================================================================
