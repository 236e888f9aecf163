------------------------------ MODULE MCAccess ------------------------------
(* Small instances of Access for TLC.                                      *)
EXTENDS Access, TLC

CONSTANTS a1, a2, c1, c2, u1, u2, here, nokey

Symmetric == Permutations(Attempts) \cup Permutations(Creators) \cup Permutations(Clients)
=============================================================================
