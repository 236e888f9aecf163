--------------------------- MODULE MCAttestation ---------------------------
(* Small instances of Attestation for TLC.                                 *)
EXTENDS Attestation, TLC

CONSTANTS a1, a2, t1, t2, t3, t4

Interchangeable == Permutations(Creds) \cup Permutations(Calls)
=============================================================================
