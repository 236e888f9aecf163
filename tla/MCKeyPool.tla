----------------------------- MODULE MCKeyPool -----------------------------
(* Small instances of KeyPool for TLC.                                     *)
EXTENDS KeyPool, TLC

CONSTANTS j1, j2

R(status, words) == [status |-> status, words |-> words]

\* One reply for every branch of ReportResult.
PoolReplies == {R(200, {}), R(401, {}), R(402, {}), R(429, {}), R(500, {})}

Interchangeable == Permutations(Jobs)
=============================================================================
