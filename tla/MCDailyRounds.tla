-------------------------- MODULE MCDailyRounds ---------------------------
(* Small instances of DailyRounds for TLC.                                 *)
EXTENDS DailyRounds

CONSTANTS daily, m1, m2

BothKinds == {"checkin", "quota"}
=============================================================================
