SPECIFICATION FairSpec
CONSTANTS
  daily = daily  m1 = m1  m2 = m2
  Kinds <- BothKinds
  Items = {1, 2}
  Manual = {m1}
  Daily = daily
  Length = 2
  Buffer = 1
  MaxTime = 5
  MaxEvents = 1
INVARIANTS FullRoundsExclusive
PROPERTIES DayServedBeforeSleep EveryRoundEnds
CHECK_DEADLOCK FALSE
