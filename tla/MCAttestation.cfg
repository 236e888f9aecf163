SPECIFICATION FairSpec
CONSTANTS
  a1 = a1  a2 = a2
  t1 = t1  t2 = t2  t3 = t3  t4 = t4
  Creds = {a1, a2}
  Calls = {t1, t2, t3}
  Lifetimes = {3}
  Skew = 2
  Cooldown = 2
  Quiet = 1
  MaxTime = 2
INVARIANTS SingleFlightUnlessSwept RefusedTokenBackOnlyByFailure
PROPERTIES ProbesAreNeeded CooldownUnlessForgotten EveryCallReturns
CHECK_DEADLOCK FALSE
