SPECIFICATION FairSpec
CONSTANTS
  r1 = r1  r2 = r2  r3 = r3
  Requests = {r1, r2}
  Accounts = {1, 2, 3}
  Initial = {1, 2, 3}
  Damaged = {2}
  Replies <- EveryTurn
  Quotas <- UnknownOnly
  MaxKey = 9
  MaxToken = 1
  MaxDay = 0
  MaxEdits = 0
  StoreMayFail = TRUE
INVARIANT AnswerJustified
PROPERTIES KeepsPromise EveryRequestAnswered
CHECK_DEADLOCK FALSE
