SPECIFICATION Spec
CONSTANTS
  r1 = r1  r2 = r2  r3 = r3
  Requests = {r1, r2, r3}
  Accounts = {1}
  Initial = {1}
  Damaged = {}
  Replies <- QuotaReplies
  Quotas <- UnknownOnly
  MaxKey = 9
  MaxToken = 1
  MaxDay = 1
  MaxEdits = 0
  StoreMayFail = FALSE
SYMMETRY Interchangeable
INVARIANT CooledAccountsLeftAlone
CHECK_DEADLOCK FALSE
