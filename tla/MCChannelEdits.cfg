SPECIFICATION Spec
CONSTANTS
  r1 = r1  r2 = r2  r3 = r3
  Requests = {r1, r2}
  Accounts = {1, 2}
  Initial = {1}
  Damaged = {}
  Replies <- EditReplies
  Quotas <- UnknownOrOne
  MaxKey = 9
  MaxToken = 2
  MaxDay = 1
  MaxEdits = 3
  StoreMayFail = FALSE
SYMMETRY Interchangeable
INVARIANTS RefusedCredentialsUnused CooledUnlessShortened EveryCallRecorded UsageAccounted
CHECK_DEADLOCK FALSE
