SPECIFICATION Spec
CONSTANTS
  r1 = r1  r2 = r2  r3 = r3
  Requests = {r1}
  Accounts = {1, 2}
  Initial = {1, 2}
  Damaged = {}
  Replies <- TrustReplies
  Quotas <- UnknownOnly
  MaxKey = 9
  MaxToken = 2
  MaxDay = 0
  MaxEdits = 1
  StoreMayFail = FALSE
PROPERTY FreshCredentialSurvives
CHECK_DEADLOCK FALSE
