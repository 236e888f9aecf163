\* Two owners, two confirm requests, two logins, three accounts.
CONSTANTS
  ann = ann
  bob = bob
  nobody = nobody
  c1 = c1
  c2 = c2
  Owners = {ann, bob}
  Nobody = nobody
  Confirms = {c1, c2}
  MaxId = 3
  MaxLogins = 2
  MaxEvents = 1
SPECIFICATION Spec
SYMMETRY Symmetric
INVARIANTS
  CredentialOnItsAccount
  NothingBeforeTheCredential
  HandedOverIsKept
  InProgressUnlessOlderHanded
PROPERTY OwnersKeptApart
CHECK_DEADLOCK FALSE
