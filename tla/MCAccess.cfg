\* One address, two logins, two creations and one client at a time; a block
\* lasts two ticks of three, and a second one may follow it.
CONSTANTS
  a1 = a1
  a2 = a2
  c1 = c1
  c2 = c2
  u1 = u1
  u2 = u2
  here = here
  nokey = nokey
  Addresses = {here}
  Attempts = {a1, a2}
  Creators = {c1, c2}
  Clients = {u1}
  MaxFails = 2
  Window = 2
  SessionLife = 1
  NoKey = nokey
  MaxTries = 5
  MaxKeys = 2
  MaxNames = 2
  MaxUses = 2
  MaxTime = 3
SPECIFICATION Spec
SYMMETRY Symmetric
INVARIANTS
  BlockHolds
  UsesCounted
  RefusedOnlyInRace
CHECK_DEADLOCK FALSE
