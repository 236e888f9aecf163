\* Two runs on one account, one extra package, two events.
CONSTANTS
  r1 = r1
  r2 = r2
  gift = gift
  Runs = {r1, r2}
  Extras <- MCExtras
  DailyPackage = daily
  MaxCheckinEvents = 2
SPECIFICATION CheckinSpec
SYMMETRY Symmetric
INVARIANTS
  CheckinTypeOK
  CapTokenUsedOnce
  StatusHonest
PROPERTY GrantedIsShown
CHECK_DEADLOCK FALSE
