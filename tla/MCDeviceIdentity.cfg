\* Two overlapping saves, two proxies, two profiles, two starts with
\* random passwords and one of quotes only; one account, one request at a time and one login.
CONSTANTS
  s1 = s1
  s2 = s2
  quotes = quotes
  blank = blank
  direct = direct
  good = good
  mac = mac
  linux = linux
  native = native
  oneclick = oneclick
  none = none
  a1 = a1
  r1 = r1
  Savers = {s1, s2}
  Passwords = {quotes}
  EnvPasswords = {}
  Proxies = {direct, good}
  Direct = direct
  BadProxies = {}
  Blank = blank
  AsRead <- QuotesVanish
  Profiles = {mac, linux}
  Native = native
  None = none
  Bodies <- OneField
  MaxSaves = 2
  MaxStarts = 2
  Accounts = {a1}
  Requests = {r1}
  OneClickName = oneclick
  MaxLogins = 1
SPECIFICATION DeviceSpec
SYMMETRY Symmetric
INVARIANTS
  OneIdentityPerDevice
  NameSameSourceButOneClick
  LoneSavesInForce
  ClientFollowsSettings
PROPERTIES
  RestartKeepsSettings
CHECK_DEADLOCK FALSE
