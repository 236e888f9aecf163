-------------------------- MODULE MCDeviceIdentity --------------------------
(* Small instances of DeviceIdentity, and so of Settings, for TLC.         *)
EXTENDS DeviceIdentity, TLC

CONSTANTS s1, s2, quotes, blank, direct, good, mac, linux, native, oneclick, none, a1, r1

\* A password of quotes only comes out of .env as an empty one.
QuotesVanish == [v \in {quotes, direct, good} |-> IF v = quotes THEN blank ELSE v]

\* A request sets one field.
OneField ==
  {body \in Body : Cardinality({f \in DOMAIN body : body[f] # None}) = 1}

Symmetric == Permutations(Savers) \cup Permutations(Profiles)
=============================================================================
