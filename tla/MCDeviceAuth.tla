--------------------------- MODULE MCDeviceAuth ----------------------------
(* Small instances of DeviceAuth for TLC.                                  *)
EXTENDS DeviceAuth, TLC

CONSTANTS ann, bob, nobody, c1, c2

Symmetric == Permutations(Confirms) \cup Permutations(Owners)
=============================================================================
