SPECIFICATION FairSpec
CONSTANTS
  Threshold = 2
  Recovery = 2
  Calls = {c1, c2}
  SearchKeys = {s1}
  IdKeys = {i1}
  MaxAttempts = 2
  Ttl = 2
  CacheSize = 1
  c1 = c1
  c2 = c2
  s1 = s1
  i1 = i1
INVARIANTS
  TypeOK
  OpenIffFailing
  ProbeIsInFlight
PROPERTIES
  ProbesAreSpaced
  Recovers
