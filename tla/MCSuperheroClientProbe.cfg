SPECIFICATION Spec
CONSTANTS
  Threshold = 1
  Recovery = 2
  Calls = {c1, c2}
  SearchKeys = {s1}
  IdKeys = {i1}
  MaxAttempts = 2
  Ttl = 1
  CacheSize = 2
  c1 = c1
  c2 = c2
  s1 = s1
  i1 = i1
INVARIANTS
  HalfOpenLetsProbeThrough
