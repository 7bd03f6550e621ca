SPECIFICATION FairSpec
CONSTANTS
  Requests = {r1, r2, r3}
  Questions = {q1, q2}
  Key <- OneSpelling
  Sessions = {s1, s2}
  Bodies <- AFewBodies
  MaxSessions = 1
  MaxCached = 1
  NoSession = NoSession
  NoRequest = NoRequest
  MaxTurns = 2
  SessionTtl = 2
  CacheTtl = 1
  Deadline = 1
  Outcomes <- NoGaps
  q1 = q1
  q2 = q2
  r1 = r1
  r2 = r2
  r3 = r3
  s1 = s1
  s2 = s2
INVARIANTS
  TypeOK
PROPERTIES
  ImplementsConversations
  RequestsEnd
