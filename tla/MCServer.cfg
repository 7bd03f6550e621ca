SPECIFICATION FairSpec
CONSTANTS
  Configurations <- Varied
  Requests = {r1, r2}
  Addresses = {a1}
  Limit = 1
INVARIANTS
  TypeOK
  HeldWhileNeeded
  OneAccessLine
  ResponseNamesRequest
PROPERTIES
  LimitIsExact
  StopEnds
CHECK_DEADLOCK FALSE
