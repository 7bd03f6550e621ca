SPECIFICATION FairSpec
CONSTANTS
  Calls = {c1, c2}
  Last = 2
  Budgeted = {1, 2}
  Limit <- OneEach
  Window = 2
  MaxWait = 1
  Failures = {"per_day", "rate_limit", "unhealthy", "this_call"}
  RetryIn = {0}
  DailyBlock = 3
  c1 = c1
  c2 = c2
INVARIANTS
  TypeOK
  InFailoverOrder
  WaitedLongEnough
PROPERTIES
  CallsEnd
