SPECIFICATION Spec
CONSTANTS
  Configurations <- Varied
  Requests = {r1, r2}
  Addresses = {a1}
  Limit = 1
INVARIANT
  TracedUnderItsId
CHECK_DEADLOCK FALSE
