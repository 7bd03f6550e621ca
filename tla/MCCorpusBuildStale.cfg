SPECIFICATION Spec
CONSTANTS
  A = A
  B = B
  A1 = A1
  m1 = m1
  m2 = m2
  None = None
  Corpora <- MCCorpora
  Models = {m1}
  Size <- MCSize
  Cuts <- MCCuts
  Commands <- MCFullCommands
  Wanted <- MCWanted
  PerDay = 1
  MaxCrashes = 2
INVARIANT StaleNeverAccepted
