SPECIFICATION FairSpec
CONSTANTS
  A = A
  B = B
  A1 = A1
  m1 = m1
  m2 = m2
  None = None
  Corpora <- MCCorpora
  Models = {m1, m2}
  Size <- MCSize
  Cuts <- MCCuts
  Commands <- MCCommands
  Wanted <- MCWanted
  PerDay = 1
  MaxCrashes = 2
INVARIANTS TypeOK AcceptedAreGenuine ResumesOwnWork
PROPERTIES ResumesUnlessTorn ManifestWrittenLast QuotaOutlasted
