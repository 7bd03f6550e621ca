CONSTANTS
  Names = {1, 2, 3, 4}
  MaxSubQueries = 3
  MaxRegenerations = 1
  MaxItems = 1
  RawPlans <- SmallPlans
SPECIFICATION FairSpec
INVARIANTS TypeOK CitationsResolve VerdictIsAboutThisAnswer ReaderIsTold
           BoundedRun EvidenceComplete
PROPERTIES DependentsWait ImplementsScatterGather
CHECK_DEADLOCK FALSE
