SPECIFICATION Spec
CONSTANTS
  Paragraphs = {p1, p2, p3, p4, p5}
  p1 = p1
  p2 = p2
  p3 = p3
  p4 = p4
  p5 = p5
  MaxAttempts = 2
  RerankCandidates = 5
  GradeTopK = 4
  EvidencePerSubQuery = 4
  MaxQueryRewrites = 1
SYMMETRY AnyOrder
INVARIANTS
  TypeOK
  UngradedIsSaid
  FoundIsKept
