SPECIFICATION Spec
CONSTANTS
  gemini1 = gemini1
  gemini2 = gemini2
  batman = batman
  Providers <- Gemini
  Heroes <- Found
  NoProvider = NoProvider
  MaxAgentSteps = 2
  MaxParallel = 2
INVARIANTS
  TypeOK
  WithinBudget
  EvidenceIsFetched
  NeverCutOff
