CONSTANTS
  Inputs <- MCInputs
  ChunkSizes = {1, 2, 7}
SPECIFICATION Spec
INVARIANTS
  BackIsSafe
  VerdictMatchesGrammar
  StoredMatchesGrammar
CHECK_DEADLOCK FALSE
