CONSTANT
  MaxLines = 4
SPECIFICATION Spec
INVARIANTS
  LinesInOrder
  ReadsOrFlagged
  OneLateLine
PROPERTIES
  BothThreadsEnd
