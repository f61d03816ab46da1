SPECIFICATION Spec
CONSTANTS
  Nobody = Nobody
  Callers = {c1, c2}
  Futures = {f1}
  Syncs = {y1}
  Askers = {f1, y1}
INVARIANTS
  AnswersTheAsker
  FrameOutlivesOperation
PROPERTIES
  ClientEnds
  CallersServed
