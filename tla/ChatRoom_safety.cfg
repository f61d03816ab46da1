CONSTANTS
  Session = {s1, s2, s3}
  Draining = {}
  MaxRecent = 2
  MaxMsgs = 4
SPECIFICATION Spec
SYMMETRY Symmetry
INVARIANTS
  OneWriteAtATime
  InOrderNoGaps
  RecentIsTail
  ParticipantReads
