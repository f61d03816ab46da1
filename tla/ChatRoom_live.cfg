CONSTANTS
  Session = {s1, s2}
  Draining = {s1}
  MaxRecent = 2
  MaxMsgs = 4
SPECIFICATION Spec
PROPERTIES
  LeftIsLeft
  EventuallySent
  ImplementsLog
