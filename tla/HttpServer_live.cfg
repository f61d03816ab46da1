CONSTANTS
  Conn = {c1, c2}
  NoConn = NoConn
SPECIFICATION Spec
PROPERTIES
  ReplyStableWhileWriting
  VerdictIsFinal
  ShutdownCompletes
  FinishedIsReclaimed
  ImplementsLifecycle
