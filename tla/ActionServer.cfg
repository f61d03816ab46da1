CONSTANTS
  Conn = {c1, c2, c3}
  NoConn = NoConn
SPECIFICATION Spec
PROPERTIES
  ParkedUntilTheEnd
  ImplementsLifecycle
