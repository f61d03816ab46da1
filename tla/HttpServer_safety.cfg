CONSTANTS
  Conn = {c1, c2, c3}
  NoConn = NoConn
SPECIFICATION Spec
SYMMETRY Symmetry
INVARIANTS
  TypeOK
  RegistryExact
  ManagedHasWork
  StoppedStaysEmpty
