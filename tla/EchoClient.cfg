SPECIFICATION ClientSpec
CONSTANTS
  s1 = s1
  s2 = s2
  Sessions = {s1, s2}
  Freeing = {s1}
  Clients = {s2}
  BufferSize = 2
  Window = 2
  MaxBytes <- MCMaxBytes
  MaxLine = 4
  ReadSize = 2
INVARIANTS
  BlockServes
  EchoInOrder
PROPERTY
  LineComesBack
CHECK_DEADLOCK FALSE
