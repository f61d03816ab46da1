CONSTANTS
  Uris <- MCUris
  MaxAtoms = 4
  Sizes = {1, 3, 4, 5, 8}
  BufSize = 4
SPECIFICATION Spec
INVARIANTS
  OpenedInsideRoot
  OkReplyIsTheFile
  DecodesOrRefuses
  ClientReadsReply
CHECK_DEADLOCK FALSE
