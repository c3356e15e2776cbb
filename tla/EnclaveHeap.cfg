CONSTANTS
  NumEpc = 25
  Keys = {0, 1}
  MaxEnclaves = 2
  CodePages = {1, 2}
  TlsPages = 1
  SsaPages = 2
  StackPages = 1
  HeapPages = 1
  Nssa = 2
SPECIFICATION HeapSpec
INVARIANTS
  OwnPagesUsable
  OthersUnreachable
  PageIsAcceptable
PROPERTIES
  RequestEnds
CHECK_DEADLOCK FALSE
