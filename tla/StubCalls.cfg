CONSTANTS
  NumEnclaves = 2
  MaxArg = 2
  MaxCount = 5
  None = None
SPECIFICATION Spec
INVARIANTS
  TypeOK
  CallSeenIntact
  AnswerIsOwn
  TrampolineServesCaller
  TransfersAccounted
PROPERTIES
  CallEnds
CHECK_DEADLOCK FALSE
