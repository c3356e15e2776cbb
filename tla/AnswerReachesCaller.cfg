CONSTANTS
  NumEnclaves = 2
  MaxArg = 2
  MaxCount = 5
  None = None
SPECIFICATION Spec
INVARIANT AnswerReachesCaller
CHECK_DEADLOCK FALSE
