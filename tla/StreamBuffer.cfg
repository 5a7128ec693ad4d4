SPECIFICATION Spec
CONSTANTS
  Size = 7
  OutSize = 3
  Nul <- MCNul
  Newline <- MCNewline
  READBUFSZ = 2
  WRITEBUFSZ = 2
  FailOverOnBackendError = TRUE
CHECK_DEADLOCK FALSE
INVARIANT TypeOK
INVARIANT NoOverrun
INVARIANT NoNeedlessWait
PROPERTY ImplementsByteStream
