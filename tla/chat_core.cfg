SPECIFICATION CFairSpec
CONSTANTS
  c1 = c1
  c2 = c2
  Clients <- MCTwo
  MaxBytes = 3
  Backlog = 3
  NulAt <- MCPlain
  MayReset <- MCNone
  Fds <- MCFds
  ListenFd = 4
  NoFd <- MCNoFd
  Listener = Listener
  Null = Null
  BufLen = 3
  MaxEvents = 2
  ClientBufLen = 3
  MaxLines <- MCMaxLines
  MaxSent <- MCMaxSent
CHECK_DEADLOCK FALSE
INVARIANTS
  CTypeOK
  AnswerFits
  OnlyFirstLineArrives
  AnswerPrintedOnce
PROPERTIES
  SenderIsAnswered
