SPECIFICATION FairSpec
CONSTANTS
  c1 = c1
  c2 = c2
  c3 = c3
  Clients <- MCTwo
  MaxBytes = 4
  Backlog = 3
  NulAt <- MCNulTwo
  MayReset <- MCTwo
  Fds <- MCFds
  ListenFd = 4
  NoFd <- MCNoFd
  Listener = Listener
  Null = Null
  BufLen = 3
  MaxEvents = 2
CHECK_DEADLOCK FALSE
INVARIANTS
  TypeOK
  LengthTracksBytes
  EchoFaithful
  SigPipeNeedsReset
PROPERTIES
  InputIsAnswered
