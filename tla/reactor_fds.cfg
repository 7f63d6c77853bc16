SPECIFICATION FairSpec
CONSTANTS
  c1 = c1
  c2 = c2
  c3 = c3
  Clients <- MCThree
  MaxBytes = 1
  Backlog = 3
  NulAt <- MCPlainThree
  MayReset <- MCOne
  Fds <- MCFds
  ListenFd = 4
  NoFd <- MCNoFd
  Listener = Listener
  Null = Null
  BufLen = 2
  MaxEvents = 2
CHECK_DEADLOCK FALSE
INVARIANTS
  EpollCoherent
  DescriptorsOwned
  BatchLive
  AcceptHasPending
PROPERTIES
  ImplementsEchoService
  EventAcceptsOldest
