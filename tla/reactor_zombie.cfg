SPECIFICATION Spec
CONSTANTS
  c1 = c1
  c2 = c2
  c3 = c3
  Clients <- MCThree
  MaxBytes = 1
  Backlog = 3
  NulAt <- MCPlainThree
  MayReset <- MCNone
  Fds <- MCFds
  ListenFd = 4
  NoFd <- MCNoFd
  Listener = Listener
  Null = Null
  BufLen = 1
  MaxEvents = 2
CHECK_DEADLOCK FALSE
INVARIANTS
  InEpollMeansRegistered
