SPECIFICATION FairSpec
CONSTANTS
  c1 = c1
  c2 = c2
  c3 = c3
  Clients <- MCThree
  MaxBytes = 2
  Backlog = 3
  NulAt <- MCPlain
  MayReset <- MCOne
  ClientFds <- MCFds
  ListenFd = 4
  Nobody = Nobody
  BufLen = 2
  MaxEvents = 2
CHECK_DEADLOCK FALSE
INVARIANTS
  TypeOK
  AcceptNeverBlocks
  BufferHoldsMessage
  DescriptorsRegistered
PROPERTIES
  OrderlyDisconnected
