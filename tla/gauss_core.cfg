SPECIFICATION Spec
CONSTANTS
  k1 = k1
  k2 = k2
  k3 = k3
  buf1 = buf1
  buf2 = buf2
  Calls <- MCCalls
  Buffers <- MCBuffers
  Null = Null
  NoCall = NoCall
CHECK_DEADLOCK FALSE
INVARIANTS
  TypeOK
  ZeroMeansApplied
  ErrorsAccounted
  LeakIsSuccesses
PROPERTIES
  LostForGood
