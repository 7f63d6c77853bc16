SPECIFICATION Spec
CONSTANTS
  a = a
  b = b
  c = c
  d = d
  e = e
  c1 = c1
  c2 = c2
  main = main
  NoTask = NoTask
  NoThread = NoThread
  Owner = main
  Tasks <- MCTasks
  Parent <- MCParent
  Awaited <- MCAwaited
  Clients <- MCClients
  ThreadNumArg = 2
  HardwareConcurrency = 0
INVARIANTS
  PoolHasWorkers
