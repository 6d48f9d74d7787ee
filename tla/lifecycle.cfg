CONSTANTS
  t1 = t1
  t2 = t2
  Tasks <- MCTasks
  Threads = 1
  Remotes = 2
SPECIFICATION FairSpec
INVARIANTS
  TypeOK
  StraysOnlyAtTheEnd
  WorkersAreServed
  RemoteReadsHaveThreads
PROPERTIES
  ShutdownEnds
  RequestsEnd
CHECK_DEADLOCK FALSE
