CONSTANTS
  WorkerCount = 3
  MaxAddresses = 2
SPECIFICATION FairSpec
INVARIANTS TypeOK AcceptsWithEverything SocketOnlyToAccept
PROPERTIES NeverEnds WorkersSettle
CHECK_DEADLOCK FALSE
