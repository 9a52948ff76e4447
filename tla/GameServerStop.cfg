CONSTANTS
  WorkerCount = 2
  MaxAddresses = 1
SPECIFICATION FairSpec
PROPERTY StopsOnSignal
CHECK_DEADLOCK FALSE
