CONSTANTS
  Lengths = {0, 4, 65531, 65532, 65540}
  MaxPackets = 3
  Sizes = 65536
SPECIFICATION FairSpec
INVARIANT ReadAsSent
PROPERTIES LossNoticed QuitEndsOrBlocks OnlyServerFrees
CHECK_DEADLOCK FALSE
