CONSTANTS
  Conns = {c1, c2}
  Listener = acc
  SqSize <- Roomy
  CqSize = 4
  NumBufs = 2
  MaxFds = 2
  MaxSends <- TwoEach
SPECIFICATION Spec
INVARIANT ReceivedIsHandedOver
