CONSTANTS
  Conns = {c1, c2, c3}
  Listener = acc
  SqSize <- Roomy
  CqSize = 1
  NumBufs = 2
  MaxFds = 2
  MaxSends <- OneEach
SPECIFICATION Spec
INVARIANTS TypeOK TableMatchesCoroutines AcceptedOnce ReceiveBudget
PROPERTIES ImplementsRing AcceptLostForGood
