CONSTANTS
  Conns = {c1, c2, c3}
  Listener = acc
  SqSize <- Roomy
  CqSize = 1
  NumBufs = 1
  MaxFds = 2
  MaxSends <- OneTalks
SPECIFICATION FairSpec
PROPERTIES ServedOrStuck DepartureNoticed RingSeen
