CONSTANTS
  Recvs = {r1, r2, r3}
  Listener = acc
  Results = {ok}
  SqSize <- Roomy
  MaxCq = 4
SPECIFICATION Spec
INVARIANTS TypeOK OneOutstanding NoDanglingResume NoLostWakeup
PROPERTY WedgeIsPermanent
