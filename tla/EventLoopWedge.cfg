CONSTANTS
  Recvs = {r1, r2}
  Listener = acc
  Results = {ok}
  SqSize <- Roomy
  MaxCq = 3
SPECIFICATION FairSpec
PROPERTY CompletionsSeen
