CONSTANTS
  Sessions = {s1, s2, s3}
  N = 4
  Wrap = 8
  NoBuf = none
SPECIFICATION Spec
INVARIANTS AllAccounted ExactlyOnePlace
PROPERTIES OldIdPublished ImplementsPool
CHECK_DEADLOCK FALSE
