CONSTANTS
  Spawns = {s1, s2, s3, s4}
  None = none
SPECIFICATION Spec
INVARIANTS MisuseExactly OwnedOnce RingHoldsLiveFrames CallersStay
CHECK_DEADLOCK FALSE
