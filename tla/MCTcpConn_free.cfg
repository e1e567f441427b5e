CONSTANTS
  Writers = {w1, w2}
  Events = {"accept", "timeout"}
  Nobody = Nobody
SPECIFICATION Spec
INVARIANT NoUseAfterFree
CHECK_DEADLOCK FALSE
