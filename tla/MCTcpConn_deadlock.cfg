CONSTANTS
  Writers = {w1, w2}
  Events = {"accept", "send", "timeout"}
  Nobody = Nobody
SPECIFICATION Spec
INVARIANT NoLockCycle
CHECK_DEADLOCK FALSE
