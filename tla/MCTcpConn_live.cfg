CONSTANTS
  Writers = {w1, w2}
  Events = {"accept", "timeout"}
  Nobody = Nobody
SPECIFICATION FairSpec
INVARIANTS RefsExact NoLockCycle
PROPERTY AllTold
CHECK_DEADLOCK FALSE
