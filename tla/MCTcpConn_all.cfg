CONSTANTS
  Writers = {w1, w2, w3}
  Events = {"accept", "open", "read", "send", "refuse", "instant", "timeout", "memory"}
  Nobody = Nobody
SPECIFICATION Spec
SYMMETRY Symmetry
INVARIANTS TypeOK OneWriter RefsHeld ToldOnce RemovedOnce
CHECK_DEADLOCK FALSE
