CONSTANTS
  Queries = {q1, q2, q3}
  Reads = {q1, q2}
  Blocking = {q1, q2, q3}
  Items = {c1, c2}
  DbWorkers = {w1, w2}
  Events = {"reuse"}
  Nobody = Nobody
SPECIFICATION Spec
INVARIANT ResultKeepsItem
CHECK_DEADLOCK FALSE
