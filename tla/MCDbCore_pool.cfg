CONSTANTS
  Queries = {q1, q2, q3, q4}
  Reads = {q1, q2}
  Blocking = {q1, q3}
  Items = {c1, c2}
  DbWorkers = {w1, w2}
  Events = {"fail"}
  Nobody = Nobody
SPECIFICATION FairSpec
INVARIANTS TypeOK SemMatchesList ResultKeepsItem
PROPERTIES PoolSpec AllAnswered
CHECK_DEADLOCK FALSE
