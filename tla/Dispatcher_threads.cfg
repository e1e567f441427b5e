\* A thread that wrote past the end of the array keeps the lock for good.
CONSTANTS
  Producers = {p1}
  Workers = {w1, w2}
  Tasks = {1, 2, 3, 4}
  MaxTasks = 3
  Prio <- UsualPrio
  NoTask = NoTask
  NoThread = NoThread
SPECIFICATION FairSpec
INVARIANTS Inv NoTaskTwice SemMatchesHeap
PROPERTIES PoolSpec QueueDrains
CHECK_DEADLOCK FALSE
