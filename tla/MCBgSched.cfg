SPECIFICATION SchedFairSpec
CONSTANTS
  Tasks = {t1, t2, t3, t4}
  NoTask = NoTask
INVARIANTS
  FifoExactlyOnce
  NoLostWakeup
PROPERTIES
  ImplementsExecutor
  ImplementsFairExecutor
CHECK_DEADLOCK FALSE
