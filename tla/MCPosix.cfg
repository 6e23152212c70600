SPECIFICATION BenchSpec
CONSTANTS
  Items = {a, b}
  Senders = {s1, s2}
  Receivers = {r1, r2}
  QueueSize = 2
  Zero = Zero
  b1 = b1
  b2 = b2
  Bits = {b1, b2}
  Calls <- MCCalls
  Waiters = {t1, t2}
  Jobs = {j1, j2, j3}
  Runners = {u1, u2}
  Posters = {p1, p2}
  NoJob = NoJob
INVARIANTS
  NobodyForgotten
  NoMissedEvent
  TakenOnce
  BrokenOnlyIfShared
PROPERTIES
  ImplementsFifo
  TimedReceiveReturns
  EveryWaitReturns
  RunDrains
CHECK_DEADLOCK FALSE
