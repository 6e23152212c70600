SPECIFICATION MlinkFairSpec
CONSTANTS
  Tasks = {r1, r2}
  Messages = {r1, r2}
  NoTask = NoTask
  NoData = NoData
  Writers = {"main", "worker", "receiver"}
  Size = 2
  MallocFails = TRUE
  Window = 2
  MaxSessions = 2
INVARIANTS
  RequestsAccounted
  AnsweredBeforeClose
  StalePostOnlyInShutdown
  FreedWhenQuiet
  RepliesInOrder
  RepliesIntact
PROPERTIES
  MlinkDestroyReturns
  EveryRequestAnswered
CHECK_DEADLOCK FALSE
