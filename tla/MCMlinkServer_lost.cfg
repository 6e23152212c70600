SPECIFICATION MlinkSpec
CONSTANTS
  Tasks = {r1}
  Messages = {r1}
  NoTask = NoTask
  NoData = NoData
  Writers = {"main", "worker", "receiver"}
  Size = 1
  MallocFails = FALSE
  Window = 1
  MaxSessions = 1
SYMMETRY RequestSymmetry
INVARIANTS
  NoPostedRequestLost
CHECK_DEADLOCK FALSE
