SPECIFICATION PidSpec
CONSTANTS
  Pids = {p1, p2, p3}
  NoPid = NoPid
  NoFile = NoFile
  Empty = Empty
SYMMETRY PidSymmetry
INVARIANTS
  OneRecordedServer
  ReportsTrue
CHECK_DEADLOCK FALSE
