SPECIFICATION FairSpec
CONSTANTS
  Callers = {"main", "worker", "receiver"}
  Duration = 2
  MaxMotions = 3
  MaxCommands = 2
INVARIANTS
  OneMotion
  StoppedByLaterCommand
  RunningFlagExact
  DestroyedUnlocked
PROPERTIES
  ExitCompletes
CHECK_DEADLOCK FALSE
