SPECIFICATION DispatchSpec
CONSTANTS
  move = move
  say = say
  move2 = move2
  Tools = {move, say, move2}
  Names = {"move", "mute", "fly"}
  NameOf <- MCNameOf
  Buckets = {"m"}
  HashOf <- MCHashOf
  NoTool = NoTool
  Schema <- MCSchema
  Keys = {"speed", "SPEED", "turns", "silent", "text"}
  Fold <- MCFold
  IntMax = 7
  Texts = {"hi", "ho"}
  Messages <- MCMessages
  Missing = Missing
  NotObject = NotObject
  Null = Null
  MaxFaults = 1
INVARIANTS
  OneOutcome
  CallConforms
  ErrorNamesCulprit
  AcceptsWhatItPublishes
  NothingLeaks
CHECK_DEADLOCK FALSE
