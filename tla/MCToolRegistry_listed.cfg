SPECIFICATION RegistrySpec
CONSTANTS
  t1 = t1
  t2 = t2
  t3 = t3
  t4 = t4
  t5 = t5
  t6 = t6
  Tools = {t1, t2, t3, t4, t5, t6}
  Names = {"move", "mute", "stop", "map", "dance"}
  NameOf <- MCNameOf
  Buckets = {"m", "s", "d"}
  HashOf <- MCHashOf
  NoTool = NoTool
INVARIANTS
  ListedIsCallable
CHECK_DEADLOCK FALSE
