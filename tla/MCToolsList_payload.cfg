SPECIFICATION ListSpec
CONSTANTS
  move = move
  turn = turn
  scan = scan
  halt = halt
  long = long
  Tools = {scan, halt, long}
  Names = {"move", "turn", "scan", "halt", "long70"}
  NameOf <- MCNameOf
  Buckets = {"move", "turn", "scan", "halt", "long70"}
  HashOf <- MCHashOf
  NoTool = NoTool
  UserOnly = {}
  NameLen <- MCNameLen
  DescLen <- MCDescLen
  JsonLen <- MCJsonLen
  Cut <- MCCut
  NoName = ""
  MaxPayload = 8000
  MaxListed = 6
INVARIANTS
  PayloadBounded
CHECK_DEADLOCK FALSE
