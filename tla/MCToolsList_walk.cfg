SPECIFICATION ListFairSpec
CONSTANTS
  move = move
  turn = turn
  scan = scan
  halt = halt
  long = long
  Tools = {turn, scan, halt, long}
  Names = {"move", "turn", "scan", "halt", "long70"}
  NameOf <- MCNameOf
  Buckets = {"move", "turn", "scan", "halt", "long70"}
  HashOf <- MCHashOf
  NoTool = NoTool
  UserOnly = {turn}
  NameLen <- MCNameLen
  DescLen <- MCDescLen
  JsonLen <- MCJsonLen
  Cut <- MCCut
  NoName = ""
  MaxPayload = 8000
  MaxListed = 5
INVARIANTS
  WalkExact
PROPERTIES
  WalkEnds
CHECK_DEADLOCK FALSE
