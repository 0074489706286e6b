SPECIFICATION FairSpec
CONSTANTS
  a = a
  b = b
  Task = {a, b}
  NoTask = NoTask
  MayRefuse = {b}
  MayExit = {b}
  Twice = {a}
  MaxLoads = 2
  MaxEntries = 2
  FirstSlots = 3
  MoreSlots = 2
INVARIANTS
  SlotsAccounted
  OpensCounted
  UnloadedWhenClosed
PROPERTIES
  CallsReturn
