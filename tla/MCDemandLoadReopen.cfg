SPECIFICATION Spec
CONSTANTS
  a = a
  b = b
  Task = {a, b}
  NoTask = NoTask
  MayRefuse = {}
  MayExit = {}
  Twice = {}
  MaxLoads = 2
  MaxEntries = 2
  FirstSlots = 3
  MoreSlots = 2
INVARIANTS
  LoadedWhileOpen
