SPECIFICATION IOSpec
CONSTANTS
  a = a
  b = b
  idle = idle
  i1 = i1
  i2 = i2
  i3 = i3
  Task = {a, b, idle}
  NoTask = NoTask
  Idle = idle
  SuperTask = {b}
  Owner <- MCOwner
  SuperSigs = {2, 3, 4}
  UserSigs = {8, 9}
  ABORT = 2
  IODONE = 3
  ONESHOT = 4
  InitPri <- MCInitPri
  NewPri = {}
  IOReq = {i1, i2}
  NoIOReq = NoIOReq
  IOOwner <- MCIOOwner
  ReplySig <- MCReplySig
  Device <- AllTimer
  IOPri <- MCIOPri
  Ping = {9}
  MaxTime = 2
  Off = Off
  Second = 1
  Cmds <- Clocks
  MayWait = {{9}}
  Deletes <- DeleteAll
  GivesMemory <- GiveNone
  TakesMessages = TRUE
INVARIANTS
  TimerArmed
  WaitsForProgress
PROPERTIES
  Notified
