SPECIFICATION LifeFairSpec
CONSTANTS
  a = a
  b = b
  c = c
  idle = idle
  s1 = s1
  s2 = s2
  Task = {a, b, c, idle}
  NoTask = NoTask
  Idle = idle
  SuperTask = {}
  Owner <- MCChain
  SuperSigs = {2, 4, 5}
  UserSigs = {}
  ABORT = 2
  DEADTASK = 4
  ONESHOT = 5
  InitPri <- MCUrgent
  NewPri = {}
  Sem = {s1, s2}
  Born = {a, b, idle}
  Creator <- MCCreator
  MayKill <- MCKillDown
  MaxNest = 2
CONSTRAINT UnlinksOwnNode
INVARIANTS
  HoldersAgree
  WaitersQueued
  DeathsInOrder
PROPERTIES
  RefinesSemaphore
  DeletionEnds
  NoStarvation
