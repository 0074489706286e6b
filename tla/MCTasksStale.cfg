SPECIFICATION LifeSpec
CONSTANTS
  a = a
  b = b
  c = c
  idle = idle
  s1 = s1
  s2 = s2
  Task = {a, b, c, idle}
  NoTask = NoTask
  Idle = idle
  SuperTask = {}
  Owner <- MCOwner
  SuperSigs = {2, 4, 5}
  UserSigs = {}
  ABORT = 2
  DEADTASK = 4
  ONESHOT = 5
  InitPri <- MCInitPri
  NewPri = {}
  Sem = {s1}
  Born = {a, b, idle}
  Creator <- MCCreator
  MayKill <- MCKillThreads
  MaxNest = 1
INVARIANTS
  WaitersQueued
