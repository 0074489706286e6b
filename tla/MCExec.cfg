SPECIFICATION Spec
CONSTANTS
  a = a
  b = b
  c = c
  idle = idle
  Task = {a, b, c, idle}
  NoTask = NoTask
  Idle = idle
  SuperTask = {a}
  Owner <- MCOwner
  SuperSigs = {2}
  UserSigs = {8}
  ABORT = 2
  InitPri <- MCInitPri
  NewPri = {11}
SYMMETRY MCSymmetry
INVARIANTS
  TypeOK
  NoLostWakeup
  NoStaleSignal
  HighestRuns
  QuantumAlive
PROPERTIES
  SignalsKept
  FirstComeFirstServed
