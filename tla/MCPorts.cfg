SPECIFICATION MailFairSpec
CONSTANTS
  client = client
  server = server
  idle = idle
  pc = pc
  ps = ps
  m1 = m1
  m2 = m2
  m3 = m3
  Task = {client, server, idle}
  NoTask = NoTask
  Idle = idle
  SuperTask = {}
  Owner <- MCOwner
  SuperSigs = {2}
  UserSigs = {8}
  ABORT = 2
  InitPri <- MCInitPri
  NewPri = {}
  Port = {pc, ps}
  Msg = {m1, m2, m3}
  NoItem = NoItem
  PortOwner <- MCPortOwner
  ReplyPort <- MCReplyPort
  MsgPri <- MCMsgPri
  MayDelete = {m1, ps, pc}
INVARIANTS
  MsgPlaced
  NoneMissed
PROPERTIES
  Received
