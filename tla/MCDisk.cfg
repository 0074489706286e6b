SPECIFICATION FairSpec
CONSTANTS
  r1 = r1
  r2 = r2
  hi = hi
  twin = twin
  single = single
  Request = {r1, r2, hi}
  Catapult = Catapult
  Pri <- MCPri
  File = {twin, single}
  FileOf <- MCFileOf
  LastAvatar <- MCLastAvatar
  Bad <- MCBad
  SortLimit = 2
  SoftLimit = 1
  Pages = 1
  MayAbort = {r1, hi}
  Once = {hi}
  MayLeave = TRUE
INVARIANTS
  RawAgrees
  OnOneList
PROPERTIES
  NoOvertaking
  Served
