SPECIFICATION Spec
CONSTANTS
  e1 = e1 e2 = e2 map = map compile = compile any = any
  Tasks = {t1}
  Threads = {s1}
  Capacity = 1
  MaxAttempts = 2
  MaxRequeues = 2
  WallReached = FALSE
  NoItem = NoItem
  Endpoints = {e1, e2}
  Calls = {c1, c2}
  Roles = {map, compile}
  RolesOf <- MapAndCompile
  AnyRole = any
  MaxConcurrent <- OneSlotEach
  Models = 2
  Local = {2}
  Tries = 2
  NoLease = NoLease
  Role = compile
  Ways = {"whole", "sliced", "hedged"}
  Nobody = Nobody
SYMMETRY CallSymmetry
CHECK_DEADLOCK FALSE
INVARIANT LeasesCounted
 
