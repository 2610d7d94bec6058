SPECIFICATION RegimeSpec
CONSTANTS
  s1 = s1
  g1 = g1
  u1 = u1
  u2 = u2
  NoRow = NoRow
  Users = {u1, u2}
  Servers = {s1}
  Gpus = {g1}
  ServerOf <- OneGpu
  MaxRows = 2
  MaxTime = 2
  Rams = {1}
  GpuRams = {1}
  Regulations <- AllRegulations
  GpuLimits = {1}
  MaxWatches = 2
  Retention = 0
INVARIANTS
  BookedOnlyWithAccess
CHECK_DEADLOCK FALSE
