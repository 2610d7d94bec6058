SPECIFICATION Spec
CONSTANTS
  s1 = s1
  g1 = g1
  g2 = g2
  u1 = u1
  u2 = u2
  NoRow = NoRow
  Users = {u1}
  Servers = {s1}
  Gpus = {g1, g2}
  ServerOf <- SameServer
  MaxRows = 2
  MaxTime = 3
  Rams = {1}
  GpuRams = {1}
  Regulations <- OneRegulation
  GpuLimits = {1, 2}
INVARIANTS
  BulkCancelTakesAll
CHECK_DEADLOCK FALSE
