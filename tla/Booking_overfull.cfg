SPECIFICATION Spec
CONSTANTS
  s1 = s1
  g1 = g1
  g2 = g2
  u1 = u1
  u2 = u2
  NoRow = NoRow
  Users = {u1}
  Servers = {s1}
  Gpus = {g1}
  ServerOf <- OneGpu
  MaxRows = 3
  MaxTime = 3
  Rams = {1, 2}
  GpuRams = {1, 2}
  Regulations <- OneRegulation
  GpuLimits = {1}
INVARIANTS
  NeverOverfilled
CHECK_DEADLOCK FALSE
