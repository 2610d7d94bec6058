SPECIFICATION RaceSpec
CONSTANTS
  s1 = s1
  g1 = g1
  g2 = g2
  u1 = u1
  u2 = u2
  p1 = p1
  p2 = p2
  NoRow = NoRow
  Users = {u1, u2}
  Servers = {s1}
  Gpus = {g1, g2}
  ServerOf <- SameServer
  MaxRows = 2
  MaxTime = 1
  Rams = {1}
  GpuRams = {1}
  Regulations <- TwoRegulations
  GpuLimits = {1}
  Requests = {p1}
  Kinds = {"create", "cancel", "bulk", "gpu", "server", "delete", "register", "access", "settings"}
PROPERTIES
  Spec
CHECK_DEADLOCK FALSE
