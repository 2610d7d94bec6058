SPECIFICATION RegimeSpec
CONSTANTS
  s1 = s1
  g1 = g1
  g2 = g2
  u1 = u1
  u2 = u2
  p1 = p1
  p2 = p2
  NoRow = NoRow
  Users = {u1, u2}
  Servers = {s1}
  Gpus = {g1}
  ServerOf <- OneGpu
  MaxRows = 3
  MaxTime = 1
  Rams = {1, 2}
  GpuRams = {2}
  Regulations <- TwoRegulations
  GpuLimits = {1}
  Requests = {p1, p2}
  Kinds = {"create", "cancel", "bulk", "gpu", "server", "delete", "access", "settings"}
  MaxNotes = 3
SYMMETRY ThreadsAlike
INVARIANTS
  PausedOnlyWhileOff
  StudentsOverfillIsBounded
  StudentsCountIsBounded
PROPERTIES
  TermsAreKept
  NoticesAreTold
CHECK_DEADLOCK FALSE
