SPECIFICATION Spec
CONSTANTS
  s1 = s1
  g1 = g1
  g2 = g2
  u1 = u1
  u2 = u2
  NoRow = NoRow
  Users = {u1, u2}
  Servers = {s1}
  Gpus = {g1, g2}
  ServerOf <- SameServer
  MaxRows = 2
  MaxTime = 2
  Rams = {1}
  GpuRams = {1}
  Regulations <- TwoRegulations
  GpuLimits = {1}
SYMMETRY AllAlike
INVARIANTS
  TypeOK
  DeletedIsOff
  PausedOnlyWhileOff
  RunningOnlyWhileOn
  LiveOnlyOnPresent
  HeldOnlyWithAccess
PROPERTIES
  TermsAreKept
  OverfilledOnlyByResume
  ImplementsLife
CHECK_DEADLOCK FALSE
