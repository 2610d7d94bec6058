SPECIFICATION LiveSpec
CONSTANTS
  n1 = n1
  n2 = n2
  t1 = t1
  t2 = t2
  FleetGpus = {g1}
  None = None
  NoUser = NoUser
  Names = {n1, n2}
  MaxUsers = 2
  Tabs = {t1}
  OpenedAt = {"home"}
  MaxTokens = 2
  MaxLoads = 2
  MaxCalls = 2
INVARIANTS
  ActsAsShown
  SelectedIsUsable
PROPERTIES
  SessionOutlivesFailures
  SessionsHeal
  OffIsNoticed
CHECK_DEADLOCK FALSE
