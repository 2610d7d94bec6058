SPECIFICATION Spec
CONSTANTS
  n1 = n1
  n2 = n2
  g1 = g1
  All = All
  None = None
  NoUser = NoUser
  Names = {n1, n2}
  MaxUsers = 3
  MaxCalls = 2
  PageSize = 1
  FormGpus = {g1}
  Slot = 3
  Hour = 3
  Day = 6
  Offset = 4
  Horizon = 0
  Durations = {3, 4}
  MaxTime = 2
  MineRows = {1, 2, 3}
  Tables = {"filtered", "paged"}
  TableRows <- OneRowTwoRows
  TableEntry <- EntriesOfRows
  TableFilters <- FiltersOffered
  Servers = {1, 2}
  Gpus = {11}
  ServerOf <- OnServer1
  Kept = {2}
  Persons = {1}
  Grantable = {1}
  PersonNames = {1, 2}
  Drafts <- WithoutAccess
INVARIANTS
  StartOnGrid
  FreeRamFits
  NeverAnEmptyPage
  CancelledIsGone
  ListFits
  GpusFit
  OwnChangesShown
  SavedMeansAllApplied
  NamesUnique
  ButtonsAgree
PROPERTIES
  AdminRemains
CHECK_DEADLOCK FALSE
