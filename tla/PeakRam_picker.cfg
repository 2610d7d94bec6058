SPECIFICATION Spec
CONSTANTS
  MaxRows = 3
  Horizon = 4
  Rams = {1, 2}
  Slot = 2
INVARIANTS
  PickerAgreesWithEngine
CHECK_DEADLOCK FALSE
