CONSTANTS
  Drivers = {6, 7}
  MINOR_COUNT = 3
  MaxOpen = 2
SPECIFICATION Spec
INVARIANTS NothingLeftBehind NoUseAfterFree OnlyAddedDeleted
CHECK_DEADLOCK FALSE
