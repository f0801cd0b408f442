SPECIFICATION FairSpec
CONSTANTS
  d1 = d1
  d2 = d2
  Menu = Menu
  hello = hello
  Quit = Quit
  Empty = Empty
  Displays = {d1, d2}
  Lines = {hello, Quit, Empty}
  MaxRuns = 2
  MaxSent = 3
  Orderly = TRUE
INVARIANTS TypeOK OneTurn ExclusiveAccess NothingLostOrDoubled
PROPERTIES Handover QuitEnds
CHECK_DEADLOCK FALSE
