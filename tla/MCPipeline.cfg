SPECIFICATION FairSpec
CONSTANTS
  Kinds = {"5a", "5d", "5e"}
  MAX_MSG_COUNT = 2
  MaxLines = 3
  MaxRuns = 2
INVARIANTS TypeOK NothingMissed Rendezvous
PROPERTY QuitEnds
CHECK_DEADLOCK FALSE
