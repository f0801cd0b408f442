SPECIFICATION FairSpec
CONSTANTS
  NULL = NULL
  Nobody = Nobody
  Connections = 3
  MAXCLIENTS = 2
  MaxLines = 2
INVARIANTS TypeOK NoDanglingClient TableComplete
PROPERTIES OneOrder EverybodyLeaves
CHECK_DEADLOCK FALSE
