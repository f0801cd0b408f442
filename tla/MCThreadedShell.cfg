SPECIFICATION FairSpec
CONSTANTS
  t1 = t1
  t2 = t2
  a = a
  b = b
  Root = Root
  NoDir = NoDir
  Nobody = Nobody
  Threads = {t1, t2}
  Dirs = {Root, a, b}
  Enter <- Below
  Commands = {"cd", "cd-x", "run-bg", "missing", "getlog", "printenv", "stop-server"}
  MaxCommands = 2
  MayRemove = {a, b}
INVARIANTS TypeOK OwnDirectory LogReadWhole LoggedOnce
PROPERTIES CdFromOwnDirectory LogIsGot
VIEW WithoutPastCommands
CHECK_DEADLOCK FALSE
