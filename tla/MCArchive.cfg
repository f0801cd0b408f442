CONSTANTS
  Files = {"f", "g", "bin"}
  Dirs = {"d", "e", "x"}
  Cwd = "."
  Device = "bin"
  Parent <- MCParent
  Arguments <- MCArguments
  Sizes = {0, 1, 2}
  Half = 2
  Locked = {"f"}
  MaxOpen = 4
  MaxChanges = 1
  MaxRuns = 3
  Nothing = Nothing
SPECIFICATION Spec
INVARIANTS RestoredInFull DamageGoesForward ProtectedIsWhole
CHECK_DEADLOCK FALSE
