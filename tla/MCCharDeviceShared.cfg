SPECIFICATION Spec
CONSTANTS
  w1 = w1
  w2 = w2
  r1 = r1
  r2 = r2
  Zero = Zero
  Junk = Junk
  Files = {w1, w2, r1}
  Writers = {w1, w2}
  Readers = {r1}
  NDelay = {w2}
  AppendMode = {w2}
  Interruptible = {r1}
  Calls = {"open", "release", "read", "write", "clear"}
  Counts = {1, 2}
  Sizes = {}
  InitSize = 2
  AllocMayFail = FALSE
  CounterMod = 1
INVARIANTS MutualExclusion ReaderWaitsForWriteInProgress
PROPERTY ImplementsStore
VIEW WithoutResults
CHECK_DEADLOCK FALSE
