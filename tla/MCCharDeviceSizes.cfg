SPECIFICATION Spec
CONSTANTS
  w1 = w1
  w2 = w2
  r1 = r1
  r2 = r2
  Zero = Zero
  Junk = Junk
  Files = {w1, r1}
  Writers = {w1}
  Readers = {r1}
  NDelay = {}
  AppendMode = {}
  Interruptible = {}
  Calls = {"open", "release", "read", "write", "writecnt", "clear", "resize", "truncate"}
  Counts = {2}
  Sizes = {0, 1, 3}
  InitSize = 2
  AllocMayFail = TRUE
  CounterMod = 1
INVARIANTS TypeOK LengthWithinBuffer OnlyWrittenBytes
PROPERTY ImplementsStore
VIEW WithoutResults
CHECK_DEADLOCK FALSE
