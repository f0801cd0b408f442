SPECIFICATION Spec
CONSTANTS
  w1 = w1
  w2 = w2
  r1 = r1
  r2 = r2
  Zero = Zero
  Junk = Junk
  Files = {w1, w2, r1}
  Writers = {w1, w2}
  Readers = {r1}
  NDelay = {}
  AppendMode = {}
  Interruptible = {}
  Calls = {"open", "release"}
  Counts = {}
  Sizes = {}
  InitSize = 2
  AllocMayFail = FALSE
  CounterMod = 1
INVARIANT SingleWriter
CHECK_DEADLOCK FALSE
