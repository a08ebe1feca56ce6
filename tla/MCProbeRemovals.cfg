SPECIFICATION Spec
CONSTANTS
  Address = {a1}
  Listed <- Socks
  Sources = {s1}
  Reverify = reverify0
  Workers = {w1, w2}
  Reverifiers = {r1, r2}
  Buffer = 1
  maxReverifies = 1
  enableHttpRescue = TRUE
  ManualStart = FALSE
  MaxLaunches = 1
  MaxSignals = 1
  MaxDeletes = 1
  MaxEvictions = 1
  MaxEarly = 1
  NoVerify = noVerify
INVARIANTS TypeOK AttemptsInRange SeenInPool OneReverifyBatch
CONSTRAINT OverlapOrRemovals
SYMMETRY Symmetry
CHECK_DEADLOCK FALSE
