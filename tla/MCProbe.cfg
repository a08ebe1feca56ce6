SPECIFICATION FairSpec
CONSTANTS
  Address = {a1}
  Listed <- Http
  Sources = {s1}
  Reverify = reverify0
  Workers = {w1, w2}
  Reverifiers = {r1}
  Buffer = 3
  maxReverifies = 1
  enableHttpRescue = FALSE
  ManualStart = FALSE
  MaxLaunches = 1
  MaxSignals = 2
  MaxDeletes = 0
  MaxEvictions = 0
  MaxEarly = 0
  NoVerify = noVerify
INVARIANTS NoProxyLost StatsConserved
PROPERTIES SourceSettles EventuallyDecided
CHECK_DEADLOCK FALSE
