SPECIFICATION FairSpec
CONSTANTS
  Address = {a1}
  Listed <- Socks
  Sources = {s1}
  Reverify = reverify0
  Workers = {w1}
  Reverifiers = {r1}
  Buffer = 3
  maxReverifies = 1
  enableHttpRescue = FALSE
  ManualStart = FALSE
  MaxLaunches = 1
  MaxSignals = 1
  MaxDeletes = 0
  MaxEvictions = 1
  MaxEarly = 0
  NoVerify = noVerify
PROPERTY SourceSettles
CHECK_DEADLOCK FALSE
