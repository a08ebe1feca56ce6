SPECIFICATION FairSpec
CONSTANTS
  s1 = s1
  s2 = s2
  srcs <- TwoSources
  maxScheduled = 1
  Starts = {s1}
  Stops = {s2}
  MaxRuns = 2
  MaxSignals = 1
INVARIANTS TypeOK OneLiveRefresh InactiveIsQuiet RunningWhileFed
PROPERTY SourceRunsAgain
