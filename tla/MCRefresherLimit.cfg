SPECIFICATION Spec
CONSTANTS
  s1 = s1
  s2 = s2
  srcs <- TwoSources
  maxScheduled = 1
  Starts = {}
  Stops = {}
  MaxRuns = 2
  MaxSignals = 1
INVARIANT ScheduledAtMost
