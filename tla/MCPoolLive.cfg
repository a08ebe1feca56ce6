SPECIFICATION FairSpec
CONSTANTS
  Proxies = {p1}
  Ranks = {1}
  shards = 1
  Bucket <- OneBucket
  Clients = {c1, c2}
  requestWorkers = 1
  maxAttempts = 2
  offerLimit = 0
  shortTimeoutSleep = 1
  longTimeoutSleep = 1
  pauseSleep = 1
  evictThresholdTimeouts = 0
  evictThresholdFailures = 0
  evictThresholdReanimations = 1
  pauseFailures = 0
  MaxSum = 1
PROPERTIES RoundTripReturns
