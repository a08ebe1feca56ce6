SPECIFICATION Spec
CONSTANTS
  Proxies = {p1}
  Ranks = {1, 2}
  shards = 2
  Bucket <- OneBucket
  Clients = {c1}
  requestWorkers = 1
  maxAttempts = 2
  offerLimit = 0
  shortTimeoutSleep = 1
  longTimeoutSleep = 1
  pauseSleep = 1
  evictThresholdTimeouts = 0
  evictThresholdFailures = 0
  evictThresholdReanimations = 0
  pauseFailures = 1
  MaxSum = 1
INVARIANTS TypeOK OkIffAwake AttemptsBounded ExhaustedAskedAll
