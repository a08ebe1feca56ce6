SPECIFICATION FairSpec
CONSTANTS
  Factories = {"dialer", "stats", "checker", "pool", "probe"}
  Wirings <- SomeWirings
  Services = {"pool", "probe"}
  MaxChanges = 2
  MaxCrashes = 1
INVARIANTS TypeOK StartsInOrder
PROPERTIES RestartKeepsFlushed ChangesReachDisk
CHECK_DEADLOCK FALSE
