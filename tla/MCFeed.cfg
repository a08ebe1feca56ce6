SPECIFICATION FairSpec
CONSTANTS
  Generators = {g1, g2}
  MaxListed = 2
  MaxRetries = 2
INVARIANTS TypeOK NoSendAfterClose QuietAtTheEnd AllDelivered
PROPERTY FeedEnds
CHECK_DEADLOCK FALSE
