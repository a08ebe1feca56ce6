SPECIFICATION FairSpec
CONSTANTS
  Proxies = {p1, p2}
  limit = 1
  recordCap = 1
  Askers = {a1}
  MaxRecords = 8
  Conns = {c1, c2}
  MaxRequests = 2
  maxAttempts = 2
  Shards = 2
  MaxRedirects = 1
  Asked = {2}
  Tunnels = {c2}
  Offers <- EachOffer
  c1 = c1
  c2 = c2
  p1 = p1
  p2 = p2
INVARIANTS TypeOK HistoryKeepsLatest
PROPERTY RequestsAnswered
