SPECIFICATION AlgorithmsSpec
CONSTANTS
  window = 4
  Amounts = {0, 1, 2}
  Gaps <- PauseGaps
  MaxSum = 5
  Octets = 2
  Ports = 4
  Protos = 8
  firstPass <- Pages
  secondPass <- HeaderPages
  Answers <- PageAnswers
  Requests <- PageRequests
  Replies <- PoolReplies
  Addresses <- PageAddresses
  Columns <- NumberColumns
  Others <- QueryInputs
  yyInitialStackSize = 16
  Accessors <- PoolAccessors
  Sorters <- PoolSorters
  DefaultSort <- PoolSort
  StringFacets <- PoolStrings
  NumberFacets <- PoolNumbers
  ToLower <- Lower
  Within <- Parts
  Rank <- TextRank
  Part <- Scheme
  Scan <- Words
INVARIANTS TypeOK ParsesPrinted QueryAnswers RangesPartition CardsDrillDown
INVARIANTS ProxyEncoding ChecksKeepVerdict FetchBlamesProxy
PROPERTY SlidesOver
CHECK_DEADLOCK FALSE
