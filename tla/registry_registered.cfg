SPECIFICATION Spec
CONSTANTS
  s1 = s1  s2 = s2  s3 = s3  hand = hand  net = net
  Slugs = {s1, s2, s3}
  Types <- MCTypes
  Registered = {"pdf", "json"}
  Hubs = {"json"}
  Ports <- MCPorts
  Smokes = {hand, net}
  SafeSmokes = {hand}
  NoSmoke = NoSmoke
  NoRow = NoRow
  NoParser = {}
  NoCommand = {}
  TypedOutputs <- NoTyped
  Feeds <- FeedFeeds
  DropMissingPaths = FALSE
  Proposals <- MCProposals
  Threshold = 50
  StalenessTTL = 0
  Procs = {p1}
  Free = Free
  Commands = {"populate"}
  Scripts = {"register"}
  InitialTables <- FeedTables
  Lingering = {}
  MaxBegun = 3
  MaxTime = 0
PROPERTY RegisteredRowsKept
CHECK_DEADLOCK FALSE
