SPECIFICATION LockedSpec
CONSTANTS
  s1 = s1  s2 = s2  s3 = s3  hand = hand  net = net
  Slugs = {s1, s2, s3}
  Types <- MCTypes
  Registered = {"pdf", "json"}
  Hubs = {"json"}
  Ports <- MCPorts
  Smokes = {hand, net}
  SafeSmokes = {hand}
  NoSmoke = NoSmoke
  NoRow = NoRow
  NoParser = {}
  NoCommand = {}
  TypedOutputs <- TypedS1
  Feeds <- FeedFeeds
  DropMissingPaths = TRUE
  Proposals <- MCProposals
  Threshold = 50
  StalenessTTL = 0
  Procs = {p1, p2}
  Free = Free
  Commands = {"populate", "ingest", "backfill", "hygiene"}
  Scripts = {}
  InitialTables <- FeedTables
  Lingering = {}
  MaxBegun = 3
  MaxTime = 0
SYMMETRY ProcSymmetry
INVARIANTS TypeOK SessionsFresh NoDanglingEdges
PROPERTIES SerialSpec OwnersKept
CHECK_DEADLOCK FALSE
