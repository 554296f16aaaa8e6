SPECIFICATION FairSpec
CONSTANTS
  s1 = s1  s2 = s2  s3 = s3  hand = hand  net = net
  Slugs = {s1, s2}
  Types <- MCTypes
  Registered = {"pdf", "json"}
  Hubs = {"json"}
  Ports <- MCPorts
  Smokes = {hand, net}
  SafeSmokes = {hand}
  NoSmoke = NoSmoke
  NoRow = NoRow
  NoParser = {s2}
  NoCommand = {}
  TypedOutputs <- NoTyped
  Feeds <- PairFeeds
  DropMissingPaths = FALSE
  Proposals <- MCProposals
  Threshold = 60
  StalenessTTL = 0
  Procs = {p1, p2}
  Free = Free
  Commands = {"populate", "probe", "smoke", "remediate", "backfill", "hygiene", "ingest"}
  Scripts = {"seed", "reclassify", "envgate", "disable", "reeval", "judge", "register"}
  InitialTables <- ScriptTables
  Lingering = {s1}
  MaxBegun = 2
  MaxTime = 0
PROPERTIES ForeignRowsKept BreakerBounds LockReleased
CHECK_DEADLOCK FALSE
