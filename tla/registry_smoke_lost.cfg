SPECIFICATION Spec
CONSTANTS
  s1 = s1  s2 = s2  s3 = s3  hand = hand  net = net
  Slugs = {s1, s2}
  Types <- MCTypes
  Registered = {"pdf", "json"}
  Hubs = {"json"}
  Ports <- MCPorts
  Smokes = {hand, net}
  SafeSmokes = {hand}
  NoSmoke = NoSmoke
  NoRow = NoRow
  NoParser = {}
  NoCommand = {}
  TypedOutputs <- NoTyped
  Feeds <- PairFeeds
  DropMissingPaths = FALSE
  Proposals <- MCProposals
  Threshold = 60
  StalenessTTL = 0
  Procs = {p1}
  Free = Free
  Commands = {"populate", "probe"}
  Scripts = {"seed"}
  InitialTables <- PairTables
  Lingering = {}
  MaxBegun = 2
  MaxTime = 0
PROPERTY SmokeNeverErased
CHECK_DEADLOCK FALSE
