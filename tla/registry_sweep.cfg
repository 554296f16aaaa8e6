SPECIFICATION LockedSpec
CONSTANTS
  s1 = s1  s2 = s2  s3 = s3  hand = hand  net = net
  Slugs = {s1, s2}
  Types <- MCTypes
  Registered = {"pdf", "json"}
  Hubs = {"json"}
  Ports <- MCPorts
  Smokes = {hand, net}
  SafeSmokes = {hand}
  NoSmoke = NoSmoke
  NoRow = NoRow
  NoParser = {}
  NoCommand = {s2}
  TypedOutputs <- NoTyped
  Feeds <- PairFeeds
  DropMissingPaths = FALSE
  Proposals <- MCProposals
  Threshold = 60
  StalenessTTL = 0
  Procs = {p1, p2}
  Free = Free
  Commands = {"populate", "probe", "smoke", "remediate"}
  Scripts = {}
  InitialTables <- PairTables
  Lingering = {}
  MaxBegun = 3
  MaxTime = 2
SYMMETRY ProcSymmetry
INVARIANT PassHasSmoke
PROPERTIES SerialSpec SmokeNeverErased GatedPassSurvives
CHECK_DEADLOCK FALSE
