SPECIFICATION ServerSpec
CONSTANTS
  srv = srv  c1 = c1  a = a  b = b
  Procs = {srv, c1}
  MayBe <- MCMayBe
  Tables <- MCTables
  InitialDBs <- MCDatabases
  LegacyOwners = {"llm", "manual"}
  WrittenOwners = {"llm"}
  MaxWrites = 1
  Free = Free
  None = None
  Serve = srv
  Rest = {r1}
  Mcp = {m1}
  Playbooks <- MCBooks
  Hits = {b}
  MaxRequests <- MCRequests
  Gone = Gone
INVARIANTS InitSound AloneComplete IdleHoldsNothing
PROPERTY OwnersMigrated
CHECK_DEADLOCK FALSE
