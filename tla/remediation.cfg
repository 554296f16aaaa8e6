SPECIFICATION FairSpec
CONSTANTS
    a = a
    b = b
    r1 = r1
    r2 = r2
    None = None
    Slugs <- mcSlugs
    Runs <- mcRuns
    Modules <- mcModules
    Vars <- mcVars
    Mapped <- mcMapped
    Local <- mcLocal
    ModuleMode <- mcNoModuleMode
    Notes <- mcNotes
    Replies <- mcReplies
    CommandLines <- mcCommandLines
    Fleets <- mcFleets
    Batch = 1
    MaxChanges = 1
INVARIANTS TypeOK EnvelopeFirst IssueOnce NothingForgotten OnlyMappedInstalled VerdictsStand
PROPERTY Reports
CHECK_DEADLOCK FALSE
