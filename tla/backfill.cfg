SPECIFICATION Spec
CONSTANTS
    a = a
    b = b
    c = c
    d = d
    r1 = r1
    r2 = r2
    None = None
    Slugs <- mcSlugs
    Python <- mcPython
    FilePorts = {"file:pdf"}
    Attrs = {"in", "out"}
    Parsers = {"p"}
    Source <- mcSource
    Replies <- mcReplies
    Texts = {"none", "traceback"}
    Purposeless = "none"
    Corrupt = {"traceback"}
    FallbackCap = 1
    Num = 1
    Den = 2
    Earlier <- mcEarlier
    Registered <- mcRegistered
    Runs <- mcRuns
    MaxChanges = 1
INVARIANTS EvidenceKept OutageNeverCondemns
PROPERTIES CommitsEarned OrphansOnlyUnlocked
SYMMETRY mcSymmetry
CHECK_DEADLOCK FALSE
