SPECIFICATION Spec
CONSTANTS
    outer = outer
    inner = inner
    core = core
    mouter = mouter
    minner = minner
    mcore = mcore
    s1 = s1
    s2 = s2
    strings = strings
    None = None
    Artifacts <- Six
    FormatOf <- NativeAndManaged
    Yields <- YieldsSix
    Decoded <- DecodedSix
    Plans <- LayerPlans
    Strings <- AllStrings
    Metrics <- AllMetrics
    Snapshots <- AllSnapshots
    MaxIterations = 3
    MaxExecutions = 1
    MaxSeen = 2
    MaxFindings = 3
    MaxTurns = 1
INVARIANTS
    TypeOK
    ProvenanceFollowsArtifact
    RoundStartsClean
PROPERTIES
    AuthorityKept
    DecodedStringsAccounted
    RecoveredLayerIsEvidence
    DeepOncePerLayer
CHECK_DEADLOCK FALSE
