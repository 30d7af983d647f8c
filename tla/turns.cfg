SPECIFICATION Spec
CONSTANTS
    outer = outer
    inner = inner
    core = core
    mouter = mouter
    minner = minner
    mcore = mcore
    s1 = s1
    s2 = s2
    strings = strings
    None = None
    Artifacts <- Two
    FormatOf <- Mixed
    Yields <- YieldsTwo
    Decoded <- DecodedTwo
    Plans <- DeepAndHandoffPlans
    Strings <- AllStrings
    Metrics <- AllMetrics
    Snapshots <- FlatSnapshots
    MaxIterations = 2
    MaxExecutions = 1
    MaxSeen = 2
    MaxFindings = 2
    MaxTurns = 2
INVARIANTS
    LoopEndsWithSummary
PROPERTIES
    EvidenceOnlyGrows
CHECK_DEADLOCK FALSE
