SPECIFICATION Spec
CONSTANTS
    outer = outer
    inner = inner
    core = core
    mouter = mouter
    minner = minner
    mcore = mcore
    s1 = s1
    s2 = s2
    strings = strings
    None = None
    Artifacts <- Two
    FormatOf <- Native
    Yields <- YieldsTwo
    Decoded <- DecodedTwo
    Plans <- NativePlans
    Strings <- AllStrings
    Metrics <- AllMetrics
    Snapshots <- AllSnapshots
    MaxIterations = 2
    MaxExecutions = 1
    MaxSeen = 2
    MaxFindings = 4
    MaxTurns = 2
INVARIANT FailedAcquireLeavesNoSample
CHECK_DEADLOCK FALSE
