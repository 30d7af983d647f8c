SPECIFICATION Spec
CONSTANTS
    outer = outer
    inner = inner
    core = core
    mouter = mouter
    minner = minner
    mcore = mcore
    s1 = s1
    s2 = s2
    strings = strings
    None = None
    Artifacts <- Two
    FormatOf <- Dotnet
    Yields <- YieldsTwo
    Decoded <- DecodedTwo
    Plans <- DeepPlans
    Strings <- AllStrings
    Metrics <- AllMetrics
    Snapshots <- AllSnapshots
    MaxIterations = 2
    MaxExecutions = 1
    MaxSeen = 2
    MaxFindings = 4
    MaxTurns = 2
INVARIANT NewSampleOwesNothing
CHECK_DEADLOCK FALSE
