SPECIFICATION Spec
CONSTANTS
    analyst = analyst  host = host  network = network  small = small  large = large
    Agents <- AllAgents
    Pipelines <- Roots
    Isolated <- Lenses
    Model <- ModelOf
    TurnLimit <- LimitOf
    Interval = 1
    Metered = {small, large}
    ToolResults <- Returned
    TextSizes <- TextsOf
    UserSizes = {1}
    Runs = 2
    Warning = 8
    Hard = 10
    Critical = 11
    PreserveTools = 1
    PreserveTurns = 2
    OutputBound = 4
    Marker = 3
    Stub = 1
    ShortText = 4
    Preview = 4
INVARIANT TurnLimitIsPerRun
CHECK_DEADLOCK FALSE
