SPECIFICATION Spec
CONSTANTS
    c1 = c1
    c2 = c2
    p1 = p1
    p2 = p2
    port = port
    sample = sample
    r2 = r2
    ghidra_rpc = ghidra_rpc
    deobf_tools = deobf_tools
    None = None
    Cases <- OneCase
    Pods <- TwoPods
    Ports <- OnePort
    EnginePools <- Engines
    DirectPools <- Direct
    PortOf <- EnginePorts
    GhidraPool = ghidra_rpc
    Artifacts <- OneArtifact
    MaxAttempts = 2
    MaxTurns = 2
INVARIANTS
    ReusedProjectIsHeld
CHECK_DEADLOCK FALSE
