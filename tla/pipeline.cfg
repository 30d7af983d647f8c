SPECIFICATION Spec
CONSTANTS
    outer = outer
    inner = inner
    assembly = assembly
    package = package
    Prose = Prose
    Silent = Silent
    Empty = Empty
    Foreign = Foreign
    None = None
    Artifacts <- AllArtifacts
    Samples <- AllSamples
    SampleOf <- Owner
    Layers <- LayersOf
    Route <- Engine
    Kinds <- TwoKinds
    Surfaces = {"search", "target"}
    Answers <- PipelineAnswers
    Judgments <- Objections
    MaxFindings = 3
    MaxLimits = 3
    MaxDeepIterations = 2
    MaxTurns = 2
INVARIANTS
    TypeOK
    CompleteIsEarned
    ToldIsKept
    AbsenceDetermined
    DeepStatusIsTheGates
CHECK_DEADLOCK FALSE
