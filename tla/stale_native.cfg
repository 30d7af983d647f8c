SPECIFICATION Spec
CONSTANTS
    outer = outer
    inner = inner
    assembly = assembly
    package = package
    Prose = Prose
    Silent = Silent
    Empty = Empty
    Foreign = Foreign
    None = None
    Artifacts <- PackageAndNative
    Samples <- PackageAndNative
    SampleOf <- Owner
    Layers <- LayersOf
    Route <- Engine
    Kinds <- TwoKinds
    Surfaces = {"search", "target"}
    Answers <- PlainAnswers
    Judgments <- NoObjections
    MaxFindings = 3
    MaxLimits = 3
    MaxDeepIterations = 2
    MaxTurns = 2
INVARIANT
    NativeIsOfThisSample
CHECK_DEADLOCK FALSE
