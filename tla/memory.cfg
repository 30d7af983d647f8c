SPECIFICATION Spec
CONSTANTS
    P = P  Q = Q  writer = writer  reader = reader  other = other
    Processes <- AllProcesses
    Threads <- AllThreads
    ProcessOf <- Where
    Host = P
    Reader = reader
    Modes <- Begun
    Considered <- SomeOperations
    PageLimit = 1
    Backends = {"sqlite", "memory"}
    Free = Free
    ScopeIds = {"run", "sub"}
    RecordIds <- Records
    Instants = {1, 2}
    Cost <- CostOf
    MaxRevision = 3
    NoParent = NoParent
    Start = Start
INVARIANTS TypeOK RevisionCountsUpdates ReferencesHold PagesExact TruncationTold
PROPERTIES ImplementsPort
CHECK_DEADLOCK FALSE
