SPECIFICATION Spec
CONSTANTS
    Agents = {"a1", "a2"}
    Workflows = {"w1", "w2"}
    Steps <- MCSteps
    Rounds <- MCRounds
    MaxIterations = 2
    MaxToolCalls = 2
    MaxSolverCalls = 1
    ParallelReads = 2
    Turns <- MCTurns
    MaxRequests = 5
    ReadsAtOnce = 2
    FallbackCrosses = FALSE
    Callers = {"c1", "c2", "c3"}
    MinSamples = 2
    MaxWindow = 4
    ProbeRejections = FALSE
    MaxRows = 4
    MaxDrops = 2
    TellInOrder = TRUE
    McpCallers = {"c1", "c2"}
    McpProbes = {"p1", "p2"}
    MaxPool = 1
    ConnectRetries = 1
    FailureThreshold = 2
    MaxFaults = 3
INVARIANTS
    PartTypeOK
    RunSound
    OneProbe
    TimelineExact
    ErrorIsProbed
PROPERTIES
    NothingHangs
CHECK_DEADLOCK FALSE
