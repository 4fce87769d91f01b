SPECIFICATION FairSpec
CONSTANTS
    Requests = {r1, r2, r3, r4}
    Roots = {r4}
    Statuses = {200, 408}
    MaxConnections = 1
    None = None
INVARIANTS TypeOK PermitsConserved GaugeIsExact CountsMatchAnswers
PROPERTIES QueuedAreAnswered ShutdownCompletes
CHECK_DEADLOCK FALSE
