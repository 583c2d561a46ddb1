\* A read only call and a gRPC status in neither table.
SPECIFICATION Spec
CONSTANTS
    Commands <- MCReads
    Transports <- MCGrpc
    Settings <- MCDefaultWindow
    Flags <- MCFlags
    SingleTimeout = 10
    AttemptSeconds <- MCAttemptSeconds
    SleepSlack = 0
    GarbledAnswers = FALSE
INVARIANT
    UnreachableStatusIsRetried
CHECK_DEADLOCK FALSE
