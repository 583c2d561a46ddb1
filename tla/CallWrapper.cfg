\* Both transports, every kind of command, answers well formed.
SPECIFICATION Spec
CONSTANTS
    Commands <- MCCommands
    Transports <- MCBoth
    Settings <- MCSettings
    Flags <- MCFlags
    SingleTimeout = 10
    AttemptSeconds <- MCAttemptSeconds
    SleepSlack = 1
    GarbledAnswers = FALSE
INVARIANTS
    TypeOK
    MutationAtMostOnce
    AmbiguityAnnounced
    UnreachableOnlyAfterWindow
    CallIsBounded
    AttemptsAreSpaced
PROPERTY
    Terminates
    KeepsContract
    IsReportCall
\* A call ends: there is nothing to do in phase "done".
CHECK_DEADLOCK FALSE
