\* A child report whose server is unreachable, TAKLER_TIMEOUT unset.
SPECIFICATION Spec
CONSTANTS
    Commands <- MCChild
    Transports <- MCBoth
    Settings <- MCDefaultWindow
    Flags <- MCFlags
    SingleTimeout = 10
    AttemptSeconds <- MCAttemptSeconds
    SleepSlack = 0
    GarbledAnswers = FALSE
INVARIANT
    ChildKeepsRetrying
CHECK_DEADLOCK FALSE
