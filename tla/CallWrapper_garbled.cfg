\* An HTTP answer that net/http cannot parse.
SPECIFICATION Spec
CONSTANTS
    Commands <- MCChild
    Transports <- MCHttp
    Settings <- MCDefaultWindow
    Flags <- MCFlags
    SingleTimeout = 10
    AttemptSeconds <- MCAttemptSeconds
    SleepSlack = 0
    GarbledAnswers = TRUE
INVARIANT
    PlainFailureMeansNotSent
CHECK_DEADLOCK FALSE
