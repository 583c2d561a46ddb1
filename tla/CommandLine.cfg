\* Every command, and every level of the settings.
SPECIFICATION Spec
CONSTANTS
    AttemptIDs = {"uuid"}
    UnreadableFiles = {"bad"}
    Scenarios <- MCScenarios
    Flags <- MCFlags
INVARIANTS
    TypeOK
    MistakesStayLocal
    OneServerConfiguration
    SameRequestOnEitherTransport
    CredentialsFitTheKind
    SuccessMeansAccepted
\* The process ends.
CHECK_DEADLOCK FALSE
