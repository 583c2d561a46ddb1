\* init, a meter, an event and complete; up to two signals.
SPECIFICATION Spec
CONSTANTS
    Progress = 2
    MaxSignals = 2
INVARIANTS
    TypeOK
    ServerSeesAPrefix
    AbortAfterCompleteIsExplained
    LostTasksAreExplained
PROPERTIES
    EndIsReported
    OvertakenIsUnknown
\* A script that is over stays so.
CHECK_DEADLOCK FALSE
