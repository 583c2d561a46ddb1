\* Every fate of a batch command and of its answer.
SPECIFICATION Spec
CONSTANTS
    Targets = {a, b}
    MaxTargets = 3
    ItemErrors <- MCItemErrors
    Refusals <- MCRefusals
INVARIANTS
    TypeOK
    PrintedIsWhatHappened
    SuccessIsComplete
    RefusalTouchesNothing
\* The command ends.
CHECK_DEADLOCK FALSE
