\* One SyncQuery of a flow, two polls, a budget of twice the view.
SPECIFICATION Spec
CONSTANTS
    Paths <- TreePaths
    InitialPaths <- TreePaths
    Statuses = {s1, s2}
    Workers = {w1}
    Scope <- FlowPath
    Depth = 9
    Polls = 2
    ViewBudget = 6
    MaxRevision = 3
    MaxSessions = 1
    Absent = Absent
    Free = Free
    NoView = NoView
INVARIANTS
    TypeOK
    ViewIsOneRevision
    SyncReturnsWholeTree
    IdentityErrorsAreTrue
    MemoryIsBounded
PROPERTIES
    FailureIsVisible
\* Once every call has returned and the server rests, nothing happens.
CHECK_DEADLOCK FALSE
