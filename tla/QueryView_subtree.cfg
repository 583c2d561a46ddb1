\* A scope below its flow.
SPECIFICATION Spec
CONSTANTS
    Paths <- TreePaths
    InitialPaths <- TreePaths
    Statuses = {s1, s2}
    Workers = {w1}
    Scope <- InnerPath
    Depth = 9
    Polls = 2
    ViewBudget = 20
    MaxRevision = 3
    MaxSessions = 1
    Absent = Absent
    Free = Free
    NoView = NoView
INVARIANTS
    IdentityErrorsAreTrue
\* Once every call has returned and the server rests, nothing happens.
CHECK_DEADLOCK FALSE
