\* Two goroutines on one client.
SPECIFICATION Spec
CONSTANTS
    Paths <- TreePaths
    InitialPaths <- EmptyContainer
    Statuses = {s1, s2}
    Workers = {w1, w2}
    Scope <- FlowPath
    Depth = 9
    Polls = 1
    ViewBudget = 20
    MaxRevision = 2
    MaxSessions = 1
    Absent = Absent
    Free = Free
    NoView = NoView
INVARIANTS
    OneReadAtATime
PROPERTIES
    KeepsReplica
    EverySyncReturns
\* Once every call has returned and the server rests, nothing happens.
CHECK_DEADLOCK FALSE
