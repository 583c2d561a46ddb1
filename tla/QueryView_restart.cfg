\* A server that restarts, a view cut at a depth.
SPECIFICATION Spec
CONSTANTS
    Paths <- TreePaths
    InitialPaths <- TreePaths
    Statuses = {s1, s2}
    Workers = {w1}
    Scope <- RootPath
    Depth = 2
    Polls = 1
    ViewBudget = 20
    MaxRevision = 2
    MaxSessions = 2
    Absent = Absent
    Free = Free
    NoView = NoView
INVARIANTS
    ViewIsOneRevision
PROPERTIES
    WatermarkAdvances
\* Once every call has returned and the server rests, nothing happens.
CHECK_DEADLOCK FALSE
