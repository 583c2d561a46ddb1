\* A tree of three nodes, of which one, besides the root, may be shown with details.
SPECIFICATION Spec
CONSTANTS
    Order <- TreeOrder
    Root = "/"
    Tasks = {"/f/t"}
    FlowOf <- FlowOfNode
    Groups = {"parameters", "definition"}
    Contents = {"long", "huge"}
    SizeOf <- FieldSizes
    MaxDetailed = 1
    FieldBudget = 2
    MaxChunk = 2
    MaxRevision = 3
    Pending = Pending
INVARIANTS
    TypeOK
    AllOrNothing
    RowsAreSamples
    CallsAreBounded
\* Once the read has ended and the server rests, nothing happens.
CHECK_DEADLOCK FALSE
