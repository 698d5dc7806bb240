\* A client that sends whole requests one at a time, and may leave.  The freed
\* flag keeps its value, and responses stay below their bound.
SPECIFICATION FairSpec
CONSTANTS
    Requests <- OrdinaryRequests
    MaxRequests = 2
    MaxResponses = 5
    Segmented = FALSE
    Pipelined = FALSE
    CanLeave = TRUE
    Signals = FALSE
    FreedValue = "kept"
INVARIANTS
    TypeOK
PROPERTIES
    ServesRequests
    HandlerEnds
\* The handler ends.
CHECK_DEADLOCK FALSE
