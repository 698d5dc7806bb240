\* Three requests, cut and joined anywhere; none fills the buffer exactly.
SPECIFICATION Spec
CONSTANTS
    Requests <- CutRequests
    MaxRequests = 3
    MaxResponses = 6
    Segmented = TRUE
    Pipelined = TRUE
    CanLeave = TRUE
    Signals = TRUE
    FreedValue = "kept"
INVARIANTS
    HeadersAreOwn
\* The handler ends.
CHECK_DEADLOCK FALSE
