\* A client that sends whole requests one at a time, some of exactly LENGTH_STRING - 1
\* bytes, and may leave.
SPECIFICATION FairSpec
CONSTANTS
    Requests <- ExactRequests
    MaxRequests = 2
    MaxResponses = 5
    Segmented = FALSE
    Pipelined = FALSE
    CanLeave = TRUE
    Signals = FALSE
    FreedValue = "kept"
PROPERTIES
    Answered
\* The handler ends.
CHECK_DEADLOCK FALSE
