\* Two requests, cut and joined anywhere, with signals; some fill the buffer exactly.
SPECIFICATION Spec
CONSTANTS
    Requests <- StreamRequests
    MaxRequests = 2
    MaxResponses = 5
    Segmented = TRUE
    Pipelined = TRUE
    CanLeave = TRUE
    Signals = TRUE
    FreedValue = "any"
INVARIANTS
    AnswersInOrder
    
\* The handler ends.
CHECK_DEADLOCK FALSE
