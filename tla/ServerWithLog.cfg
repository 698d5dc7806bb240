\* An acceptor and two handlers that log without end, SIGINT at any time.
CONSTANTS
    p1 = p1  p2 = p2  p3 = p3
    c1 = c1  c2 = c2
    Proc = {p1, p2, p3}
    Conn = {c1, c2}
    NoConn = NoConn
    MaxConnect = 1
    MaxLines = 0
    Faults = {"fork"}
    Interrupts = {"one"}
    LogFiles = {"no"}
    LogEdits = {}
    Kinds = {"plain"}
    NestedCalls = 1
    Signals = TRUE
    Kills = TRUE
    CommandFiles = {"exit", "absent"}
    HandlerCalls = {"writeInLogFile"}
    LoopLogsAt = {"check"}
SPECIFICATION SpecInTurn
PROPERTIES
    SignalsAreSafeOnceCaught
    CallsReturn
    GoesOnDespiteLog
\* The server may stop.
CHECK_DEADLOCK FALSE
