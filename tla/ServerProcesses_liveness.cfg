\* Three slots for two clients: fork fails only when it has to.  No symmetry:
\* it is unsound for liveness.
CONSTANTS
    p1 = p1  p2 = p2  p3 = p3  p4 = p4
    c1 = c1  c2 = c2  c3 = c3
    Proc = {p1, p2, p3}
    Conn = {c1, c2}
    NoConn = NoConn
    MaxConnect = 1
    MaxLines = 1
    Faults = {"accept"}
    Interrupts = {"group"}
    LogFiles = {"missing"}
    LogEdits = {}
SPECIFICATION FairSpec
PROPERTIES
    QueuedIsServed
    InterruptStops
    ExitFileStops
    StopFreesPort
    LoneOutStops
CHECK_DEADLOCK FALSE
