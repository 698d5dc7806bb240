\* Three process slots and three clients: the table can fill up, so fork fails;
\* every system call may fail; one terminal line; the recording of
\* addresses may be switched on.
CONSTANTS
    p1 = p1  p2 = p2  p3 = p3  p4 = p4
    c1 = c1  c2 = c2  c3 = c3
    Proc = {p1, p2, p3}
    Conn = {c1, c2, c3}
    NoConn = NoConn
    MaxConnect = 1
    MaxLines = 1
    Faults = {"socket", "accept", "fork", "stdin"}
    Interrupts = {"group", "one"}
    LogFiles = {"yes", "no"}
    LogEdits = {"yes"}
SPECIFICATION Spec
SYMMETRY Symmetry
INVARIANTS
    TypeOK
    SingleAcceptor
    SoleListener
    OneHandlerPerConnection
    NoStrayDescriptor
    NoForeignAddress
    IndInv
PROPERTY ServesInOrder
CHECK_DEADLOCK FALSE
