\* Every kind of sembuf, signals and deaths.  Deadlock is not checked: after a
\* death inside a section everybody may block.
CONSTANTS
    p1 = p1  p2 = p2  p3 = p3
    Proc = {p1, p2, p3}
    Kinds = {"plain", "both", "bad"}
    NestedCalls = 1
    Signals = TRUE
    Kills = TRUE
SPECIFICATION Spec
SYMMETRY Symmetry
INVARIANTS
    TypeOK
    SemCountsHolders
CHECK_DEADLOCK FALSE
