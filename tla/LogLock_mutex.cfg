\* Two processes whose sembufs happen to be clean, no signal, no death.
CONSTANTS
    p1 = p1  p2 = p2  p3 = p3
    Proc = {p1, p2}
    Kinds = {"plain"}
    NestedCalls = 4
    Signals = FALSE
    Kills = FALSE
SPECIFICATION Spec
INVARIANT MutualExclusion
