---------------------------- MODULE MCServerWithLog ----------------------------
(* ServerWithLog on small process tables, for TLC. *)
EXTENDS ServerWithLog

CONSTANTS p1, p2, p3, c1, c2

\* Clients are alike, and so are free slots: c1 connects before c2, the server starts in
\* p1, and p3 is taken when p2 cannot be.
InTurn ==
    /\ c2 \in arrived' => c1 \in arrived'
    /\ pc[p3] = "free" /\ pc'[p3] # "free" => pc[p2] # "free" \/ p2 \in dead

SpecInTurn == Init /\ pc[p1] = "boot" /\ [][Next /\ InTurn]_vars /\ Fairness

================================================================================
