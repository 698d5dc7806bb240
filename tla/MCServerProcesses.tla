-------------------------- MODULE MCServerProcesses --------------------------
(* ServerProcesses on small process tables, for TLC. *)
EXTENDS ServerProcesses, TLC

CONSTANTS p1, p2, p3, p4, c1, c2, c3

Symmetry == Permutations(Proc) \cup Permutations(Conn)

\* The kernel calls that can fail, one at a time or all.
NoFaults == {}
AllFaults == FaultKinds

=============================================================================
