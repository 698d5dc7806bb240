------------------------------ MODULE MCLogLock ------------------------------
(* LogLock with a few processes, for TLC. *)
EXTENDS LogLock, TLC

CONSTANTS p1, p2, p3

Symmetry == Permutations(Proc)

=============================================================================
