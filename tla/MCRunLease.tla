----------------------------- MODULE MCRunLease -----------------------------
(* Three callers of run, each in a process of its own.                     *)
EXTENDS RunLease, TLC

CONSTANTS r1, r2, r3

MCRunners == {r1, r2, r3}
MCProcessOf == [r \in MCRunners |-> r]
Symmetry == Permutations(MCRunners)
=============================================================================
