------------------------------ MODULE MCBeta80 ------------------------------
(***************************************************************************)
(* The real blueprint behind the trusted host: two callers, advance()'s    *)
(* own budget of 24 steps, a crash.                                        *)
(***************************************************************************)
EXTENDS Beta80, TLC

Symmetry == Permutations(Callers)
=============================================================================
