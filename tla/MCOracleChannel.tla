-------------------------- MODULE MCOracleChannel --------------------------
(***************************************************************************)
(* The channel with a limit of two calls, so that a third is turned away,  *)
(* and two connections at a time: one being replaced by another.           *)
(***************************************************************************)
EXTENDS OracleChannel

CONSTANTS r1, r2, r3, s1, s2
=============================================================================
