--------------------------- MODULE MCReleaseLedger ---------------------------
(***************************************************************************)
(* The ledger on a small blueprint in which everything the engine supports *)
(* happens: a measured gate that another step requires and one that none   *)
(* does, two steps that run in parallel, and a client that tries the key   *)
(* of one step for another.                                                *)
(***************************************************************************)
EXTENDS ReleaseLedger, TLC

CONSTANTS verify, left, right, healthy, final, report, noise, k1, r1, r2, g1, g2

MCSteps == {verify, left, right}
MCGates == {healthy, final}
MCDependsOn == [s \in MCSteps |-> IF s = verify THEN {} ELSE {verify}]
MCRequiredGates == [s \in MCSteps |-> IF s = left THEN {healthy} ELSE {}]
MCHealthGate == verify :> healthy @@ left :> NoGate @@ right :> final
MCRequiredKinds == [g \in MCGates |-> {report}]
MCStepKeys == [s \in MCSteps |-> IF s = verify THEN {k1} ELSE {k1, s}]
=============================================================================
