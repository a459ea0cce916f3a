-------------------------- MODULE MCReleaseExecutor --------------------------
(***************************************************************************)
(* The executor on a blueprint with a step of each kind: a verification    *)
(* that measures a gate, a source-control read parallel to it, and behind  *)
(* both an external effect that needs the gate.                            *)
(***************************************************************************)
EXTENDS ReleaseExecutor, TLC

CONSTANTS ci, verify, deploy, healthy, report, noise, a1, a2

MCSteps == {ci, verify, deploy}
MCOrder == <<verify, ci, deploy>>
MCDependsOn == ci :> {} @@ verify :> {} @@ deploy :> {ci, verify}
MCRequiredGates == ci :> {} @@ verify :> {} @@ deploy :> {healthy}
MCHealthGate == ci :> NoGate @@ verify :> healthy @@ deploy :> NoGate
MCRequiredKinds == healthy :> {report}
MCStepKeys == [s \in MCSteps |-> {s}]
MCCapabilityOf == ci :> SourceControlRead @@ verify :> VerificationRead @@ deploy :> ProvableEffect
LiveCapabilityOf == ci :> SourceControlRead @@ verify :> VerificationRead @@ deploy :> ReleaseEffect
MCProvided == ci :> {{noise}} @@ verify :> {{report}, {noise}} @@ deploy :> {{noise}}
=============================================================================
