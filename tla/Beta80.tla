------------------------------- MODULE Beta80 -------------------------------
(***************************************************************************)
(* The one workflow the service runs: the blueprint of                     *)
(* workflows/beta80-sequence.v1.ts with the capabilities that              *)
(* composeReleaseCapabilities binds to its actions, as values for the      *)
(* constants of ReleaseExecutor.  The blueprint, the capabilities and the  *)
(* executor are written in different files; the properties are about what  *)
(* only holds of them together.                                            *)
(***************************************************************************)
EXTENDS ReleaseHost

Step(id, dependsOn, requiredGates, healthGate) ==
    [id |-> id, dependsOn |-> dependsOn, requiredGates |-> requiredGates, healthGate |-> healthGate]

\* beta80ReleaseBlueprint.steps, by ordinal.
Blueprint == <<
    Step("resolve_main_commit", {}, {}, NoGate),
    Step("verify_canonical_ci", {"resolve_main_commit"}, {}, NoGate),
    Step("publish_release_tag", {"verify_canonical_ci"}, {}, NoGate),
    Step("build_and_sign_release", {"publish_release_tag"}, {}, NoGate),
    Step("publish_signed_release", {"build_and_sign_release"}, {}, NoGate),
    Step("verify_release_assets", {"publish_signed_release"}, {}, "signed_release_validated"),
    Step("deploy_edge", {"verify_release_assets"}, {"signed_release_validated"}, NoGate),
    Step("verify_edge_health", {"deploy_edge"}, {}, "edge_healthy"),
    Step("prepare_oracle", {"verify_edge_health"}, {"edge_healthy"}, NoGate),
    Step("prepare_windows", {"verify_edge_health"}, {"edge_healthy"}, NoGate),
    Step("validate_oracle_candidate", {"prepare_oracle"}, {}, NoGate),
    Step("validate_windows_candidate", {"prepare_windows"}, {}, NoGate),
    Step("promote_oracle", {"validate_oracle_candidate", "validate_windows_candidate"},
         {"signed_release_validated", "edge_healthy"}, NoGate),
    Step("verify_oracle_health", {"promote_oracle"}, {}, "oracle_healthy"),
    Step("promote_windows", {"validate_windows_candidate", "verify_oracle_health"},
         {"oracle_healthy"}, NoGate),
    Step("verify_windows_health", {"promote_windows"}, {}, "windows_healthy"),
    Step("reconcile_final_pointers", {"verify_windows_health"},
         {"oracle_healthy", "windows_healthy"}, NoGate),
    Step("smoke_catalog", {"reconcile_final_pointers"}, {}, NoGate),
    Step("cleanup_known_temporary_residue", {"smoke_catalog"}, {}, NoGate) >>

Beta80Order == [i \in 1..Len(Blueprint) |-> Blueprint[i].id]
Beta80Steps == {Blueprint[i].id : i \in 1..Len(Blueprint)}
Definition(s) == Blueprint[CHOOSE i \in 1..Len(Blueprint) : Blueprint[i].id = s]
Beta80DependsOn == [s \in Beta80Steps |-> Definition(s).dependsOn]
Beta80RequiredGates == [s \in Beta80Steps |-> Definition(s).requiredGates]
Beta80HealthGate == [s \in Beta80Steps |-> Definition(s).healthGate]

\* beta80ReleaseBlueprint.gates, with requiredEvidenceKinds.
Beta80RequiredKinds ==
    [signed_release_validated |-> {"canonical_ci_run", "signed_manifest", "release_asset_digest"},
     edge_healthy |-> {"edge_health_report"},
     oracle_healthy |-> {"oracle_active_manifest", "oracle_health_report"},
     windows_healthy |-> {"windows_active_manifest", "windows_health_report"}]

Beta80Gates == DOMAIN Beta80RequiredKinds

\* REQUIRED_KINDS of bindReleaseVerificationReads: the evidence of a valid receipt.
VerificationKinds ==
    [verify_release_assets |-> {"canonical_ci_run", "signed_manifest", "release_asset_digest"},
     verify_edge_health |-> {"edge_health_report"},
     validate_oracle_candidate |-> {"oracle_candidate_manifest"},
     validate_windows_candidate |-> {"windows_candidate_manifest"},
     verify_oracle_health |-> {"oracle_active_manifest", "oracle_health_report"},
     verify_windows_health |-> {"windows_active_manifest", "windows_health_report"},
     reconcile_final_pointers |-> {"pointer_consistency_report"},
     smoke_catalog |-> {"catalog_smoke_report"}]

\* RECEIPTS of bindReleaseEffects, for the actions left to it.
EffectKinds ==
    [deploy_edge |-> {"edge_deployment_receipt"},
     prepare_oracle |-> {"oracle_prepare_receipt"},
     prepare_windows |-> {"windows_prepare_receipt"},
     promote_oracle |-> {"oracle_cutover_receipt"},
     promote_windows |-> {"windows_cutover_receipt"}]

\* The proofs of the remaining bindings.
OtherKinds ==
    [resolve_main_commit |-> {"main_ref_verified"},
     verify_canonical_ci |-> {"canonical_ci_run"},
     publish_release_tag |-> {"release_tag_bootstrap"},
     build_and_sign_release |-> {"signed_build_receipt"},
     publish_signed_release |-> {"release_publication_receipt"},
     cleanup_known_temporary_residue |-> {"cleanup_receipt"}]

\* Mutant: a verification leaves out one kind.
ProvidedWithoutHealth ==
    [s \in Beta80Steps |->
        IF s \in DOMAIN VerificationKinds THEN {VerificationKinds[s] \ {"oracle_active_manifest"}}
        ELSE IF s \in DOMAIN EffectKinds THEN {EffectKinds[s]} ELSE {OtherKinds[s]}]

Beta80Provided ==
    [s \in Beta80Steps |-> IF s \in DOMAIN VerificationKinds THEN {VerificationKinds[s]}
                           ELSE IF s \in DOMAIN EffectKinds THEN {EffectKinds[s]}
                           ELSE {OtherKinds[s]}]

Beta80Rejection == {"source_state_rejected"}

Beta80Kinds == (UNION (UNION {Beta80Provided[s] : s \in Beta80Steps})) \cup Beta80Rejection
                 \cup UNION {Beta80RequiredKinds[g] : g \in Beta80Gates}

\* composeReleaseCapabilities: every action has a binding.
Beta80CapabilityOf ==
    [s \in Beta80Steps |->
        CASE s \in {"resolve_main_commit", "verify_canonical_ci"} -> SourceControlRead
          [] s = "publish_release_tag" -> TagBootstrap
          [] s = "build_and_sign_release" -> SigningDispatch
          [] s = "publish_signed_release" -> PublicationCheck
          [] s = "cleanup_known_temporary_residue" -> PruneCleanup
          [] s \in DOMAIN VerificationKinds -> VerificationRead
          [] s \in DOMAIN EffectKinds -> ReleaseEffect]

Beta80StepKeys == [s \in Beta80Steps |-> {s}]
------------------------------------------------------------------------------
\* The evidence REQUIRED_KINDS makes a verification return is what the blueprint
\* demands for its gate: without a crash, no gate is left behind undecided by a
\* measurement that succeeded.
NoGateStranded == crashes = 0 => ~ GateStranded

\* Sequential deployment: Windows is promoted only after the promotion of the
\* Oracle took place and its health was measured, the Oracle only after both
\* candidates were prepared, and each after the Edge was deployed.
PromotionsInOrder ==
    /\ effects["promote_oracle"] # <<>> =>
          \A s \in {"deploy_edge", "prepare_oracle", "prepare_windows"} : Done(s) # {}
    /\ effects["promote_windows"] # <<>> =>
          Done("promote_oracle") # {} /\ gateStatus["oracle_healthy"] = "passed"
==============================================================================
