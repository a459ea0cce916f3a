----------------------------- MODULE MCCampaign -----------------------------
(***************************************************************************)
(* Two processes after one campaign: a read, and two commits to the same   *)
(* repository that wait for it.                                            *)
(***************************************************************************)
EXTENDS Campaign

CONSTANTS r1, r2, repo, checks

MCRunners == {r1, r2}
MCProcessOf == [r \in MCRunners |-> r]
MCDependsOn == <<{}, {1}, {1}>>
MCResource == <<checks, repo, repo>>
=============================================================================
