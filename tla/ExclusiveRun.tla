---------------------------- MODULE ExclusiveRun ----------------------------
(***************************************************************************)
(* What a lock on a campaign promises: one runner at a time is inside, and *)
(* the next enters after it has left or its process has died.              *)
(***************************************************************************)
CONSTANTS Runners, Nobody

VARIABLE inside

Init == inside = Nobody

Enter(r) == inside = Nobody /\ inside' = r

Leave == inside # Nobody /\ inside' = Nobody

Next == Leave \/ \E r \in Runners : Enter(r)

Spec == Init /\ [][Next]_inside
=============================================================================
