--------------------------- MODULE CampaignPromise ---------------------------
(***************************************************************************)
(* What a delegated campaign promises: the effect of a task is asked for   *)
(* once, after every task it depends on is completed; a verdict is given   *)
(* once, and "completed" is the verdict of an effect that took place.      *)
(***************************************************************************)
EXTENDS Naturals

CONSTANTS Tasks, Mutating, DependsOn

VARIABLES
    asked,      \* how often the effect of each task was asked for
    happened,   \* the tasks whose effect took place
    verdict

promiseVars == <<asked, happened, verdict>>

Init ==
    /\ asked = [t \in Tasks |-> 0]
    /\ happened = {}
    /\ verdict = [t \in Tasks |-> "open"]

Ask(t) ==
    /\ asked[t] = 0 /\ verdict[t] = "open"
    /\ \A d \in DependsOn[t] : verdict[d] = "completed"
    /\ asked' = [asked EXCEPT ![t] = 1]
    /\ UNCHANGED <<happened, verdict>>

Happen(t) ==
    /\ asked[t] = 1 /\ t \notin happened
    /\ happened' = happened \cup {t}
    /\ UNCHANGED <<asked, verdict>>

Settle(t, v) ==
    /\ verdict[t] = "open"
    /\ v = "completed" /\ t \in Mutating => t \in happened
    /\ verdict' = [verdict EXCEPT ![t] = v]
    /\ UNCHANGED <<asked, happened>>

Next ==
    \E t \in Tasks : \/ Ask(t) \/ Happen(t)
                     \/ \E v \in {"completed", "failed", "blocked"} : Settle(t, v)

Spec == Init /\ [][Next]_promiseVars
=============================================================================
