---------------------------- MODULE BrowserQueue ----------------------------
(***************************************************************************)
(* How the browser worker runs the operations it is asked for              *)
(* (browser-worker/controllers/browser-worker-application.ts): a mutating  *)
(* request goes through BrowserIdempotencyRegistry, which joins it to the  *)
(* operation already started under its key, and every operation goes       *)
(* through BrowserOperationQueue, which runs one per tab and a bounded     *)
(* number over all tabs.  Requests disconnect and time out at any moment.  *)
(*                                                                         *)
(* A request is handled once; a retry is another request with its key.     *)
(***************************************************************************)
EXTENDS Naturals, Sequences, FiniteSets

CONSTANTS
    Requests,
    KeyOf,          \* the idempotency key of each, or NoKey
    FingerprintOf,  \* what each asks for
    TabOf,          \* operationQueueKey of each
    Keys, NoKey, NoRequest,
    MaxConcurrency, MaxEntries

ASSUME BrowserAssumption ==
    /\ IsFiniteSet(Requests) /\ NoRequest \notin Requests
    /\ NoKey \notin Keys /\ KeyOf \in [Requests -> Keys \cup {NoKey}]
    /\ MaxConcurrency \in Nat \ {0} /\ MaxEntries \in Nat \ {0}

VARIABLES
    entry,      \* the registry: the request whose operation each key stands for
    expired,    \* the keys whose entry is settled and past its time to live
    answer,     \* what became of each request
    joined,     \* the request whose operation it waits for
    aborted,    \* its AbortController has fired
    op,         \* where the operation of each request is in the queue
    before,     \* the operations it was queued behind
    result,     \* what the operation ended with
    slotWaiters, active,
    ran,        \* the requests whose operation was carried out
    forgotten   \* how many entries of each key were pruned

registryVars == <<entry, expired, forgotten>>
queueVars == <<op, before, slotWaiters, active>>
vars == <<registryVars, queueVars, answer, joined, aborted, result, ran>>

Outcomes == {"ok", "failed", "cancelled", "expired"}
Refusals == {"conflict", "limit", "timeout", "disconnected"}

\* The places of the queue in which an operation has the turn of its tab, and those in
\* which it has a slot.
HasTab == {"slot", "woken", "acquired", "running"}
HasSlot == {"acquired", "running"}
Queued == {"turn", "rejected"} \cup HasTab

Init ==
    /\ entry = [k \in Keys |-> NoRequest] /\ expired = {}
    /\ answer = [r \in Requests |-> "none"]
    /\ joined = [r \in Requests |-> NoRequest]
    /\ aborted = [r \in Requests |-> FALSE]
    /\ op = [r \in Requests |-> "none"]
    /\ before = [r \in Requests |-> {}]
    /\ result = [r \in Requests |-> "none"]
    /\ slotWaiters = <<>> /\ active = 0
    /\ ran = {} /\ forgotten = [k \in Keys |-> 0]
-----------------------------------------------------------------------------
(* BrowserIdempotencyRegistry.run.                                         *)

\* Mutant: failures are not kept.
PrunedFailures ==
    [k \in Keys |-> IF \/ k \in expired
                       \/ entry[k] # NoRequest /\ op[entry[k]] = "settled" /\ result[entry[k]] # "ok"
                    THEN NoRequest ELSE entry[k]]

Pruned == [k \in Keys |-> IF k \in expired THEN NoRequest ELSE entry[k]]

Prune ==
    /\ expired' = {}
    /\ forgotten' = [k \in Keys |-> IF k \in expired THEN forgotten[k] + 1 ELSE forgotten[k]]

\* Mutant: the key alone identifies the operation.
SameKey(existing, r) == TRUE

SameFingerprint(existing, r) == FingerprintOf[existing] = FingerprintOf[r]

Refuse(r, refusal) ==
    /\ answer' = [answer EXCEPT ![r] = refusal]
    /\ UNCHANGED <<joined, op, before>>

\* The request awaits the promise of the owner's operation, settled or not.
Join(r, owner) ==
    /\ joined' = [joined EXCEPT ![r] = owner]
    /\ answer' = [answer EXCEPT ![r] = IF op[owner] = "settled" THEN result[owner] ELSE "waiting"]

\* BrowserOperationQueue.run takes a place behind the operations of its tab that have
\* not released theirs.  A signal that has fired already rejects it.
Enqueue(r) ==
    /\ op' = [op EXCEPT ![r] = IF aborted[r] THEN "rejected" ELSE "turn"]
    /\ before' = [before EXCEPT ![r] = {q \in Requests : TabOf[q] = TabOf[r] /\ op[q] \in Queued}]

\* A request that needs no key: the operation starts at once.
HandleUnkeyed(r) ==
    /\ answer[r] = "none" /\ KeyOf[r] = NoKey
    /\ Join(r, r) /\ Enqueue(r)
    /\ UNCHANGED <<registryVars, aborted, result, slotWaiters, active, ran>>

HandleKeyed(r) ==
    /\ answer[r] = "none" /\ KeyOf[r] # NoKey
    /\ Prune
    /\ LET k == KeyOf[r]  existing == Pruned[k] IN
        \/ /\ existing # NoRequest /\ ~ SameFingerprint(existing, r)
           /\ Refuse(r, "conflict")
           /\ entry' = Pruned
        \/ /\ existing # NoRequest /\ SameFingerprint(existing, r)
           /\ Join(r, existing)
           /\ entry' = Pruned
           /\ UNCHANGED <<op, before>>
        \/ /\ existing = NoRequest
           /\ Cardinality({q \in Keys : Pruned[q] # NoRequest}) >= MaxEntries
           /\ Refuse(r, "limit")
           /\ entry' = Pruned
        \/ /\ existing = NoRequest
           /\ Cardinality({q \in Keys : Pruned[q] # NoRequest}) < MaxEntries
           /\ entry' = [Pruned EXCEPT ![k] = r]
           /\ Join(r, r) /\ Enqueue(r)
    /\ UNCHANGED <<aborted, result, slotWaiters, active, ran>>

\* Mutant: the time to live runs from the start of the operation.
ExpireRunning(k) ==
    /\ entry[k] # NoRequest /\ k \notin expired
    /\ expired' = expired \cup {k}
    /\ UNCHANGED <<entry, forgotten, queueVars, answer, joined, aborted, result, ran>>

\* The time to live of a settled entry ends.  The next run prunes it; that snapshot() may
\* have done so before makes no difference to that run.
Expire(k) ==
    /\ entry[k] # NoRequest /\ op[entry[k]] = "settled" /\ k \notin expired
    /\ expired' = expired \cup {k}
    /\ UNCHANGED <<entry, forgotten, queueVars, answer, joined, aborted, result, ran>>
-----------------------------------------------------------------------------
(* BrowserOperationQueue.                                                  *)

\* The operation ends: whoever waits for it is answered.
Settle(r, outcome) ==
    /\ result' = [result EXCEPT ![r] = outcome]
    /\ answer' = [q \in Requests |-> IF joined[q] = r /\ answer[q] = "waiting"
                                     THEN outcome ELSE answer[q]]

\* Mutant: only an operation that has the tab is waited for.
TabIsFree(r) == \A q \in before[r] : op[q] \notin HasTab

\* Mutant: a place given up unused is not released.
TurnWasUsed(r) == \A q \in before[r] : op[q] = "settled" /\ q \in ran

\* previous: every operation queued before has released its turn.
TurnHasCome(r) == \A q \in before[r] : op[q] = "settled"

\* acquireSlot, on entry and again after each wake-up.
AcquireSlot(r) ==
    \/ /\ active < MaxConcurrency
       /\ active' = active + 1
       /\ op' = [op EXCEPT ![r] = "acquired"]
       /\ UNCHANGED slotWaiters
    \/ /\ active >= MaxConcurrency /\ ~ aborted[r]
       /\ slotWaiters' = Append(slotWaiters, r)
       /\ op' = [op EXCEPT ![r] = "slot"]
       /\ UNCHANGED active
    \/ /\ active >= MaxConcurrency /\ aborted[r]
       /\ op' = [op EXCEPT ![r] = "rejected"]
       /\ UNCHANGED <<slotWaiters, active>>

TakeTurn(r) ==
    /\ op[r] = "turn" /\ TurnHasCome(r)
    /\ AcquireSlot(r)
    /\ UNCHANGED <<registryVars, before, answer, joined, aborted, result, ran>>

Resume(r) ==
    /\ op[r] = "woken"
    /\ AcquireSlot(r)
    /\ UNCHANGED <<registryVars, before, answer, joined, aborted, result, ran>>

\* The catch block: the place is given up without having been used.
Rejected(r) ==
    /\ op[r] = "rejected"
    /\ op' = [op EXCEPT ![r] = "settled"]
    /\ Settle(r, "cancelled")
    /\ UNCHANGED <<registryVars, before, slotWaiters, active, joined, aborted, ran>>

\* Mutant: no waiter is woken.
ReleaseSilently(r, outcome) ==
    /\ active' = IF active = 0 THEN 0 ELSE active - 1
    /\ op' = [op EXCEPT ![r] = "settled"]
    /\ Settle(r, outcome)
    /\ UNCHANGED <<registryVars, before, slotWaiters, joined, aborted>>

\* The finally block: the slot goes back and wakes the first waiter, then the turn.
Release(r, outcome) ==
    /\ active' = IF active = 0 THEN 0 ELSE active - 1
    /\ \/ /\ slotWaiters = <<>>
          /\ op' = [op EXCEPT ![r] = "settled"]
          /\ UNCHANGED slotWaiters
       \/ /\ slotWaiters # <<>>
          /\ op' = [op EXCEPT ![r] = "settled", ![Head(slotWaiters)] = "woken"]
          /\ slotWaiters' = Tail(slotWaiters)
    /\ Settle(r, outcome)
    /\ UNCHANGED <<registryVars, before, joined, aborted>>

Start(r) ==
    /\ op[r] = "acquired" /\ ~ aborted[r]
    /\ op' = [op EXCEPT ![r] = "running"]
    /\ ran' = ran \cup {r}
    /\ UNCHANGED <<registryVars, before, slotWaiters, active, answer, joined, aborted, result>>

\* Mutant: it is given back without waking the next.
NotStartedSilently(r) ==
    /\ op[r] = "acquired"
    /\ ReleaseSilently(r, IF aborted[r] THEN "cancelled" ELSE "expired")
    /\ UNCHANGED ran

\* The signal fired, or the wait was too long.
NotStarted(r) ==
    /\ op[r] = "acquired"
    /\ \/ aborted[r] /\ Release(r, "cancelled")
       \/ ~ aborted[r] /\ Release(r, "expired")
    /\ UNCHANGED ran

\* The task ends, whether or not anybody still waits for it.
TaskEnds(r) ==
    /\ op[r] = "running"
    /\ \E outcome \in {"ok", "failed"} : Release(r, outcome)
    /\ UNCHANGED ran
-----------------------------------------------------------------------------
(* Requests that end early.                                                *)

\* splice(index, 1).
Splice(s, i) == [j \in 1..(Len(s) - 1) |-> s[IF j < i THEN j ELSE j + 1]]

\* The abort listeners run at once: of waitForTurn, of acquireSlot, of the request.
Abort(r, reason) ==
    /\ aborted' = [aborted EXCEPT ![r] = TRUE]
    /\ answer' = [answer EXCEPT ![r] = IF @ = "waiting" THEN reason ELSE @]
    /\ op' = [op EXCEPT ![r] = IF @ \in {"turn", "slot"} THEN "rejected" ELSE @]
    /\ \/ /\ \A i \in 1..Len(slotWaiters) : slotWaiters[i] # r
          /\ UNCHANGED slotWaiters
       \/ \E i \in 1..Len(slotWaiters) :
            slotWaiters[i] = r /\ slotWaiters' = Splice(slotWaiters, i)
    /\ UNCHANGED <<registryVars, before, active, joined, result, ran>>

Disconnect(r) ==
    /\ answer[r] \in {"none", "waiting"} /\ ~ aborted[r]
    /\ Abort(r, "disconnected")

OperationTimeout(r) ==
    /\ answer[r] = "waiting"
    /\ Abort(r, "timeout")
-----------------------------------------------------------------------------
Proceeds(r) ==
    TakeTurn(r) \/ Resume(r) \/ Rejected(r) \/ Start(r) \/ NotStarted(r) \/ TaskEnds(r)

Next ==
    \/ \E r \in Requests : \/ HandleUnkeyed(r) \/ HandleKeyed(r) \/ Proceeds(r)
                           \/ Disconnect(r) \/ OperationTimeout(r)
    \/ \E k \in Keys : Expire(k)

Spec == Init /\ [][Next]_vars

\* The event loop resumes every await, and every task ends.
FairSpec == Spec /\ \A r \in Requests : WF_vars(Proceeds(r))
-----------------------------------------------------------------------------
TypeOK ==
    /\ entry \in [Keys -> Requests \cup {NoRequest}] /\ expired \in SUBSET Keys
    /\ answer \in [Requests -> {"none", "waiting"} \cup Outcomes \cup Refusals]
    /\ joined \in [Requests -> Requests \cup {NoRequest}]
    /\ aborted \in [Requests -> BOOLEAN]
    /\ op \in [Requests -> {"none", "settled"} \cup Queued]
    /\ before \in [Requests -> SUBSET Requests]
    /\ result \in [Requests -> {"none"} \cup Outcomes]
    /\ slotWaiters \in Seq(Requests) /\ active \in Nat
    /\ ran \in SUBSET Requests /\ forgotten \in [Keys -> Nat]

\* "Serializes each tab independently": no two operations of a tab are past waitForTurn,
\* although those queued between them may be aborted at any time.
OneOperationPerTab ==
    \A r, q \in Requests :
        r # q /\ TabOf[r] = TabOf[q] /\ op[r] \in HasTab => op[q] \notin HasTab

\* active counts the operations that hold a slot, and they are not too many: no way out
\* of run() leaks one or gives one back twice.
SlotsAreCounted ==
    /\ active = Cardinality({r \in Requests : op[r] \in HasSlot})
    /\ active <= MaxConcurrency

\* Nobody waits for a slot that is free: if some operation waits, every free slot has
\* an operation that was woken for it, although others may overtake it and waiters be
\* aborted.
NoLostWakeup ==
    slotWaiters # <<>> =>
        active + Cardinality({r \in Requests : op[r] = "woken"}) >= MaxConcurrency

\* A mutation is never under way twice: a retry joins the first, also when the caller of
\* the first has timed out or gone and its task goes on.
OneOperationPerKey ==
    \A r, q \in Requests :
        r # q /\ KeyOf[r] # NoKey /\ KeyOf[r] = KeyOf[q] /\ op[r] \in Queued => op[q] \notin Queued

\* However often a mutation is sent again under its key, it is carried out once for every
\* time its entry was forgotten, and once.
CarriedOutOnce ==
    \A k \in Keys : Cardinality({r \in ran : KeyOf[r] = k}) <= forgotten[k] + 1

\* A request is told "ok" only if the operation was carried out for what it asked for, and
\* one that was refused was not carried out.
AnswersAreTrue ==
    \A r \in Requests :
        /\ answer[r] = "ok" => \E q \in ran : /\ FingerprintOf[q] = FingerprintOf[r]
                                             /\ KeyOf[q] = KeyOf[r] /\ result[q] = "ok"
        /\ answer[r] \in {"conflict", "limit"} => r \notin ran

\* Every operation leaves the queue: aborts and overtaking strand none.
OperationsSettle ==
    \A r \in Requests : op[r] \in Queued ~> op[r] = "settled"
=============================================================================
