------------------------- MODULE BrowserQueueProofs -------------------------
(***************************************************************************)
(* Proofs about BrowserQueue for every set of requests, keys and tabs and  *)
(* every limit.  Typing and the list of waiters come first; the turns, the *)
(* slots and the registry then each have an invariant of their own.        *)
(***************************************************************************)
EXTENDS BrowserQueue, FiniteSetTheorems, TLAPS

\* The list of waiters holds the operations that wait for a slot, each once.
WaitersWait ==
    /\ \A i \in 1..Len(slotWaiters) : op[slotWaiters[i]] = "slot"
    /\ \A i, j \in 1..Len(slotWaiters) : slotWaiters[i] = slotWaiters[j] => i = j

\* An operation has a result exactly when it is settled.
SettledHasResult == \A r \in Requests : op[r] = "settled" <=> result[r] # "none"

\* A request that was not handled has no operation.
UnhandledHasNone == \A r \in Requests : answer[r] = "none" => op[r] = "none"

\* Of two operations queued for a tab one was queued behind the other, and those that have
\* the turn were queued behind settled ones only.
TurnsAreOrdered ==
    /\ \A r \in Requests : op[r] \in HasTab => TurnHasCome(r)
    /\ \A r, q \in Requests :
        r # q /\ TabOf[r] = TabOf[q] /\ op[r] \in Queued /\ op[q] \in Queued
            => r \in before[q] \/ q \in before[r]

\* The entry of a key stands for the operation that is queued under it, and only settled
\* entries expire.
EntriesStand ==
    /\ \A k \in Keys : entry[k] # NoRequest => KeyOf[entry[k]] = k
    /\ \A k \in expired : entry[k] # NoRequest /\ op[entry[k]] = "settled"
    /\ \A r \in Requests : KeyOf[r] # NoKey /\ op[r] \in Queued => entry[KeyOf[r]] = r

\* Who waits, or was given an outcome, asked for what the operation it joined does.
AnswersMatch ==
    \A r \in Requests :
        /\ answer[r] \in {"waiting"} \cup Outcomes =>
            /\ joined[r] \in Requests
            /\ KeyOf[joined[r]] = KeyOf[r] /\ FingerprintOf[joined[r]] = FingerprintOf[r]
        /\ answer[r] \in Outcomes => answer[r] = result[joined[r]]
        /\ answer[r] \in {"conflict", "limit"} => op[r] = "none"
        /\ op[r] = "running" \/ result[r] = "ok" => r \in ran

\* What was carried out under a key is counted by what was forgotten and the entry.
RunsAreRemembered ==
    /\ \A r \in ran : op[r] \in {"running", "settled"}
    /\ \A k \in Keys :
        Cardinality({r \in ran : KeyOf[r] = k}) <= forgotten[k] + IF entry[k] \in ran THEN 1 ELSE 0
-----------------------------------------------------------------------------
(* Typing and the list of waiters.                                         *)

\* What splice(index, 1) leaves of the list of waiters.
LEMMA SpliceFacts ==
    ASSUME NEW S, NEW s \in Seq(S), NEW i \in 1..Len(s)
    PROVE  /\ Splice(s, i) \in Seq(S)
           /\ Len(Splice(s, i)) = Len(s) - 1
           /\ \A j \in 1..Len(s) - 1 : Splice(s, i)[j] = s[IF j < i THEN j ELSE j + 1]
  <1>1. Len(s) \in Nat /\ Len(s) - 1 \in Nat /\ \A j \in 1..Len(s) : s[j] \in S
    OBVIOUS
  <1>2. \A j \in 1..Len(s) - 1 : (IF j < i THEN j ELSE j + 1) \in 1..Len(s)
    BY <1>1
  <1>3. Splice(s, i) \in [1..Len(s) - 1 -> S]
    BY <1>1, <1>2, Zenon DEF Splice
  <1>4. Splice(s, i) \in Seq(S) /\ Len(Splice(s, i)) = Len(s) - 1
    BY <1>1, <1>3
  <1> QED BY <1>4, Zenon DEF Splice

\* The waiters an abort leaves are typed and still wait, each once.
LEMMA AbortWaiters ==
    ASSUME TypeOK, WaitersWait, NEW r \in Requests, NEW reason, Abort(r, reason)
    PROVE  /\ slotWaiters' \in Seq(Requests)
           /\ WaitersWait'
           /\ slotWaiters' # <<>> => slotWaiters # <<>>
  <1>1. CASE /\ \A i \in 1..Len(slotWaiters) : slotWaiters[i] # r
             /\ slotWaiters' = slotWaiters
    BY <1>1 DEF TypeOK, WaitersWait, Abort
  <1>2. ASSUME NEW i \in 1..Len(slotWaiters), slotWaiters[i] = r,
               slotWaiters' = Splice(slotWaiters, i)
        PROVE  /\ slotWaiters' \in Seq(Requests)
               /\ WaitersWait'
               /\ slotWaiters' # <<>> => slotWaiters # <<>>
    <2> DEFINE At(j) == IF j < i THEN j ELSE j + 1
    <2>1. slotWaiters \in Seq(Requests) /\ Len(slotWaiters) \in Nat
      BY DEF TypeOK
    <2>2. /\ slotWaiters' \in Seq(Requests)
          /\ Len(slotWaiters') = Len(slotWaiters) - 1
          /\ \A j \in 1..Len(slotWaiters) - 1 : slotWaiters'[j] = slotWaiters[At(j)]
      BY <1>2, <2>1, SpliceFacts, Zenon
    <2>3. \A j \in 1..Len(slotWaiters) - 1 :
              At(j) \in 1..Len(slotWaiters) /\ At(j) # i
      BY <2>1
    <2>4. \A j, l \in 1..Len(slotWaiters) - 1 : At(j) = At(l) => j = l
      BY <2>1
    <2> HIDE DEF At
    <2>5. \A j, l \in 1..Len(slotWaiters') : slotWaiters'[j] = slotWaiters'[l] => j = l
      BY <2>2, <2>3, <2>4 DEF WaitersWait
    <2>6. ASSUME NEW j \in 1..Len(slotWaiters')
          PROVE  op'[slotWaiters'[j]] = "slot"
      <3>1. /\ slotWaiters'[j] = slotWaiters[At(j)] /\ At(j) \in 1..Len(slotWaiters)
            /\ slotWaiters[At(j)] # r /\ slotWaiters[At(j)] \in Requests
        BY <1>2, <2>1, <2>2, <2>3 DEF WaitersWait
      <3>2. op[slotWaiters[At(j)]] = "slot"
        BY <3>1, Zenon DEF WaitersWait
      <3> QED BY <3>1, <3>2, Zenon DEF Abort, TypeOK
    <2>7. slotWaiters # <<>>
      BY <1>2, <2>1
    <2> QED BY <2>2, <2>5, <2>6, <2>7, Zenon DEF WaitersWait
  <1> QED BY <1>1, <1>2, Zenon DEF Abort
\* What a release does to the queue: r is settled, and the first waiter, if any, is woken.
LEMMA ReleaseOps ==
    ASSUME TypeOK, WaitersWait, NEW r \in Requests, op[r] \in HasSlot, NEW outcome,
           Release(r, outcome)
    PROVE  /\ slotWaiters' \in Seq(Requests)
           /\ WaitersWait'
           /\ \E w \in Requests \cup {NoRequest} :
                /\ w # NoRequest => w \in Requests /\ op[w] = "slot"
                /\ slotWaiters = <<>> <=> w = NoRequest
                /\ slotWaiters' # <<>> => slotWaiters # <<>>
                /\ op' = [q \in Requests |-> IF q = r THEN "settled"
                                             ELSE IF q = w THEN "woken" ELSE op[q]]
  <1>0. op \in [Requests -> {"none", "settled"} \cup Queued] /\ slotWaiters \in Seq(Requests)
        /\ NoRequest \notin Requests
    BY BrowserAssumption, Zenon DEF TypeOK
  <1>1. CASE slotWaiters = <<>> /\ slotWaiters' = slotWaiters /\ op' = [op EXCEPT ![r] = "settled"]
    <2>1. WaitersWait'
      BY <1>0, <1>1 DEF WaitersWait
    <2>2. op' = [q \in Requests |-> IF q = r THEN "settled"
                                   ELSE IF q = NoRequest THEN "woken" ELSE op[q]]
      BY <1>0, <1>1, Zenon
    <2> QED BY <1>0, <1>1, <2>1, <2>2, Zenon
  <1>2. CASE /\ slotWaiters # <<>> /\ slotWaiters' = Tail(slotWaiters)
             /\ op' = [op EXCEPT ![r] = "settled", ![Head(slotWaiters)] = "woken"]
    <2> DEFINE w == Head(slotWaiters)
    <2>1. /\ Len(slotWaiters) \in Nat /\ 1 \in 1..Len(slotWaiters) /\ w = slotWaiters[1]
          /\ w \in Requests
      BY <1>0, <1>2
    <2>2. op[w] = "slot" /\ w # r
      BY <2>1, Zenon DEF WaitersWait, HasSlot
    <2>3. /\ slotWaiters' \in Seq(Requests) /\ Len(slotWaiters') = Len(slotWaiters) - 1
          /\ \A i \in 1..Len(slotWaiters') : /\ slotWaiters'[i] = slotWaiters[i + 1]
                                            /\ i + 1 \in 1..Len(slotWaiters)
      BY <1>0, <1>2, <2>1
    <2> HIDE DEF w
    <2>4. op' = [q \in Requests |-> IF q = r THEN "settled" ELSE IF q = w THEN "woken" ELSE op[q]]
      BY <1>0, <1>2, <2>1, <2>2, Zenon DEF w
    <2>5. \A i \in 1..Len(slotWaiters') :
              op[slotWaiters'[i]] = "slot" /\ slotWaiters'[i] # w /\ slotWaiters'[i] \in Requests
      <3> TAKE i \in 1..Len(slotWaiters')
      <3>1. i + 1 # 1 /\ i + 1 \in 1..Len(slotWaiters) /\ slotWaiters'[i] = slotWaiters[i + 1]
        BY <2>1, <2>3
      <3> QED BY <1>0, <2>1, <3>1 DEF WaitersWait
    <2>6. \A i \in 1..Len(slotWaiters') : op'[slotWaiters'[i]] = "slot"
      BY <2>4, <2>5, Zenon DEF HasSlot
    <2>7. \A i, j \in 1..Len(slotWaiters') : slotWaiters'[i] = slotWaiters'[j] => i = j
      <3> TAKE i, j \in 1..Len(slotWaiters')
      <3>1. i + 1 = j + 1 => i = j
        BY <2>1, <2>3
      <3> QED BY <2>3, <3>1 DEF WaitersWait
    <2>8. WaitersWait'
      BY <2>6, <2>7, Zenon DEF WaitersWait
    <2>9. w # NoRequest
      BY <1>0, <2>1, Zenon
    <2>10. /\ w # NoRequest => w \in Requests /\ op[w] = "slot"
           /\ slotWaiters = <<>> <=> w = NoRequest
           /\ slotWaiters' # <<>> => slotWaiters # <<>>
      BY <1>2, <2>1, <2>2, <2>9, Zenon
    <2>11. w \in Requests \cup {NoRequest}
      BY <2>1, Zenon
    <2> QED BY <2>3, <2>4, <2>8, <2>10, <2>11, Zenon
  <1> QED BY <1>1, <1>2, Zenon DEF Release

\* What acquireSlot does to the queue: r gets a slot, waits for one or is rejected.
LEMMA AcquireOps ==
    ASSUME TypeOK, WaitersWait, NEW r \in Requests, op[r] \in {"turn", "woken"}, AcquireSlot(r)
    PROVE  /\ slotWaiters' \in Seq(Requests) /\ active' \in Nat
           /\ WaitersWait'
           /\ \E place \in {"acquired", "slot", "rejected"} : op' = [op EXCEPT ![r] = place]
  <1>0. /\ op \in [Requests -> {"none", "settled"} \cup Queued] /\ slotWaiters \in Seq(Requests)
        /\ active \in Nat /\ MaxConcurrency \in Nat
        /\ \A i \in 1..Len(slotWaiters) : slotWaiters[i] \in Requests /\ slotWaiters[i] # r
    BY BrowserAssumption DEF TypeOK, WaitersWait
  <1>1. CASE slotWaiters' = slotWaiters /\ \E place \in {"acquired", "rejected"} :
                                              op' = [op EXCEPT ![r] = place]
    BY <1>0, <1>1 DEF WaitersWait, AcquireSlot
  <1>2. CASE slotWaiters' = Append(slotWaiters, r) /\ op' = [op EXCEPT ![r] = "slot"]
    <2>1. /\ slotWaiters' \in Seq(Requests) /\ Len(slotWaiters') = Len(slotWaiters) + 1
          /\ slotWaiters'[Len(slotWaiters) + 1] = r
          /\ \A i \in 1..Len(slotWaiters) : slotWaiters'[i] = slotWaiters[i]
          /\ Len(slotWaiters) \in Nat
      BY <1>0, <1>2
    <2>2. \A i \in 1..Len(slotWaiters') : i \in 1..Len(slotWaiters) \/ i = Len(slotWaiters) + 1
      BY <2>1
    <2>3. \A i \in 1..Len(slotWaiters') : op'[slotWaiters'[i]] = "slot"
      BY <1>0, <1>2, <2>1, <2>2 DEF WaitersWait
    <2>4. \A i, j \in 1..Len(slotWaiters') : slotWaiters'[i] = slotWaiters'[j] => i = j
      BY <1>0, <2>1, <2>2 DEF WaitersWait
    <2>5. WaitersWait'
      BY <2>3, <2>4, Zenon DEF WaitersWait
    <2> QED BY <1>0, <1>2, <2>1, <2>5, Zenon DEF AcquireSlot
  <1> QED BY <1>1, <1>2, Zenon DEF AcquireSlot

\* The part of the invariant the others rest on.
Base == TypeOK /\ WaitersWait /\ UnhandledHasNone /\ SettledHasResult

\* Every way an operation is ended gives an outcome to those who wait and to nobody else.
LEMMA SettleType ==
    ASSUME TypeOK, NEW r \in Requests, NEW outcome \in Outcomes, Settle(r, outcome)
    PROVE  /\ result' \in [Requests -> {"none"} \cup Outcomes]
           /\ answer' \in [Requests -> {"none", "waiting"} \cup Outcomes \cup Refusals]
           /\ \A q \in Requests : answer'[q] = "none" => answer[q] = "none"
  BY Zenon DEF TypeOK, Settle, Outcomes

\* The steps of the queue that end an operation holding a slot are releases.
LEMMA EndingReleases ==
    ASSUME NEW r \in Requests, NotStarted(r) \/ TaskEnds(r)
    PROVE  /\ op[r] \in HasSlot /\ ran' = ran
           /\ \E outcome \in Outcomes : /\ Release(r, outcome)
                                        /\ outcome = "ok" => op[r] = "running"
  BY Zenon DEF NotStarted, TaskEnds, HasSlot, Outcomes

\* Handling a request: what it may change.
LEMMA HandleOps ==
    ASSUME Base, NEW r \in Requests, HandleUnkeyed(r) \/ HandleKeyed(r)
    PROVE  /\ op[r] = "none" /\ UNCHANGED <<aborted, result, slotWaiters, active, ran>>
           /\ \/ UNCHANGED <<op, before>>
              \/ Enqueue(r) /\ (KeyOf[r] # NoKey => Pruned[KeyOf[r]] = NoRequest
                                                   /\ entry' = [Pruned EXCEPT ![KeyOf[r]] = r])
           /\ \E a \in {"waiting"} \cup Outcomes \cup Refusals : answer' = [answer EXCEPT ![r] = a]
  <1>0. /\ op \in [Requests -> {"none", "settled"} \cup Queued]
        /\ result \in [Requests -> {"none"} \cup Outcomes]
        /\ entry \in [Keys -> Requests \cup {NoRequest}]
        /\ op[r] = "none"
    BY Zenon DEF Base, TypeOK, UnhandledHasNone, HandleUnkeyed, HandleKeyed
  <1>1. ASSUME NEW owner \in Requests, Join(r, owner)
        PROVE  \E a \in {"waiting"} \cup Outcomes \cup Refusals : answer' = [answer EXCEPT ![r] = a]
    BY <1>0, <1>1, Zenon DEF Base, SettledHasResult, Join
  <1>2. CASE HandleUnkeyed(r)
    BY <1>0, <1>1, <1>2, Zenon DEF HandleUnkeyed
  <1>3. CASE HandleKeyed(r)
    <2> DEFINE existing == Pruned[KeyOf[r]]
    <2>0. KeyOf[r] \in Keys /\ (existing # NoRequest => existing \in Requests)
      BY <1>0, <1>3, BrowserAssumption, Zenon DEF HandleKeyed, Pruned
    <2> HIDE DEF existing
    <2>1. ASSUME NEW refusal \in {"conflict", "limit"}, Refuse(r, refusal)
          PROVE  /\ UNCHANGED <<op, before>>
                 /\ \E a \in {"waiting"} \cup Outcomes \cup Refusals : answer' = [answer EXCEPT ![r] = a]
      BY <2>1, Zenon DEF Refuse, Refusals
    <2>2. CASE Refuse(r, "conflict") \/ Refuse(r, "limit")
      BY <1>0, <1>3, <2>1, <2>2, Zenon DEF HandleKeyed
    <2>3. CASE existing # NoRequest /\ Join(r, existing) /\ UNCHANGED <<op, before>>
      BY <1>0, <1>1, <1>3, <2>0, <2>3, Zenon DEF HandleKeyed
    <2>4. CASE /\ existing = NoRequest /\ entry' = [Pruned EXCEPT ![KeyOf[r]] = r]
               /\ Join(r, r) /\ Enqueue(r)
      BY <1>0, <1>1, <1>3, <2>4, Zenon DEF HandleKeyed, existing
    <2> QED BY <1>3, <2>2, <2>3, <2>4, Zenon DEF HandleKeyed, existing
  <1> QED BY <1>2, <1>3, Zenon

\* The registry is typed after a request was handled.
LEMMA HandleType ==
    ASSUME Base, NEW r \in Requests, HandleUnkeyed(r) \/ HandleKeyed(r)
    PROVE  /\ entry' \in [Keys -> Requests \cup {NoRequest}] /\ expired' \in SUBSET Keys
           /\ joined' \in [Requests -> Requests \cup {NoRequest}]
           /\ forgotten' \in [Keys -> Nat]
  <1>0. /\ entry \in [Keys -> Requests \cup {NoRequest}] /\ expired \in SUBSET Keys
        /\ joined \in [Requests -> Requests \cup {NoRequest}] /\ forgotten \in [Keys -> Nat]
    BY Zenon DEF Base, TypeOK
  <1>1. CASE HandleUnkeyed(r)
    BY <1>0, <1>1, Zenon DEF HandleUnkeyed, registryVars, Join
  <1>2. CASE HandleKeyed(r)
    <2>1. Pruned \in [Keys -> Requests \cup {NoRequest}] /\ KeyOf[r] \in Keys
      BY <1>0, <1>2, BrowserAssumption, Zenon DEF Pruned, HandleKeyed
    <2>2. entry' = Pruned \/ entry' = [Pruned EXCEPT ![KeyOf[r]] = r]
      BY <1>2, Zenon DEF HandleKeyed
    <2>3. joined' = joined \/ Join(r, r) \/ Join(r, Pruned[KeyOf[r]])
      BY <1>2, Zenon DEF HandleKeyed, Refuse
    <2>4. joined' \in [Requests -> Requests \cup {NoRequest}]
      BY <1>0, <2>1, <2>3, Zenon DEF Join
    <2>5. expired' \in SUBSET Keys /\ forgotten' \in [Keys -> Nat]
      BY <1>0, <1>2 DEF HandleKeyed, Prune
    <2> QED BY <2>1, <2>2, <2>4, <2>5, Zenon
  <1> QED BY <1>1, <1>2, Zenon

\* Base is inductive.
LEMMA BaseStep == Base /\ [Next]_vars => Base'
  <1> SUFFICES ASSUME Base, [Next]_vars PROVE Base'
    BY Zenon
  <1>0. TypeOK /\ WaitersWait /\ UnhandledHasNone /\ SettledHasResult
    BY Zenon DEF Base
  <1>1. ASSUME NEW r \in Requests, HandleUnkeyed(r) \/ HandleKeyed(r) PROVE Base'
    <2>1. PICK a \in {"waiting"} \cup Outcomes \cup Refusals : answer' = [answer EXCEPT ![r] = a]
      BY <1>1, HandleOps, Zenon
    <2>2. /\ op[r] = "none" /\ UNCHANGED <<aborted, result, slotWaiters, active, ran>>
          /\ UNCHANGED <<op, before>> \/ Enqueue(r)
      BY <1>1, HandleOps, Zenon
    <2>3. TypeOK'
      <3>1. op' \in [Requests -> {"none", "settled"} \cup Queued]
        BY <1>0, <2>2, Zenon DEF TypeOK, Enqueue, Queued
      <3>2. before' \in [Requests -> SUBSET Requests]
        BY <1>0, <2>2 DEF TypeOK, Enqueue
      <3>3. answer' \in [Requests -> {"none", "waiting"} \cup Outcomes \cup Refusals]
        BY <1>0, <2>1, Zenon DEF TypeOK
      <3> QED BY <1>0, <1>1, <2>2, <3>1, <3>2, <3>3, HandleType, Zenon DEF TypeOK
    <2>4. WaitersWait'
      BY <1>0, <2>2 DEF TypeOK, WaitersWait, Enqueue
    <2>5. UnhandledHasNone' /\ SettledHasResult'
      BY <1>0, <2>1, <2>2 DEF TypeOK, UnhandledHasNone, SettledHasResult, Enqueue, Outcomes, Refusals
    <2> QED BY <2>3, <2>4, <2>5, Zenon DEF Base
  <1>2. ASSUME NEW k \in Keys, Expire(k) PROVE Base'
    BY <1>0, <1>2 DEF Base, TypeOK, WaitersWait, UnhandledHasNone, SettledHasResult, Expire, queueVars
  <1>3. ASSUME NEW r \in Requests, TakeTurn(r) \/ Resume(r) PROVE Base'
    <2>1. /\ op[r] \in {"turn", "woken"} /\ AcquireSlot(r)
          /\ UNCHANGED <<registryVars, before, answer, joined, aborted, result, ran>>
      BY <1>3, Zenon DEF TakeTurn, Resume
    <2>2. PICK place \in {"acquired", "slot", "rejected"} : op' = [op EXCEPT ![r] = place]
      BY <1>0, <2>1, AcquireOps, Zenon
    <2>3. slotWaiters' \in Seq(Requests) /\ active' \in Nat /\ WaitersWait'
      BY <1>0, <2>1, AcquireOps, Zenon
    <2>4. TypeOK'
      BY <1>0, <2>1, <2>2, <2>3, Zenon DEF TypeOK, registryVars, Queued, HasTab
    <2>5. UnhandledHasNone' /\ SettledHasResult'
      BY <1>0, <2>1, <2>2, Zenon DEF TypeOK, UnhandledHasNone, SettledHasResult
    <2> QED BY <2>3, <2>4, <2>5, Zenon DEF Base
  <1>4. ASSUME NEW r \in Requests, Rejected(r) PROVE Base'
    <2>1. /\ op[r] = "rejected" /\ op' = [op EXCEPT ![r] = "settled"] /\ Settle(r, "cancelled")
          /\ UNCHANGED <<registryVars, before, slotWaiters, active, joined, aborted, ran>>
      BY <1>4, Zenon DEF Rejected
    <2>2. TypeOK'
      BY <1>0, <2>1, SettleType, Zenon DEF TypeOK, registryVars, Outcomes
    <2>3. WaitersWait'
      BY <1>0, <2>1 DEF TypeOK, WaitersWait
    <2>4. UnhandledHasNone' /\ SettledHasResult'
      BY <1>0, <2>1, Zenon DEF TypeOK, UnhandledHasNone, SettledHasResult, Settle
    <2> QED BY <2>2, <2>3, <2>4, Zenon DEF Base
  <1>5. ASSUME NEW r \in Requests, Start(r) PROVE Base'
    <2>1. TypeOK'
      BY <1>0, <1>5, Zenon DEF TypeOK, Start, registryVars, Queued, HasTab
    <2>2. WaitersWait' /\ UnhandledHasNone' /\ SettledHasResult'
      BY <1>0, <1>5 DEF TypeOK, WaitersWait, UnhandledHasNone, SettledHasResult, Start
    <2> QED BY <2>1, <2>2, Zenon DEF Base
  <1>6. ASSUME NEW r \in Requests, NotStarted(r) \/ TaskEnds(r) PROVE Base'
    <2>1. PICK outcome \in Outcomes : Release(r, outcome)
      BY <1>6, EndingReleases, Zenon
    <2>2. op[r] \in HasSlot /\ ran' = ran
      BY <1>6, EndingReleases, Zenon
    <2>3. slotWaiters' \in Seq(Requests) /\ WaitersWait'
      BY <1>0, <2>1, <2>2, ReleaseOps, Zenon
    <2>4. PICK w \in Requests \cup {NoRequest} :
              /\ w # NoRequest => w \in Requests /\ op[w] = "slot"
              /\ op' = [q \in Requests |-> IF q = r THEN "settled"
                                           ELSE IF q = w THEN "woken" ELSE op[q]]
      BY <1>0, <2>1, <2>2, ReleaseOps, Zenon
    <2>5. Settle(r, outcome) /\ UNCHANGED <<registryVars, before, joined, aborted>> /\ active' \in Nat
      BY <1>0, <2>1 DEF Release, TypeOK
    <2>6. TypeOK'
      BY <1>0, <2>2, <2>3, <2>4, <2>5, SettleType, Zenon DEF TypeOK, registryVars, Queued, HasTab
    <2>7. UnhandledHasNone' /\ SettledHasResult'
      BY <1>0, <2>2, <2>4, <2>5, BrowserAssumption
      DEF TypeOK, UnhandledHasNone, SettledHasResult, Settle, Outcomes, HasSlot
    <2> QED BY <2>3, <2>6, <2>7, Zenon DEF Base
  <1>7. ASSUME NEW r \in Requests, Disconnect(r) \/ OperationTimeout(r) PROVE Base'
    <2>1. PICK reason \in Refusals : Abort(r, reason)
      BY <1>7, Zenon DEF Disconnect, OperationTimeout, Refusals
    <2>2. slotWaiters' \in Seq(Requests) /\ WaitersWait'
      BY <1>0, <2>1, AbortWaiters, Zenon
    <2>3. TypeOK'
      BY <1>0, <2>1, <2>2, Zenon DEF TypeOK, Abort, registryVars, Queued
    <2>4. UnhandledHasNone' /\ SettledHasResult'
      BY <1>0, <2>1, Zenon DEF TypeOK, UnhandledHasNone, SettledHasResult, Abort, Refusals
    <2> QED BY <2>2, <2>3, <2>4, Zenon DEF Base
  <1>8. CASE UNCHANGED vars
    BY <1>0, <1>8 DEF Base, TypeOK, WaitersWait, UnhandledHasNone, SettledHasResult,
                      vars, registryVars, queueVars
  <1> QED BY <1>1, <1>2, <1>3, <1>4, <1>5, <1>6, <1>7, <1>8, Zenon DEF Next, Proceeds
-----------------------------------------------------------------------------
(* Turns.                                                                  *)

\* Every step other than handling a request: nothing enters the queue, what is settled
\* stays settled, a running task only ends, and only a turn that has come gives the tab.
QueueOnly ==
    /\ before' = before
    /\ \A q \in Requests : op[q] = "settled" => op'[q] = "settled"
    /\ \A q \in Requests : op'[q] \in Queued => op[q] \in Queued
    /\ \A q \in Requests : op[q] = "running" => op'[q] \in {"running", "settled"}
    /\ \A q \in Requests : op[q] = "none" => op'[q] = "none"
    /\ \A q \in Requests : op'[q] \in HasTab => op[q] \in HasTab \/ TurnHasCome(q)

Handles == \E r \in Requests : HandleUnkeyed(r) \/ HandleKeyed(r)

\* The queue's own steps, aborts and expiries are such steps.
LEMMA QueueOnlySteps == Base /\ [Next]_vars => Handles \/ QueueOnly
  <1> SUFFICES ASSUME Base, [Next]_vars, ~ Handles PROVE QueueOnly
    BY Zenon
  <1>0. /\ TypeOK /\ WaitersWait
        /\ op \in [Requests -> {"none", "settled"} \cup Queued]
    BY Zenon DEF Base, TypeOK
  <1>1. ASSUME NEW k \in Keys, Expire(k) PROVE QueueOnly
    BY <1>1, Zenon DEF QueueOnly, Expire, queueVars
  <1>2. ASSUME NEW r \in Requests, TakeTurn(r) PROVE QueueOnly
    <2>1. PICK place \in {"acquired", "slot", "rejected"} : op' = [op EXCEPT ![r] = place]
      BY <1>0, <1>2, AcquireOps, Zenon DEF TakeTurn
    <2> QED BY <1>0, <1>2, <2>1, Zenon DEF QueueOnly, TakeTurn, Queued
  <1>3. ASSUME NEW r \in Requests, Resume(r) PROVE QueueOnly
    <2>1. PICK place \in {"acquired", "slot", "rejected"} : op' = [op EXCEPT ![r] = place]
      BY <1>0, <1>3, AcquireOps, Zenon DEF Resume
    <2> QED BY <1>0, <1>3, <2>1, Zenon DEF QueueOnly, Resume, Queued, HasTab
  <1>4. ASSUME NEW r \in Requests, Rejected(r) \/ Start(r) PROVE QueueOnly
    BY <1>0, <1>4, Zenon DEF QueueOnly, Rejected, Start, Queued, HasTab
  <1>5. ASSUME NEW r \in Requests, NotStarted(r) \/ TaskEnds(r) PROVE QueueOnly
    <2>1. PICK outcome \in Outcomes : Release(r, outcome)
      BY <1>5, EndingReleases, Zenon
    <2>2. op[r] \in HasSlot /\ before' = before
      BY <1>5, <2>1, EndingReleases, Zenon DEF Release
    <2>3. PICK w \in Requests \cup {NoRequest} :
              /\ w # NoRequest => w \in Requests /\ op[w] = "slot"
              /\ op' = [q \in Requests |-> IF q = r THEN "settled"
                                           ELSE IF q = w THEN "woken" ELSE op[q]]
      BY <1>0, <2>1, <2>2, ReleaseOps, Zenon
    <2> QED BY <1>0, <2>2, <2>3, BrowserAssumption, Zenon DEF QueueOnly, Queued, HasTab, HasSlot
  <1>6. ASSUME NEW r \in Requests, Disconnect(r) \/ OperationTimeout(r) PROVE QueueOnly
    <2>1. PICK reason \in Refusals : Abort(r, reason)
      BY <1>6, Zenon DEF Disconnect, OperationTimeout, Refusals
    <2> QED BY <1>0, <2>1, Zenon DEF QueueOnly, Abort, Queued, HasTab
  <1>7. CASE UNCHANGED vars
    BY <1>7, Zenon DEF QueueOnly, vars, queueVars
  <1> QED BY <1>1, <1>2, <1>3, <1>4, <1>5, <1>6, <1>7, Zenon DEF Next, Proceeds, Handles

\* TurnsAreOrdered is inductive.
LEMMA TurnsStep == Base /\ TurnsAreOrdered /\ [Next]_vars => TurnsAreOrdered'
  <1> SUFFICES ASSUME Base, TurnsAreOrdered, [Next]_vars PROVE TurnsAreOrdered'
    BY Zenon
  <1>1. CASE QueueOnly
    BY <1>1, Zenon DEF QueueOnly, TurnsAreOrdered, TurnHasCome, Base, TypeOK
  <1>2. CASE Handles
    <2>1. PICK r \in Requests : HandleUnkeyed(r) \/ HandleKeyed(r)
      BY <1>2, Zenon DEF Handles
    <2>2. op[r] = "none" /\ (UNCHANGED <<op, before>> \/ Enqueue(r))
      BY <2>1, HandleOps, Zenon
    <2>3. CASE UNCHANGED <<op, before>>
      BY <2>3, Zenon DEF TurnsAreOrdered, TurnHasCome
    <2>4. CASE Enqueue(r)
      <3>1. /\ op \in [Requests -> {"none", "settled"} \cup Queued]
            /\ before \in [Requests -> SUBSET Requests]
        BY Zenon DEF Base, TypeOK
      <3>2. /\ op'[r] \in {"turn", "rejected"} /\ \A q \in Requests \ {r} : op'[q] = op[q]
            /\ before'[r] = {q \in Requests : TabOf[q] = TabOf[r] /\ op[q] \in Queued}
            /\ \A q \in Requests \ {r} : before'[q] = before[q]
        BY <2>4, <3>1, Zenon DEF Enqueue
      <3>3. ASSUME NEW q \in Requests, op'[q] \in HasTab PROVE TurnHasCome(q)'
        <4>1. q # r
          BY <3>2, <3>3, Zenon DEF HasTab
        <4>2. TurnHasCome(q) /\ before'[q] = before[q]
          BY <3>2, <3>3, <4>1, Zenon DEF TurnsAreOrdered
        <4> QED BY <2>2, <3>1, <3>2, <4>2, Zenon DEF TurnHasCome
      <3>4. ASSUME NEW q \in Requests, NEW p \in Requests, p # q, TabOf[p] = TabOf[q],
                   op'[p] \in Queued, op'[q] \in Queued
            PROVE  p \in before'[q] \/ q \in before'[p]
        BY <3>2, <3>4 DEF TurnsAreOrdered
      <3> QED BY <3>3, <3>4, Zenon DEF TurnsAreOrdered
    <2> QED BY <2>2, <2>3, <2>4, Zenon
  <1> QED BY <1>1, <1>2, QueueOnlySteps, Zenon
-----------------------------------------------------------------------------
(* The registry.                                                           *)

\* EntriesStand is inductive.
LEMMA EntriesStep == Base /\ EntriesStand /\ [Next]_vars => EntriesStand'
  <1> SUFFICES ASSUME Base, EntriesStand, [Next]_vars PROVE EntriesStand'
    BY Zenon
  <1>0. /\ entry \in [Keys -> Requests \cup {NoRequest}] /\ expired \in SUBSET Keys
        /\ op \in [Requests -> {"none", "settled"} \cup Queued]
        /\ NoRequest \notin Requests /\ KeyOf \in [Requests -> Keys \cup {NoKey}]
    BY BrowserAssumption, Zenon DEF Base, TypeOK
  <1>1. CASE Handles
    <2>1. PICK r \in Requests : HandleUnkeyed(r) \/ HandleKeyed(r)
      BY <1>1, Zenon DEF Handles
    <2>2. /\ op[r] = "none"
          /\ \/ UNCHANGED <<op, before>>
             \/ Enqueue(r) /\ (KeyOf[r] # NoKey => Pruned[KeyOf[r]] = NoRequest
                                                  /\ entry' = [Pruned EXCEPT ![KeyOf[r]] = r])
      BY <2>1, HandleOps, Zenon
    <2>3. CASE HandleUnkeyed(r)
      BY <1>0, <2>2, <2>3 DEF EntriesStand, HandleUnkeyed, registryVars, Enqueue, Queued
    <2>4. CASE HandleKeyed(r)
      <3>0. KeyOf[r] \in Keys /\ expired' = {}
        BY <1>0, <2>4, Zenon DEF HandleKeyed, Prune
      <3>1. /\ Pruned \in [Keys -> Requests \cup {NoRequest}]
            /\ \A k \in Keys : Pruned[k] # NoRequest => KeyOf[Pruned[k]] = k
            /\ \A q \in Requests : KeyOf[q] # NoKey /\ op[q] \in Queued => Pruned[KeyOf[q]] = q
        BY <1>0 DEF Pruned, EntriesStand, Queued, HasTab
      <3>2. CASE entry' = Pruned /\ op' = op
        BY <3>0, <3>1, <3>2, Zenon DEF EntriesStand
      <3>3. CASE /\ Enqueue(r) /\ Pruned[KeyOf[r]] = NoRequest
                 /\ entry' = [Pruned EXCEPT ![KeyOf[r]] = r]
        BY <1>0, <3>0, <3>1, <3>3 DEF EntriesStand, Enqueue
      <3> QED BY <2>2, <2>4, <3>2, <3>3, Zenon DEF HandleKeyed, Refuse
    <2> QED BY <2>1, <2>3, <2>4, Zenon
  <1>2. CASE QueueOnly /\ UNCHANGED <<entry, expired>>
    BY <1>0, <1>2 DEF QueueOnly, EntriesStand
  <1>3. ASSUME NEW k \in Keys, Expire(k) PROVE EntriesStand'
    BY <1>0, <1>3, Zenon DEF EntriesStand, Expire, queueVars
  <1>4. Handles \/ (\E k \in Keys : Expire(k)) \/ UNCHANGED <<entry, expired>>
    BY DEF Next, Proceeds, Handles, TakeTurn, Resume, Rejected, Start, NotStarted, TaskEnds, Release,
           Disconnect, OperationTimeout, Abort, vars, registryVars
  <1> QED BY <1>1, <1>2, <1>3, <1>4, QueueOnlySteps, Zenon

\* RunsAreRemembered is inductive.
LEMMA RunsStep ==
    Base /\ EntriesStand /\ RunsAreRemembered /\ [Next]_vars => RunsAreRemembered'
  <1> SUFFICES ASSUME Base, EntriesStand, RunsAreRemembered, [Next]_vars PROVE RunsAreRemembered'
    BY Zenon
  <1> DEFINE RunsOf(k) == {r \in ran : KeyOf[r] = k}
  <1>0. /\ entry \in [Keys -> Requests \cup {NoRequest}] /\ expired \in SUBSET Keys
        /\ op \in [Requests -> {"none", "settled"} \cup Queued]
        /\ ran \in SUBSET Requests /\ forgotten \in [Keys -> Nat]
        /\ NoRequest \notin Requests /\ KeyOf \in [Requests -> Keys \cup {NoKey}]
        /\ NoKey \notin Keys /\ IsFiniteSet(Requests)
    BY BrowserAssumption, Zenon DEF Base, TypeOK
  <1>1. \A k \in Keys : IsFiniteSet(RunsOf(k)) /\ Cardinality(RunsOf(k)) \in Nat
    <2> TAKE k \in Keys
    <2>1. RunsOf(k) \subseteq Requests
      BY <1>0, Zenon
    <2> QED BY <1>0, <2>1, FS_Subset, FS_CardinalityType, Zenon
  <1>2. CASE Handles
    <2>1. PICK r \in Requests : HandleUnkeyed(r) \/ HandleKeyed(r)
      BY <1>2, Zenon DEF Handles
    <2>2. ran' = ran /\ op[r] = "none" /\ (op' = op \/ Enqueue(r))
      BY <2>1, HandleOps, Zenon
    <2>3. r \notin ran
      BY <2>2, Zenon DEF RunsAreRemembered
    <2>4. \A q \in ran' : op'[q] \in {"running", "settled"}
      BY <1>0, <2>2, <2>3, Zenon DEF RunsAreRemembered, Enqueue
    <2>5. ASSUME NEW k \in Keys
          PROVE  Cardinality(RunsOf(k)) <= forgotten'[k] + IF entry'[k] \in ran THEN 1 ELSE 0
      <3>1. Cardinality(RunsOf(k)) <= forgotten[k] + IF entry[k] \in ran THEN 1 ELSE 0
        BY Zenon DEF RunsAreRemembered
      <3>0. forgotten[k] \in Nat /\ Cardinality(RunsOf(k)) \in Nat
        BY <1>0, <1>1, Zenon
      <3> HIDE DEF RunsOf
      <3>2. CASE HandleUnkeyed(r)
        BY <3>1, <3>2, Zenon DEF HandleUnkeyed, registryVars
      <3>3. CASE HandleKeyed(r)
        <4>1. /\ forgotten'[k] = IF k \in expired THEN forgotten[k] + 1 ELSE forgotten[k]
              /\ entry'[k] = r \/ entry'[k] = Pruned[k]
          <5>1. Pruned \in [Keys -> Requests \cup {NoRequest}]
            BY <1>0, Zenon DEF Pruned
          <5>2. entry' = Pruned \/ entry' = [Pruned EXCEPT ![KeyOf[r]] = r]
            BY <3>3, Zenon DEF HandleKeyed
          <5>3. forgotten'[k] = IF k \in expired THEN forgotten[k] + 1 ELSE forgotten[k]
            BY <3>3, Zenon DEF HandleKeyed, Prune
          <5> QED BY <5>1, <5>2, <5>3, Zenon
        <4>2. CASE entry'[k] = Pruned[k]
          <5>1. CASE k \in expired
            BY <3>0, <3>1, <4>1, <5>1
          <5>2. CASE k \notin expired
            BY <3>1, <4>1, <4>2, <5>2, Zenon DEF Pruned
          <5> QED BY <5>1, <5>2, Zenon
        <4>3. CASE entry'[k] = r /\ entry'[k] # Pruned[k]
          <5>1. Pruned[k] = NoRequest
            <6>1. entry' = [Pruned EXCEPT ![KeyOf[r]] = r] /\ Pruned[KeyOf[r]] = NoRequest
              BY <3>3, <4>3, Zenon DEF HandleKeyed
            <6>2. k = KeyOf[r]
              BY <1>0, <4>3, <6>1, Zenon DEF Pruned
            <6> QED BY <6>1, <6>2, Zenon
          <5>2. CASE k \in expired
            BY <3>0, <3>1, <4>1, <5>2
          <5>3. CASE k \notin expired
            <6>1. entry[k] \notin ran
              BY <1>0, <5>1, <5>3, Zenon DEF Pruned
            <6> QED BY <2>3, <3>0, <3>1, <4>1, <4>3, <5>3, <6>1, Zenon
          <5> QED BY <5>2, <5>3, Zenon
        <4> QED BY <4>1, <4>2, <4>3, Zenon
      <3> QED BY <2>1, <3>2, <3>3, Zenon
    <2> QED BY <2>2, <2>4, <2>5, Zenon DEF RunsAreRemembered
  <1>3. ASSUME NEW r \in Requests, Start(r) PROVE RunsAreRemembered'
    <2>1. /\ op[r] = "acquired" /\ op' = [op EXCEPT ![r] = "running"] /\ ran' = ran \cup {r}
          /\ UNCHANGED <<entry, forgotten>>
      BY <1>3, Zenon DEF Start, registryVars
    <2>2. r \notin ran
      BY <2>1, Zenon DEF RunsAreRemembered
    <2>3. \A q \in ran' : op'[q] \in {"running", "settled"}
      BY <1>0, <2>1, <2>2 DEF RunsAreRemembered
    <2>4. ASSUME NEW k \in Keys
          PROVE  Cardinality({q \in ran' : KeyOf[q] = k}) <= forgotten[k] + IF entry[k] \in ran' THEN 1 ELSE 0
      <3>1. Cardinality(RunsOf(k)) <= forgotten[k] + IF entry[k] \in ran THEN 1 ELSE 0
        BY Zenon DEF RunsAreRemembered
      <3>2. CASE KeyOf[r] = k
        <4>1. {q \in ran' : KeyOf[q] = k} = RunsOf(k) \cup {r} /\ r \notin RunsOf(k)
          BY <2>1, <2>2, <3>2, Zenon
        <4>2. Cardinality(RunsOf(k) \cup {r}) = Cardinality(RunsOf(k)) + 1
          BY <1>1, <4>1, FS_AddElement, Zenon
        <4>3. entry[k] = r
          BY <1>0, <2>1, <3>2, Zenon DEF EntriesStand, Queued, HasTab
        <4>4. Cardinality(RunsOf(k)) <= forgotten[k] + 0 /\ entry[k] \in ran'
          BY <2>1, <2>2, <3>1, <4>3, Zenon
        <4>5. Cardinality(RunsOf(k)) \in Nat /\ forgotten[k] \in Nat
          BY <1>0, <1>1, Zenon
        <4>6. Cardinality({q \in ran' : KeyOf[q] = k}) = Cardinality(RunsOf(k)) + 1
          BY <4>1, <4>2, Zenon
        <4> HIDE DEF RunsOf
        <4> QED BY <4>4, <4>5, <4>6
      <3>3. CASE KeyOf[r] # k
        <4>1. {q \in ran' : KeyOf[q] = k} = RunsOf(k)
          BY <2>1, <3>3, Zenon
        <4>2. entry[k] # r
          BY <1>0, <3>3 DEF EntriesStand
        <4> QED BY <2>1, <3>1, <4>1, <4>2, Zenon
      <3> QED BY <3>2, <3>3, Zenon
    <2> QED BY <2>1, <2>3, <2>4, Zenon DEF RunsAreRemembered
  <1>4. CASE QueueOnly /\ UNCHANGED <<entry, forgotten, ran>>
    BY <1>0, <1>4, Zenon DEF QueueOnly, RunsAreRemembered
  <1>5. \/ Handles \/ \E r \in Requests : Start(r)
        \/ UNCHANGED <<entry, forgotten, ran>>
    BY DEF Next, Proceeds, Handles, TakeTurn, Resume, Rejected, NotStarted, TaskEnds, Release,
           Expire, Disconnect, OperationTimeout, Abort, vars, registryVars
  <1> QED BY <1>2, <1>3, <1>4, <1>5, QueueOnlySteps, Zenon
-----------------------------------------------------------------------------
(* Slots.                                                                  *)

Holders == {r \in Requests : op[r] \in HasSlot}
Woken == {r \in Requests : op[r] = "woken"}

\* The two sets are finite and have a size, before and after a step.
LEMMA SizesAreNumbers ==
    /\ IsFiniteSet(Holders) /\ IsFiniteSet(Woken)
    /\ Cardinality(Holders) \in Nat /\ Cardinality(Woken) \in Nat
  <1>1. Holders \subseteq Requests /\ Woken \subseteq Requests /\ IsFiniteSet(Requests)
    BY BrowserAssumption, Zenon DEF Holders, Woken
  <1> QED BY <1>1, FS_Subset, FS_CardinalityType, Zenon

\* What an operation that gets a slot does to the counts.
LEMMA SlotsAcquire ==
    ASSUME Base, SlotsAreCounted, NoLostWakeup, NEW r \in Requests, op[r] \in {"turn", "woken"},
           AcquireSlot(r)
    PROVE  SlotsAreCounted' /\ NoLostWakeup'
  <1>0. /\ op \in [Requests -> {"none", "settled"} \cup Queued] /\ active \in Nat
        /\ MaxConcurrency \in Nat
    BY BrowserAssumption, Zenon DEF Base, TypeOK
  <1>1. /\ IsFiniteSet(Holders) /\ IsFiniteSet(Woken)
        /\ Cardinality(Holders) \in Nat /\ Cardinality(Woken) \in Nat
        /\ active = Cardinality(Holders) /\ active <= MaxConcurrency
        /\ slotWaiters # <<>> => active + Cardinality(Woken) >= MaxConcurrency
    BY SizesAreNumbers, Zenon DEF SlotsAreCounted, NoLostWakeup, Holders, Woken
  <1>2. Woken' = Woken \ {r} \/ Woken' = Woken
    BY <1>0, Zenon DEF AcquireSlot, Woken
  <1>3. Cardinality(Woken') \in Nat /\ Cardinality(Woken') >= Cardinality(Woken) - 1
    <2>1. CASE Woken' = Woken
      BY <1>1, <2>1
    <2>2. CASE Woken' = Woken \ {r}
      <3>1. /\ IsFiniteSet(Woken \ {r})
            /\ Cardinality(Woken \ {r}) = IF r \in Woken THEN Cardinality(Woken) - 1 ELSE Cardinality(Woken)
        BY <1>1, FS_RemoveElement, Zenon
      <3>2. Cardinality(Woken \ {r}) \in Nat
        BY <3>1, FS_CardinalityType, Zenon
      <3> QED BY <1>1, <2>2, <3>1, <3>2
    <2> QED BY <1>2, <2>1, <2>2, Zenon
  <1>4. CASE active < MaxConcurrency /\ active' = active + 1 /\ slotWaiters' = slotWaiters
             /\ op' = [op EXCEPT ![r] = "acquired"]
    <2>1. Holders' = Holders \cup {r} /\ r \notin Holders
      BY <1>0, <1>4, Zenon DEF Holders, HasSlot
    <2>2. Cardinality(Holders') = Cardinality(Holders) + 1
      BY <1>1, <2>1, FS_AddElement, Zenon
    <2>3. active' = Cardinality(Holders') /\ active' <= MaxConcurrency
      BY <1>0, <1>1, <1>4, <2>2
    <2>4. slotWaiters' # <<>> => active' + Cardinality(Woken') >= MaxConcurrency
      BY <1>0, <1>1, <1>3, <1>4
    <2> QED BY <2>3, <2>4, Zenon DEF SlotsAreCounted, NoLostWakeup, Holders, Woken
  <1>5. CASE active >= MaxConcurrency /\ active' = active
             /\ \E place \in {"slot", "rejected"} : op' = [op EXCEPT ![r] = place]
    <2>1. Holders' = Holders
      BY <1>0, <1>5, Zenon DEF Holders, HasSlot
    <2>2. active' + Cardinality(Woken') >= MaxConcurrency
      BY <1>0, <1>3, <1>5
    <2> QED BY <1>1, <1>5, <2>1, <2>2, Zenon DEF SlotsAreCounted, NoLostWakeup, Holders, Woken
  <1> QED BY <1>4, <1>5, Zenon DEF AcquireSlot

\* What an operation that gives a slot back does to the counts.
LEMMA SlotsRelease ==
    ASSUME Base, SlotsAreCounted, NoLostWakeup, NEW r \in Requests, op[r] \in HasSlot, NEW outcome,
           Release(r, outcome)
    PROVE  SlotsAreCounted' /\ NoLostWakeup'
  <1>0. /\ op \in [Requests -> {"none", "settled"} \cup Queued] /\ active \in Nat
        /\ MaxConcurrency \in Nat /\ NoRequest \notin Requests /\ TypeOK /\ WaitersWait
    BY BrowserAssumption, Zenon DEF Base, TypeOK
  <1>1. /\ IsFiniteSet(Holders) /\ IsFiniteSet(Woken)
        /\ Cardinality(Holders) \in Nat /\ Cardinality(Woken) \in Nat
        /\ active = Cardinality(Holders) /\ active <= MaxConcurrency
        /\ slotWaiters # <<>> => active + Cardinality(Woken) >= MaxConcurrency
    BY SizesAreNumbers, Zenon DEF SlotsAreCounted, NoLostWakeup, Holders, Woken
  <1>2. PICK w \in Requests \cup {NoRequest} :
            /\ w # NoRequest => w \in Requests /\ op[w] = "slot"
            /\ slotWaiters = <<>> <=> w = NoRequest
            /\ slotWaiters' # <<>> => slotWaiters # <<>>
            /\ op' = [q \in Requests |-> IF q = r THEN "settled"
                                         ELSE IF q = w THEN "woken" ELSE op[q]]
    BY <1>0, ReleaseOps, Zenon
  <1>3. Holders' = Holders \ {r} /\ r \in Holders
    BY <1>0, <1>2, Zenon DEF Holders, HasSlot
  <1>4. Cardinality(Holders') = Cardinality(Holders) - 1 /\ Cardinality(Holders) # 0
    BY <1>1, <1>3, FS_RemoveElement, FS_EmptySet, Zenon
  <1>5. active' = active - 1
    BY <1>1, <1>4, Zenon DEF Release
  <1>6. slotWaiters' # <<>> => active' + Cardinality(Woken') >= MaxConcurrency
    <2> SUFFICES ASSUME slotWaiters' # <<>> PROVE active' + Cardinality(Woken') >= MaxConcurrency
      BY Zenon
    <2>1. w \in Requests /\ op[w] = "slot" /\ slotWaiters # <<>>
      BY <1>2, Zenon
    <2>2. Woken' = Woken \cup {w} /\ w \notin Woken
      BY <1>0, <1>2, <2>1, Zenon DEF Woken, HasSlot
    <2>3. Cardinality(Woken') = Cardinality(Woken) + 1
      BY <1>1, <2>2, FS_AddElement, Zenon
    <2> QED BY <1>0, <1>1, <1>5, <2>1, <2>3
  <1>7. active' = Cardinality(Holders') /\ active' <= MaxConcurrency
    BY <1>0, <1>1, <1>4, <1>5
  <1> QED BY <1>6, <1>7, Zenon DEF SlotsAreCounted, NoLostWakeup, Holders, Woken

\* The counts are inductive.
LEMMA SlotsStep ==
    Base /\ SlotsAreCounted /\ NoLostWakeup /\ [Next]_vars => SlotsAreCounted' /\ NoLostWakeup'
  <1> SUFFICES ASSUME Base, SlotsAreCounted, NoLostWakeup, [Next]_vars
               PROVE  SlotsAreCounted' /\ NoLostWakeup'
    BY Zenon
  <1>0. /\ op \in [Requests -> {"none", "settled"} \cup Queued] /\ TypeOK /\ WaitersWait
    BY Zenon DEF Base, TypeOK
  <1>1. ASSUME Holders' = Holders, Woken' = Woken, active' = active,
               slotWaiters' # <<>> => slotWaiters # <<>>
        PROVE  SlotsAreCounted' /\ NoLostWakeup'
    BY <1>1, Zenon DEF SlotsAreCounted, NoLostWakeup, Holders, Woken
  <1>2. ASSUME NEW r \in Requests, HandleUnkeyed(r) \/ HandleKeyed(r)
        PROVE  SlotsAreCounted' /\ NoLostWakeup'
    <2>1. op[r] = "none" /\ UNCHANGED <<slotWaiters, active>> /\ (op' = op \/ Enqueue(r))
      BY <1>2, HandleOps, Zenon
    <2>2. Holders' = Holders /\ Woken' = Woken
      BY <1>0, <2>1, Zenon DEF Holders, Woken, Enqueue, HasSlot
    <2> QED BY <1>1, <2>1, <2>2, Zenon
  <1>3. ASSUME NEW r \in Requests, TakeTurn(r) \/ Resume(r)
        PROVE  SlotsAreCounted' /\ NoLostWakeup'
    BY <1>3, SlotsAcquire, Zenon DEF TakeTurn, Resume
  <1>4. ASSUME NEW r \in Requests, Rejected(r) \/ Start(r)
        PROVE  SlotsAreCounted' /\ NoLostWakeup'
    <2>1. Holders' = Holders /\ Woken' = Woken
      BY <1>0, <1>4, Zenon DEF Holders, Woken, Rejected, Start, HasSlot
    <2> QED BY <1>1, <1>4, <2>1, Zenon DEF Rejected, Start
  <1>5. ASSUME NEW r \in Requests, NotStarted(r) \/ TaskEnds(r)
        PROVE  SlotsAreCounted' /\ NoLostWakeup'
    BY <1>5, EndingReleases, SlotsRelease, Zenon
  <1>6. ASSUME NEW r \in Requests, Disconnect(r) \/ OperationTimeout(r)
        PROVE  SlotsAreCounted' /\ NoLostWakeup'
    <2>1. PICK reason \in Refusals : Abort(r, reason)
      BY <1>6, Zenon DEF Disconnect, OperationTimeout, Refusals
    <2>2. Holders' = Holders /\ Woken' = Woken /\ active' = active
      BY <1>0, <2>1, Zenon DEF Holders, Woken, Abort, HasSlot
    <2> QED BY <1>0, <1>1, <2>1, <2>2, AbortWaiters, Zenon
  <1>7. CASE UNCHANGED queueVars
    BY <1>1, <1>7, Zenon DEF queueVars, Holders, Woken
  <1> QED BY <1>2, <1>3, <1>4, <1>5, <1>6, <1>7, Zenon DEF Next, Proceeds, Expire, vars
-----------------------------------------------------------------------------
(* Answers.                                                                *)

\* An operation that ends answers those who joined it with its result.
LEMMA AnswersSettle ==
    ASSUME Base, AnswersMatch, NEW r \in Requests, op[r] \in Queued,
           NEW outcome \in Outcomes, outcome = "ok" => op[r] = "running",
           Settle(r, outcome), joined' = joined, ran' = ran, QueueOnly,
           \A q \in Requests : op'[q] = "running" => op[q] = "running"
    PROVE  AnswersMatch'
  <1>0. /\ result \in [Requests -> {"none"} \cup Outcomes]
        /\ answer \in [Requests -> {"none", "waiting"} \cup Outcomes \cup Refusals]
    BY Zenon DEF Base, TypeOK
  <1>1. result[r] = "none"
    BY Zenon DEF Base, SettledHasResult, Queued, HasTab
  <1>2. /\ result' = [result EXCEPT ![r] = outcome]
        /\ \A q \in Requests : answer'[q] = IF joined[q] = r /\ answer[q] = "waiting"
                                            THEN outcome ELSE answer[q]
    BY Zenon DEF Settle
  <1> SUFFICES ASSUME NEW q \in Requests
               PROVE  /\ answer'[q] \in {"waiting"} \cup Outcomes =>
                          /\ joined[q] \in Requests
                          /\ KeyOf[joined[q]] = KeyOf[q] /\ FingerprintOf[joined[q]] = FingerprintOf[q]
                      /\ answer'[q] \in Outcomes => answer'[q] = result'[joined[q]]
                      /\ answer'[q] \in {"conflict", "limit"} => op'[q] = "none"
                      /\ op'[q] = "running" \/ result'[q] = "ok" => q \in ran
    BY Zenon DEF AnswersMatch
  <1>3. answer'[q] \in {"waiting"} \cup Outcomes =>
            /\ joined[q] \in Requests
            /\ KeyOf[joined[q]] = KeyOf[q] /\ FingerprintOf[joined[q]] = FingerprintOf[q]
    BY <1>2, Zenon DEF AnswersMatch
  <1>4. answer'[q] \in Outcomes => answer'[q] = result'[joined[q]]
    <2>1. CASE joined[q] = r
      BY <1>0, <1>1, <1>2, <2>1 DEF AnswersMatch, Outcomes
    <2>2. CASE joined[q] # r
      <3>1. answer'[q] = answer[q]
        BY <1>2, <2>2, Zenon
      <3>2. answer[q] \in Outcomes => answer[q] = result[joined[q]]
        BY Zenon DEF AnswersMatch
      <3>3. joined[q] \in Requests => result'[joined[q]] = result[joined[q]]
        BY <1>0, <1>2, <2>2, Zenon
      <3> QED BY <1>3, <3>1, <3>2, <3>3, Zenon
    <2> QED BY <2>1, <2>2, Zenon
  <1>5. answer'[q] \in {"conflict", "limit"} => op'[q] = "none"
    BY <1>2, Zenon DEF AnswersMatch, QueueOnly, Outcomes
  <1>6. op'[q] = "running" \/ result'[q] = "ok" => q \in ran
    BY <1>0, <1>2, Zenon DEF AnswersMatch
  <1> QED BY <1>3, <1>4, <1>5, <1>6, Zenon

\* A handled request joins an operation that does what it asks for, or is refused.
LEMMA AnswersHandle ==
    ASSUME Base, EntriesStand, AnswersMatch, NEW r \in Requests, HandleUnkeyed(r) \/ HandleKeyed(r)
    PROVE  AnswersMatch'
  <1>0. /\ result \in [Requests -> {"none"} \cup Outcomes]
        /\ answer \in [Requests -> {"none", "waiting"} \cup Outcomes \cup Refusals]
        /\ joined \in [Requests -> Requests \cup {NoRequest}]
        /\ op \in [Requests -> {"none", "settled"} \cup Queued]
        /\ entry \in [Keys -> Requests \cup {NoRequest}]
        /\ KeyOf \in [Requests -> Keys \cup {NoKey}]
    BY BrowserAssumption, Zenon DEF Base, TypeOK
  <1>1. /\ op[r] = "none" /\ result' = result /\ ran' = ran /\ (op' = op \/ Enqueue(r))
    BY HandleOps, Zenon
  <1>2. /\ \A q \in Requests \ {r} : op'[q] = op[q]
        /\ op'[r] # "running" /\ op'[r] # "settled"
    BY <1>0, <1>1, Zenon DEF Enqueue
  <1>3. CASE \E refusal \in {"conflict", "limit"} : Refuse(r, refusal) /\ op' = op
    BY <1>0, <1>1, <1>3 DEF AnswersMatch, Refuse, Outcomes
  <1>4. ASSUME NEW owner \in Requests, Join(r, owner), KeyOf[owner] = KeyOf[r],
               FingerprintOf[owner] = FingerprintOf[r]
        PROVE  AnswersMatch'
    <2>1. /\ joined' = [joined EXCEPT ![r] = owner]
          /\ answer' = [answer EXCEPT ![r] = IF op[owner] = "settled" THEN result[owner] ELSE "waiting"]
      BY <1>4, Zenon DEF Join
    <2>2. op[owner] = "settled" => result[owner] \in Outcomes
      BY <1>0, Zenon DEF Base, SettledHasResult
    <2> QED BY <1>0, <1>1, <1>2, <1>4, <2>1, <2>2 DEF AnswersMatch, Outcomes
  <1>5. CASE HandleUnkeyed(r)
    BY <1>4, <1>5, Zenon DEF HandleUnkeyed
  <1>6. CASE HandleKeyed(r)
    <2> DEFINE existing == Pruned[KeyOf[r]]
    <2>1. KeyOf[r] \in Keys
      BY <1>0, <1>6, Zenon DEF HandleKeyed
    <2>2. existing # NoRequest => existing \in Requests /\ KeyOf[existing] = KeyOf[r]
      BY <1>0, <2>1 DEF Pruned, EntriesStand
    <2>3. \/ Refuse(r, "conflict") \/ Refuse(r, "limit") \/ Join(r, r)
          \/ existing # NoRequest /\ Join(r, existing) /\ FingerprintOf[existing] = FingerprintOf[r]
      BY <1>6, Zenon DEF HandleKeyed, SameFingerprint
    <2> HIDE DEF existing
    <2>4. ASSUME NEW refusal, Refuse(r, refusal) PROVE op' = op
      BY <2>4, Zenon DEF Refuse
    <2> QED BY <1>3, <1>4, <2>2, <2>3, <2>4, Zenon
  <1> QED BY <1>5, <1>6, Zenon

\* AnswersMatch is inductive.
LEMMA AnswersStep == Base /\ EntriesStand /\ AnswersMatch /\ [Next]_vars => AnswersMatch'
  <1> SUFFICES ASSUME Base, EntriesStand, AnswersMatch, [Next]_vars PROVE AnswersMatch'
    BY Zenon
  <1>0. /\ op \in [Requests -> {"none", "settled"} \cup Queued] /\ TypeOK /\ WaitersWait
        /\ answer \in [Requests -> {"none", "waiting"} \cup Outcomes \cup Refusals]
    BY Zenon DEF Base, TypeOK
  <1>1. CASE Handles
    BY <1>1, AnswersHandle, Zenon DEF Handles
  <1> SUFFICES ASSUME QueueOnly PROVE AnswersMatch'
    BY <1>1, QueueOnlySteps, Zenon
  <1>2. ASSUME UNCHANGED <<answer, joined, result, ran>>,
               \A q \in Requests : op'[q] = "running" => op[q] = "running"
        PROVE  AnswersMatch'
    BY <1>2, Zenon DEF AnswersMatch, QueueOnly
  <1>3. ASSUME NEW r \in Requests, TakeTurn(r) \/ Resume(r) PROVE AnswersMatch'
    <2>1. PICK place \in {"acquired", "slot", "rejected"} : op' = [op EXCEPT ![r] = place]
      BY <1>0, <1>3, AcquireOps, Zenon DEF TakeTurn, Resume
    <2>2. \A q \in Requests : op'[q] = "running" => op[q] = "running"
      BY <1>0, <2>1, Zenon
    <2> QED BY <1>2, <1>3, <2>2, Zenon DEF TakeTurn, Resume
  <1>4. ASSUME NEW r \in Requests, Rejected(r) PROVE AnswersMatch'
    <2>1. \A q \in Requests : op'[q] = "running" => op[q] = "running"
      BY <1>0, <1>4, Zenon DEF Rejected
    <2>2. op[r] \in Queued /\ Settle(r, "cancelled") /\ joined' = joined /\ ran' = ran
      BY <1>4, Zenon DEF Rejected, Queued
    <2> QED BY <2>1, <2>2, AnswersSettle, Zenon DEF Outcomes
  <1>5. ASSUME NEW r \in Requests, Start(r) PROVE AnswersMatch'
    <2>1. UNCHANGED <<answer, joined, result>> /\ r \in ran' /\ ran \subseteq ran'
      BY <1>5, Zenon DEF Start
    <2>2. \A q \in Requests : op'[q] = "running" => q = r \/ op[q] = "running"
      BY <1>0, <1>5, Zenon DEF Start
    <2>3. \A q \in Requests : op[q] = "none" => op'[q] = "none"
      BY Zenon DEF QueueOnly
    <2> QED BY <2>1, <2>2, <2>3, Zenon DEF AnswersMatch
  <1>6. ASSUME NEW r \in Requests, NotStarted(r) \/ TaskEnds(r) PROVE AnswersMatch'
    <2>1. PICK outcome \in Outcomes : Release(r, outcome) /\ (outcome = "ok" => op[r] = "running")
      BY <1>6, EndingReleases, Zenon
    <2>2. op[r] \in HasSlot /\ op[r] \in Queued /\ ran' = ran
      BY <1>6, EndingReleases, Zenon DEF Queued, HasTab, HasSlot
    <2>3. PICK w \in Requests \cup {NoRequest} :
              op' = [q \in Requests |-> IF q = r THEN "settled"
                                       ELSE IF q = w THEN "woken" ELSE op[q]]
      BY <1>0, <2>1, <2>2, ReleaseOps
    <2>4. \A q \in Requests : op'[q] = "running" => op[q] = "running"
      BY <2>3, Zenon
    <2> QED BY <2>1, <2>2, <2>4, AnswersSettle, Zenon DEF Release
  <1>7. ASSUME NEW r \in Requests, Disconnect(r) \/ OperationTimeout(r) PROVE AnswersMatch'
    <2>1. PICK reason \in {"disconnected", "timeout"} : Abort(r, reason)
      BY <1>7, Zenon DEF Disconnect, OperationTimeout
    <2>2. \A q \in Requests : op'[q] = "running" => op[q] = "running"
      BY <1>0, <2>1, Zenon DEF Abort
    <2>3. UNCHANGED <<joined, result, ran>>
          /\ \A q \in Requests : answer'[q] = answer[q] \/ answer'[q] = reason
      BY <1>0, <2>1, Zenon DEF Abort
    <2>4. \A q \in Requests : op[q] = "none" => op'[q] = "none"
      BY Zenon DEF QueueOnly
    <2>5. ASSUME NEW q \in Requests, answer'[q] \in {"waiting", "conflict", "limit"} \cup Outcomes
          PROVE  answer'[q] = answer[q]
      BY <2>3, <2>5, Zenon DEF Outcomes
    <2> QED BY <2>2, <2>3, <2>4, <2>5, Zenon DEF AnswersMatch
  <1>8. CASE (\E k \in Keys : Expire(k)) \/ UNCHANGED vars
    BY <1>2, <1>8, Zenon DEF Expire, vars, queueVars
  <1> QED BY <1>1, <1>3, <1>4, <1>5, <1>6, <1>7, <1>8, Zenon DEF Next, Proceeds, Handles
-----------------------------------------------------------------------------
(* The theorems.                                                           *)

\* The inductive invariant.
QueueInv ==
    /\ Base /\ TurnsAreOrdered /\ EntriesStand /\ RunsAreRemembered
    /\ SlotsAreCounted /\ NoLostWakeup /\ AnswersMatch

\* Before the first request the registry and the queue are empty.
LEMMA InitQueueInv == Init => QueueInv
  <1> SUFFICES ASSUME Init PROVE QueueInv
    BY Zenon
  <1>1. Base
    BY DEF Init, Base, TypeOK, WaitersWait, UnhandledHasNone, SettledHasResult
  <1>2. TurnsAreOrdered
    BY Zenon DEF Init, TurnsAreOrdered, HasTab, Queued
  <1>3. EntriesStand
    BY Zenon DEF Init, EntriesStand, HasTab, Queued
  <1>4. RunsAreRemembered
    <2>1. \A k \in Keys : {r \in ran : KeyOf[r] = k} = {} /\ forgotten[k] = 0 /\ entry[k] \notin ran
      BY Zenon DEF Init
    <2> QED BY <2>1, FS_EmptySet DEF Init, RunsAreRemembered
  <1>5. SlotsAreCounted /\ NoLostWakeup
    <2>1. {r \in Requests : op[r] \in HasSlot} = {}
      BY Zenon DEF Init, HasSlot
    <2>2. active = 0 /\ slotWaiters = <<>> /\ 0 <= MaxConcurrency
      BY BrowserAssumption DEF Init
    <2>3. SlotsAreCounted
      BY <2>1, <2>2, FS_EmptySet, Zenon DEF SlotsAreCounted
    <2>4. NoLostWakeup
      BY <2>2, Zenon DEF NoLostWakeup
    <2> QED BY <2>3, <2>4, Zenon
  <1>6. AnswersMatch
    BY Zenon DEF Init, AnswersMatch, Outcomes
  <1> QED BY <1>1, <1>2, <1>3, <1>4, <1>5, <1>6, Zenon DEF QueueInv

\* However requests arrive, are retried, disconnect and time out, the invariant holds.
THEOREM QueueInvHolds == Spec => []QueueInv
  <1>1. QueueInv /\ [Next]_vars => QueueInv'
    BY BaseStep, TurnsStep, EntriesStep, RunsStep, SlotsStep, AnswersStep, Zenon DEF QueueInv
  <1> QED BY <1>1, InitQueueInv, PTL DEF Spec

\* The operation queue serializes each tab: of two operations past waitForTurn for one tab,
\* the later was queued behind the earlier, which would have to be settled.
THEOREM OneOperationPerTabHolds == Spec => []OneOperationPerTab
  <1>1. QueueInv => OneOperationPerTab
    <2> SUFFICES ASSUME QueueInv, NEW r \in Requests, NEW q \in Requests, r # q,
                        TabOf[r] = TabOf[q], op[r] \in HasTab, op[q] \in HasTab
                 PROVE  FALSE
      BY Zenon DEF OneOperationPerTab
    <2>1. r \in before[q] \/ q \in before[r]
      BY Zenon DEF QueueInv, TurnsAreOrdered, Queued
    <2>2. TurnHasCome(r) /\ TurnHasCome(q)
      BY Zenon DEF QueueInv, TurnsAreOrdered
    <2>3. op[r] = "settled" \/ op[q] = "settled"
      BY <2>1, <2>2, Zenon DEF TurnHasCome
    <2> QED BY <2>3, Zenon DEF HasTab
  <1> QED BY <1>1, QueueInvHolds, PTL

\* active is the number of operations that hold a slot and never passes maxConcurrency.
THEOREM SlotsAreCountedHolds == Spec => []SlotsAreCounted
  BY QueueInvHolds, PTL DEF QueueInv

\* While an operation waits for a slot, every free slot has an operation woken for it.
THEOREM NoLostWakeupHolds == Spec => []NoLostWakeup
  BY QueueInvHolds, PTL DEF QueueInv

\* The registry never lets a mutation be under way twice under one key.
THEOREM OneOperationPerKeyHolds == Spec => []OneOperationPerKey
  <1>1. QueueInv => OneOperationPerKey
    BY Zenon DEF QueueInv, EntriesStand, OneOperationPerKey
  <1> QED BY <1>1, QueueInvHolds, PTL

\* A mutation is carried out at most once more than its entry was forgotten.
THEOREM CarriedOutOnceHolds == Spec => []CarriedOutOnce
  <1>1. QueueInv => CarriedOutOnce
    <2> SUFFICES ASSUME QueueInv, NEW k \in Keys
                 PROVE  Cardinality({r \in ran : KeyOf[r] = k}) <= forgotten[k] + 1
      BY Zenon DEF CarriedOutOnce
    <2> DEFINE runs == {r \in ran : KeyOf[r] = k}
    <2>1. runs \subseteq Requests /\ IsFiniteSet(Requests) /\ forgotten[k] \in Nat
      BY BrowserAssumption, Zenon DEF QueueInv, Base, TypeOK
    <2>2. Cardinality(runs) \in Nat
      BY <2>1, FS_Subset, FS_CardinalityType, Zenon
    <2>3. Cardinality(runs) <= forgotten[k] + IF entry[k] \in ran THEN 1 ELSE 0
      BY Zenon DEF QueueInv, RunsAreRemembered
    <2> HIDE DEF runs
    <2>4. Cardinality(runs) <= forgotten[k] + 1
      BY <2>1, <2>2, <2>3
    <2> QED BY <2>4, Zenon DEF runs
  <1> QED BY <1>1, QueueInvHolds, PTL

\* "ok" is told only of an operation that was carried out for the same key and fingerprint;
\* a request refused with a conflict or at the limit was not carried out.
THEOREM AnswersAreTrueHolds == Spec => []AnswersAreTrue
  <1>1. QueueInv => AnswersAreTrue
    <2> SUFFICES ASSUME QueueInv, NEW r \in Requests
                 PROVE  /\ answer[r] = "ok" => \E q \in ran : /\ FingerprintOf[q] = FingerprintOf[r]
                                                             /\ KeyOf[q] = KeyOf[r] /\ result[q] = "ok"
                        /\ answer[r] \in {"conflict", "limit"} => r \notin ran
      BY Zenon DEF AnswersAreTrue
    <2>1. answer[r] = "ok" => /\ joined[r] \in ran /\ FingerprintOf[joined[r]] = FingerprintOf[r]
                              /\ KeyOf[joined[r]] = KeyOf[r] /\ result[joined[r]] = "ok"
      BY Zenon DEF QueueInv, AnswersMatch, Outcomes
    <2>2. answer[r] \in {"conflict", "limit"} => r \notin ran
      BY Zenon DEF QueueInv, AnswersMatch, RunsAreRemembered
    <2> QED BY <2>1, <2>2, Zenon
  <1> QED BY <1>1, QueueInvHolds, PTL
=============================================================================
