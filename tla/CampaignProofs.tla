--------------------------- MODULE CampaignProofs ---------------------------
(***************************************************************************)
(* Proofs about RunLease and Campaign, for any tasks, dependencies and     *)
(* resources and any number of processes.  The lease first, then the       *)
(* campaign, which takes only steps of its lease, implements               *)
(* CampaignPromise, and has one effect on a resource under way at a time.  *)
(*                                                                         *)
(* The lease keeps two runners apart in the behaviours in which whoever    *)
(* recovers a lock removes the file it read (RecoversWhatItRead): that is  *)
(* a hypothesis of the theorems, for the code does not see to it when      *)
(* three runners meet.  Of two runners it is proved.                       *)
(***************************************************************************)
EXTENDS Campaign, TLAPS
-----------------------------------------------------------------------------
(* The run lease.                                                          *)

\* Who takes, has or gives back the lock has its file in place.
HoldersHaveLock == \A r \in Runners : at[r] \in Holding \cup Writing => lock = r

\* The recovery guard admits one recoverer, and what it has read, when it is about to remove
\* the file, is a dead runner's.
RecoveryIsGuarded ==
    \A r \in Runners :
        /\ at[r] \in Guarding => guard = r
        /\ at[r] \in {"probing", "clearing"} => seen \in Runners
        /\ at[r] = "clearing" => ~ Alive(seen)

\* Only the runners of live processes are anywhere, and only a task has a heartbeat.
DeadAreGone ==
    \A r \in Runners :
        /\ Alive(r) <=> at[r] # "gone"
        /\ beat[r] = "renewing" => at[r] \in {"task", "ending"}

\* The inductive invariant.
LeaseInv == LeaseTypeOK /\ HoldersHaveLock /\ RecoveryIsGuarded /\ DeadAreGone

USE LeaseAssumption

\* At first nobody has the lock.
LEMMA InitLeaseInv == LeaseInit => LeaseInv
  BY Zenon DEF LeaseInit, LeaseInv, LeaseTypeOK, HoldersHaveLock, RecoveryIsGuarded, DeadAreGone, Alive,
         Holding, Writing, Guarding, Places

\* Every step of a runner keeps the variables in their types.
LEMMA TypeStep ==
    ASSUME LeaseTypeOK, [LeaseNext]_leaseVars
    PROVE  LeaseTypeOK'
  <1> USE DEF LeaseTypeOK, Places, Holding, Writing, Guarding
  <1>1. ASSUME NEW r \in Runners, PutNew(r) \/ WriteLease(r) \/ WriteFails(r) \/ OpenGuard(r)
        PROVE  LeaseTypeOK'
    BY <1>1, Zenon DEF PutNew, WriteLease, WriteFails, OpenGuard, CreateFor, Move
  <1>2. ASSUME NEW r \in Runners, InspectLease(r) \/ ProbeOwner(r) \/ ClearLease(r)
        PROVE  LeaseTypeOK'
    BY <1>2, Zenon DEF InspectLease, ProbeOwner, ClearLease, Move
  <1>3. ASSUME NEW r \in Runners, ReplaceLease(r) \/ DropGuard(r) \/ GuardStays(r)
        PROVE  LeaseTypeOK'
    BY <1>3, Zenon DEF ReplaceLease, DropGuard, GuardStays, CreateFor, Move
  <1>4. ASSUME NEW r \in Runners, RenewReads(r) \/ RenewWrites(r)
        PROVE  LeaseTypeOK'
    BY <1>4, Zenon DEF RenewReads, RenewWrites
  <1>5. ASSUME NEW r \in Runners, EndTask(r) \/ ReadBack(r) \/ Unlink(r) \/ UnlinkFails(r)
        PROVE  LeaseTypeOK'
    BY <1>5, Zenon DEF EndTask, ReadBack, Unlink, UnlinkFails, Move
  <1>6. ASSUME Expire
        PROVE  LeaseTypeOK'
    BY <1>6, Zenon DEF Expire
  <1>7. ASSUME NEW p \in Processes, Die(p)
        PROVE  LeaseTypeOK'
    BY <1>7, Zenon DEF Die
  <1>8. ASSUME UNCHANGED leaseVars
        PROVE  LeaseTypeOK'
    BY <1>8, Zenon DEF leaseVars
  <1> QED BY <1>1, <1>2, <1>3, <1>4, <1>5, <1>6, <1>7, <1>8, Zenon DEF LeaseNext, LeaseStep

\* Every step keeps the rest of the invariant.
LEMMA InvStep ==
    ASSUME LeaseInv, RecoversWhatItRead, [LeaseNext]_leaseVars
    PROVE  HoldersHaveLock' /\ RecoveryIsGuarded' /\ DeadAreGone'
  <1> USE DEF LeaseInv, LeaseTypeOK, Places, Holding, Writing, Guarding, Move, Alive
  <1>1. ASSUME NEW r \in Runners, PutNew(r)
        PROVE  HoldersHaveLock' /\ RecoveryIsGuarded' /\ DeadAreGone'
    <2>1. HoldersHaveLock'
      BY <1>1 DEF PutNew, CreateFor, HoldersHaveLock
    <2>2. RecoveryIsGuarded'
      BY <1>1 DEF PutNew, CreateFor, RecoveryIsGuarded
    <2>3. DeadAreGone'
      BY <1>1 DEF PutNew, DeadAreGone
    <2> QED BY <2>1, <2>2, <2>3, Zenon
  <1>2. ASSUME NEW r \in Runners, WriteLease(r)
        PROVE  HoldersHaveLock' /\ RecoveryIsGuarded' /\ DeadAreGone'
    BY <1>2 DEF WriteLease, HoldersHaveLock, RecoveryIsGuarded, DeadAreGone
  <1>3. ASSUME NEW r \in Runners, WriteFails(r)
         PROVE  HoldersHaveLock' /\ RecoveryIsGuarded' /\ DeadAreGone'
    BY <1>3 DEF WriteFails, HoldersHaveLock, RecoveryIsGuarded, DeadAreGone
  <1>4. ASSUME NEW r \in Runners, OpenGuard(r)
        PROVE  HoldersHaveLock' /\ RecoveryIsGuarded' /\ DeadAreGone'
    BY <1>4 DEF OpenGuard, HoldersHaveLock, RecoveryIsGuarded, DeadAreGone
  <1>5. ASSUME NEW r \in Runners, InspectLease(r)
        PROVE  HoldersHaveLock' /\ RecoveryIsGuarded' /\ DeadAreGone'
    BY <1>5 DEF InspectLease, HoldersHaveLock, RecoveryIsGuarded, DeadAreGone
  <1>6. ASSUME NEW r \in Runners, ProbeOwner(r)
        PROVE  HoldersHaveLock' /\ RecoveryIsGuarded' /\ DeadAreGone'
    BY <1>6 DEF ProbeOwner, OwnerExited, HoldersHaveLock, RecoveryIsGuarded, DeadAreGone
  <1>7. ASSUME NEW r \in Runners, ClearLease(r)
        PROVE  HoldersHaveLock' /\ RecoveryIsGuarded' /\ DeadAreGone'
    <2>1. at[r] = "clearing" /\ seen \in Runners /\ at[seen] = "gone" /\ lock \in {seen, Absent}
      BY <1>7, Zenon DEF ClearLease, RecoveryIsGuarded, DeadAreGone, RecoversWhatItRead
    <2>2. \A s \in Runners : at[s] \notin Holding \cup Writing
      BY <2>1, Zenon DEF HoldersHaveLock
    <2>3. HoldersHaveLock'
      BY <1>7, <2>1, <2>2, Zenon DEF ClearLease, HoldersHaveLock
    <2>4. \A s \in Runners : at[s] \in Guarding => s = r
      BY <2>1, Zenon DEF RecoveryIsGuarded
    <2>5. RecoveryIsGuarded'
      BY <1>7, <2>1, <2>4, Zenon DEF ClearLease, RecoveryIsGuarded
    <2>6. DeadAreGone'
      BY <1>7, <2>1, Zenon DEF ClearLease, DeadAreGone
    <2> QED BY <2>3, <2>5, <2>6, Zenon
  <1>8. ASSUME NEW r \in Runners, ReplaceLease(r)
        PROVE  HoldersHaveLock' /\ RecoveryIsGuarded' /\ DeadAreGone'
    <2>1. HoldersHaveLock'
      BY <1>8 DEF ReplaceLease, CreateFor, HoldersHaveLock
    <2>2. RecoveryIsGuarded'
      BY <1>8 DEF ReplaceLease, CreateFor, RecoveryIsGuarded
    <2>3. DeadAreGone'
      BY <1>8 DEF ReplaceLease, DeadAreGone
    <2> QED BY <2>1, <2>2, <2>3, Zenon
  <1>9. ASSUME NEW r \in Runners, DropGuard(r)
        PROVE  HoldersHaveLock' /\ RecoveryIsGuarded' /\ DeadAreGone'
    BY <1>9 DEF DropGuard, HoldersHaveLock, RecoveryIsGuarded, DeadAreGone
  <1>10. ASSUME NEW r \in Runners, GuardStays(r)
         PROVE  HoldersHaveLock' /\ RecoveryIsGuarded' /\ DeadAreGone'
    BY <1>10 DEF GuardStays, HoldersHaveLock, RecoveryIsGuarded, DeadAreGone
  <1>11. ASSUME NEW r \in Runners, RenewReads(r)
        PROVE  HoldersHaveLock' /\ RecoveryIsGuarded' /\ DeadAreGone'
    BY <1>11, Zenon DEF RenewReads, HoldersHaveLock, RecoveryIsGuarded, DeadAreGone
  <1>12. ASSUME NEW r \in Runners, RenewWrites(r)
         PROVE  HoldersHaveLock' /\ RecoveryIsGuarded' /\ DeadAreGone'
    <2>1. lock = r /\ lock' = r
      BY <1>12, Zenon DEF RenewWrites, HoldersHaveLock, DeadAreGone
    <2> QED BY <1>12, <2>1, Zenon DEF RenewWrites, HoldersHaveLock, RecoveryIsGuarded, DeadAreGone
  <1>13. ASSUME NEW r \in Runners, EndTask(r)
         PROVE  HoldersHaveLock' /\ RecoveryIsGuarded' /\ DeadAreGone'
    BY <1>13 DEF EndTask, HoldersHaveLock, RecoveryIsGuarded, DeadAreGone
  <1>14. ASSUME NEW r \in Runners, ReadBack(r)
         PROVE  HoldersHaveLock' /\ RecoveryIsGuarded' /\ DeadAreGone'
    BY <1>14 DEF ReadBack, HoldersHaveLock, RecoveryIsGuarded, DeadAreGone
  <1>15. ASSUME NEW r \in Runners, Unlink(r)
         PROVE  HoldersHaveLock' /\ RecoveryIsGuarded' /\ DeadAreGone'
    <2>1. lock = r /\ at[r] = "unlinking"
      BY <1>15, Zenon DEF Unlink, HoldersHaveLock
    <2>2. HoldersHaveLock'
      BY <1>15, <2>1, Zenon DEF Unlink, HoldersHaveLock
    <2>3. RecoveryIsGuarded'
      BY <1>15, <2>1, Zenon DEF Unlink, RecoveryIsGuarded
    <2>4. DeadAreGone'
      BY <1>15, <2>1, Zenon DEF Unlink, DeadAreGone
    <2> QED BY <2>2, <2>3, <2>4, Zenon
  <1>16. ASSUME NEW r \in Runners, UnlinkFails(r)
         PROVE  HoldersHaveLock' /\ RecoveryIsGuarded' /\ DeadAreGone'
    BY <1>16 DEF UnlinkFails, HoldersHaveLock, RecoveryIsGuarded, DeadAreGone
  <1>17. ASSUME Expire
         PROVE  HoldersHaveLock' /\ RecoveryIsGuarded' /\ DeadAreGone'
    BY <1>17, Zenon DEF Expire, HoldersHaveLock, RecoveryIsGuarded, DeadAreGone
  <1>18. ASSUME NEW p \in Processes, Die(p)
         PROVE  HoldersHaveLock' /\ RecoveryIsGuarded' /\ DeadAreGone'
    BY <1>18, Zenon DEF Die, HoldersHaveLock, RecoveryIsGuarded, DeadAreGone
  <1>19. ASSUME UNCHANGED leaseVars
         PROVE  HoldersHaveLock' /\ RecoveryIsGuarded' /\ DeadAreGone'
    BY <1>19, Zenon DEF leaseVars, HoldersHaveLock, RecoveryIsGuarded, DeadAreGone
  <1> HIDE DEF LeaseInv, HoldersHaveLock, RecoveryIsGuarded, DeadAreGone
  <1> QED
    BY <1>1, <1>2, <1>3, <1>4, <1>5, <1>6, <1>7, <1>8, <1>9, <1>10, <1>11, <1>12, <1>13, <1>14,
       <1>15, <1>16, <1>17, <1>18, <1>19, Zenon DEF LeaseNext, LeaseStep

\* The invariant holds of the lease, however runners contend, fail and die, as long as a
\* recoverer removes the lock file it read.
THEOREM LeaseInvHolds == LeaseSpec /\ []RecoversWhatItRead => []LeaseInv
  <1>1. LeaseInv /\ RecoversWhatItRead /\ [LeaseNext]_leaseVars => LeaseInv'
    BY TypeStep, InvStep, Zenon DEF LeaseInv
  <1> QED BY <1>1, InitLeaseInv, PTL DEF LeaseSpec

\* The campaign runs under one runner at a time, as long as a recoverer removes the lock file
\* it read: two holders would both have the one file.
THEOREM OneRunAtATimeHolds == LeaseSpec /\ []RecoversWhatItRead => []OneRunAtATime
  <1>1. LeaseInv => OneRunAtATime
    BY Zenon DEF LeaseInv, HoldersHaveLock, OneRunAtATime
  <1> QED BY <1>1, LeaseInvHolds, PTL

\* What a step may do to a lock file: its owner removes it at the end, a recoverer removes
\* a dead owner's, and a heartbeat rewrites its own.
LEMMA TakeoverStep ==
    ASSUME LeaseInv, RecoversWhatItRead, LeaseNext, NEW r \in Runners, lock = r, lock' # r
    PROVE  at[r] = "unlinking" \/ ~ Alive(r)
  <1>1. ASSUME NEW s \in Runners, ClearLease(s)
        PROVE  at[r] = "unlinking" \/ ~ Alive(r)
    BY <1>1, Zenon DEF ClearLease, Move, LeaseInv, RecoveryIsGuarded, RecoversWhatItRead
  <1>2. ASSUME NEW s \in Runners, RenewWrites(s)
        PROVE  at[r] = "unlinking" \/ ~ Alive(r)
    BY <1>2, Zenon DEF RenewWrites, LeaseInv, HoldersHaveLock, DeadAreGone, Holding
  <1>3. ASSUME NEW s \in Runners, Unlink(s)
        PROVE  at[r] = "unlinking" \/ ~ Alive(r)
    BY <1>3, Zenon DEF Unlink, Move, LeaseInv, HoldersHaveLock, Holding
  <1>4. ASSUME NEW s \in Runners, PutNew(s) \/ ReplaceLease(s)
        PROVE  FALSE
    BY <1>4, Zenon DEF PutNew, ReplaceLease
  <1>5. ASSUME NEW s \in Runners, \/ WriteLease(s) \/ WriteFails(s) \/ OpenGuard(s) \/ InspectLease(s)
                                  \/ ProbeOwner(s) \/ DropGuard(s) \/ GuardStays(s) \/ RenewReads(s)
                                  \/ EndTask(s) \/ ReadBack(s) \/ UnlinkFails(s)
        PROVE  FALSE
    BY <1>5, Zenon DEF WriteLease, WriteFails, OpenGuard, InspectLease, ProbeOwner, DropGuard, GuardStays,
                RenewReads, EndTask, ReadBack, UnlinkFails
  <1>6. ASSUME Expire \/ \E p \in Processes : Die(p)
        PROVE  FALSE
    BY <1>6, Zenon DEF Expire, Die
  <1> QED BY <1>1, <1>2, <1>3, <1>4, <1>5, <1>6, Zenon DEF LeaseNext, LeaseStep

\* No lock is taken from a live owner, expired or not, as long as a recoverer removes the
\* lock file it read.
THEOREM TakeoverHolds == LeaseSpec /\ []RecoversWhatItRead => OnlyDeadOwnersAreReplaced
  <1>1. LeaseInv /\ RecoversWhatItRead /\ [LeaseNext]_leaseVars =>
            [\A r \in Runners : lock = r /\ lock' # r => at[r] = "unlinking" \/ ~ Alive(r)]_leaseVars
    BY TakeoverStep, Zenon
  <1> QED BY <1>1, LeaseInvHolds, PTL DEF LeaseSpec, OnlyDeadOwnersAreReplaced

\* Who is inside is whose task runs.
LEMMA InsideIs ==
    ASSUME LeaseInv
    PROVE  /\ \A r \in Runners : at[r] = "task" => Inside = r
           /\ (\A r \in Runners : at[r] # "task") => Inside = Absent
  <1>1. \A r, s \in Runners : at[r] = "task" /\ at[s] = "task" => r = s
    BY Zenon DEF LeaseInv, HoldersHaveLock, Holding
  <1> QED BY <1>1, Zenon DEF Inside

\* One step of the lease is a step of the abstract lock, or leaves who is inside.
LEMMA ExclusiveStep ==
    ASSUME LeaseInv, LeaseInv', [LeaseNext]_leaseVars
    PROVE  [Exclusive!Next]_Inside
  <1> USE DEF LeaseInv, LeaseTypeOK, Move
  <1> DEFINE In(r) == at[r] = "task"
  <1>1. /\ \A r \in Runners : In(r) => Inside = r
        /\ (\A r \in Runners : ~ In(r)) => Inside = Absent
    BY InsideIs, Zenon
  <1>2. /\ \A r \in Runners : In(r)' => Inside' = r
        /\ (\A r \in Runners : ~ In(r)') => Inside' = Absent
    <2>1. \A r, s \in Runners : In(r)' /\ In(s)' => r = s
      BY Zenon DEF HoldersHaveLock, Holding
    <2> QED BY <2>1, Zenon DEF Inside
  <1>3. ASSUME NEW r \in Runners, WriteLease(r) \/ DropGuard(r), at'[r] = "task"
        PROVE  Exclusive!Enter(r)
    <2>1. lock = r /\ at[r] # "task"
      BY <1>3, Zenon DEF WriteLease, DropGuard, HoldersHaveLock, Holding, Writing
    <2>2. \A s \in Runners : ~ In(s)
      BY <2>1, Zenon DEF HoldersHaveLock, Holding
    <2> QED BY <1>1, <1>2, <1>3, <2>2, Zenon DEF Exclusive!Enter
  <1>4. ASSUME NEW r \in Runners, EndTask(r)
        PROVE  Exclusive!Leave
    <2>1. In(r) /\ \A s \in Runners : ~ In(s)'
      BY <1>4, Zenon DEF EndTask, HoldersHaveLock, Holding
    <2>2. r # Absent
      BY Zenon
    <2> QED BY <1>1, <1>2, <2>1, <2>2, Zenon DEF Exclusive!Leave
  <1>5. ASSUME NEW p \in Processes, Die(p)
        PROVE  Exclusive!Leave \/ UNCHANGED Inside
    <2>1. CASE \E r \in Runners : In(r) /\ In(r)'
      BY <1>1, <1>2, <2>1, Zenon
    <2>2. CASE \E r \in Runners : In(r) /\ ~ In(r)'
      <3>1. PICK r \in Runners : In(r) /\ ~ In(r)'
        BY <2>2, Zenon
      <3>2. \A s \in Runners : In(s) => s = r
        BY <3>1, Zenon DEF HoldersHaveLock, Holding
      <3>3. \A s \in Runners : ~ In(s)'
        BY <1>5, <3>1, <3>2, Zenon DEF Die
      <3> QED BY <1>1, <1>2, <3>1, <3>3, Zenon DEF Exclusive!Leave
    <2>3. CASE \A r \in Runners : ~ In(r)
      <3>1. \A s \in Runners : ~ In(s)'
        BY <1>5, <2>3, Zenon DEF Die
      <3> QED BY <1>1, <1>2, <2>3, <3>1, Zenon
    <2> QED BY <2>1, <2>2, <2>3, Zenon
  <1>6. ASSUME \A r \in Runners : In(r)' <=> In(r)
        PROVE  UNCHANGED Inside
    BY <1>1, <1>2, <1>6
  <1>7. ASSUME NEW r \in Runners, \/ PutNew(r) \/ OpenGuard(r) \/ InspectLease(r) \/ ProbeOwner(r)
                                  \/ ClearLease(r) \/ ReplaceLease(r) \/ ReadBack(r) \/ Unlink(r)
                                  \/ WriteFails(r) \/ GuardStays(r) \/ UnlinkFails(r)
        PROVE  \A s \in Runners : In(s)' <=> In(s)
    BY <1>7 DEF PutNew, OpenGuard, InspectLease, ProbeOwner, ClearLease, ReplaceLease, ReadBack, Unlink,
                WriteFails, GuardStays, UnlinkFails
  <1>8. ASSUME NEW r \in Runners, WriteLease(r) \/ DropGuard(r), at'[r] # "task"
        PROVE  \A s \in Runners : In(s)' <=> In(s)
    BY <1>8, Zenon DEF WriteLease, DropGuard
  <1>9. ASSUME \/ \E r \in Runners : RenewReads(r) \/ RenewWrites(r)
               \/ Expire \/ UNCHANGED leaseVars
        PROVE  \A s \in Runners : In(s)' <=> In(s)
    BY <1>9, Zenon DEF RenewReads, RenewWrites, Expire, leaseVars
  <1> HIDE DEF LeaseInv, In
  <1> QED
    BY <1>3, <1>4, <1>5, <1>6, <1>7, <1>8, <1>9, Zenon DEF LeaseNext, LeaseStep, Exclusive!Next

\* The lease implements the abstract lock of ExclusiveRun, as long as a recoverer removes the
\* lock file it read.
THEOREM LeaseImplementsLock == LeaseSpec /\ []RecoversWhatItRead => Exclusive!Spec
  <1>1. LeaseInit => Exclusive!Init
    BY Zenon DEF LeaseInit, Exclusive!Init, Inside
  <1>2. LeaseInv /\ LeaseInv' /\ [LeaseNext]_leaseVars => [Exclusive!Next]_Inside
    BY ExclusiveStep, Zenon
  <1> QED BY <1>1, <1>2, LeaseInvHolds, PTL DEF LeaseSpec, Exclusive!Spec
-----------------------------------------------------------------------------
(* Two runners: the hypothesis RecoversWhatItRead holds of them, so that   *)
(* they need none.                                                         *)

\* There are no three runners.
AtMostTwo == \A r, s, u \in Runners : r = s \/ r = u \/ s = u

\* Who recovers another's lock has none in place itself.
RecoversAnothers ==
    \A r \in Runners : at[r] \in {"probing", "clearing"} /\ lock = r => seen = r

\* Whose file a step may put in place: that of a live runner that is not recovering.
LEMMA NewLock ==
    ASSUME LeaseInv, [LeaseNext]_leaseVars, lock' # lock, lock' # Absent
    PROVE  \E s \in Runners : /\ lock' = s /\ Alive(s) /\ UNCHANGED seen
                              /\ at[s] \notin {"probing", "clearing"}
                              /\ \A r \in Runners : at'[r] \in {"probing", "clearing"} => at'[r] = at[r]
  <1> USE DEF LeaseInv, LeaseTypeOK, Move
  <1>1. ASSUME NEW s \in Runners, PutNew(s) \/ ReplaceLease(s)
        PROVE  /\ lock' = s /\ Alive(s) /\ UNCHANGED seen /\ at[s] \notin {"probing", "clearing"}
               /\ \A r \in Runners : at'[r] \in {"probing", "clearing"} => at'[r] = at[r]
    BY <1>1 DEF PutNew, ReplaceLease, CreateFor
  <1>2. ASSUME NEW s \in Runners, RenewWrites(s)
        PROVE  /\ lock' = s /\ Alive(s) /\ UNCHANGED seen /\ at[s] \notin {"probing", "clearing"}
               /\ \A r \in Runners : at'[r] \in {"probing", "clearing"} => at'[r] = at[r]
    BY <1>2, Zenon DEF RenewWrites, DeadAreGone
  <1>3. ASSUME NEW s \in Runners, ClearLease(s) \/ Unlink(s)
        PROVE  FALSE
    BY <1>3, Zenon DEF ClearLease, Unlink
  <1>4. ASSUME NEW s \in Runners,
               \/ WriteLease(s) \/ WriteFails(s) \/ OpenGuard(s) \/ InspectLease(s)
               \/ ProbeOwner(s) \/ DropGuard(s) \/ GuardStays(s) \/ RenewReads(s)
               \/ EndTask(s) \/ ReadBack(s) \/ UnlinkFails(s)
        PROVE  FALSE
    BY <1>4, Zenon DEF WriteLease, WriteFails, OpenGuard, InspectLease, ProbeOwner, DropGuard, GuardStays,
                RenewReads, EndTask, ReadBack, UnlinkFails
  <1>5. ASSUME Expire \/ (\E p \in Processes : Die(p)) \/ UNCHANGED leaseVars
        PROVE  FALSE
    BY <1>5, Zenon DEF Expire, Die, leaseVars
  <1> QED BY <1>1, <1>2, <1>3, <1>4, <1>5, Zenon DEF LeaseNext, LeaseStep

\* What a step does to a recovery while the file stays or goes: nothing new comes between
\* the read and the removal.
LEMMA OldLock ==
    ASSUME LeaseInv, [LeaseNext]_leaseVars, lock' = lock \/ lock' = Absent,
           NEW r \in Runners, at'[r] \in {"probing", "clearing"}
    PROVE  \/ seen' = lock /\ lock' = lock
           \/ seen' = seen /\ at[r] = at'[r]
           \/ seen' = seen /\ at[r] = "probing" /\ ~ Alive(seen) /\ Alive(r) /\ seen \in Runners
  <1> USE DEF LeaseInv, LeaseTypeOK, Move
  <1>1. ASSUME NEW s \in Runners, InspectLease(s)
        PROVE  (seen' = lock /\ lock' = lock) \/ (seen' = seen /\ at[r] = at'[r])
    BY <1>1 DEF InspectLease
  <1>2. ASSUME NEW s \in Runners, ProbeOwner(s)
        PROVE  \/ seen' = seen /\ at[r] = at'[r]
               \/ seen' = seen /\ at[r] = "probing" /\ ~ Alive(seen) /\ Alive(r) /\ seen \in Runners
    <2>1. at[s] = "probing" /\ guard = s /\ Alive(s) /\ seen \in Runners
      BY <1>2, Zenon DEF ProbeOwner, RecoveryIsGuarded, Guarding
    <2>2. CASE r = s
      BY <1>2, <2>1, <2>2, Zenon DEF ProbeOwner, OwnerExited, Alive
    <2>3. CASE r # s
      <3>1. at[r] = at'[r]
        BY <1>2, <2>3, Zenon DEF ProbeOwner
      <3> QED BY <2>1, <2>3, <3>1, Zenon DEF RecoveryIsGuarded, Guarding
    <2> QED BY <2>2, <2>3, Zenon
  <1>3. ASSUME NEW s \in Runners, ClearLease(s)
        PROVE  FALSE
    <2>1. at[s] = "clearing" /\ guard = s
      BY <1>3, Zenon DEF ClearLease, RecoveryIsGuarded, Guarding
    <2>2. r # s /\ at[r] = at'[r]
      BY <1>3, Zenon DEF ClearLease
    <2> QED BY <2>1, <2>2, Zenon DEF RecoveryIsGuarded, Guarding
  <1>4. ASSUME NEW s \in Runners,
               \/ PutNew(s) \/ WriteLease(s) \/ WriteFails(s) \/ OpenGuard(s) \/ ReplaceLease(s)
               \/ DropGuard(s) \/ GuardStays(s)
        PROVE  seen' = seen /\ at[r] = at'[r]
    BY <1>4 DEF PutNew, WriteLease, WriteFails, OpenGuard, ReplaceLease, DropGuard, GuardStays
  <1>5. ASSUME NEW s \in Runners,
               \/ RenewReads(s) \/ RenewWrites(s) \/ EndTask(s) \/ ReadBack(s)
               \/ Unlink(s) \/ UnlinkFails(s)
        PROVE  seen' = seen /\ at[r] = at'[r]
    BY <1>5 DEF RenewReads, RenewWrites, EndTask, ReadBack, Unlink, UnlinkFails
  <1>6. ASSUME Expire \/ (\E p \in Processes : Die(p)) \/ UNCHANGED leaseVars
        PROVE  seen' = seen /\ at[r] = at'[r]
    BY <1>6, Zenon DEF Expire, Die, leaseVars
  <1> QED BY <1>1, <1>2, <1>3, <1>4, <1>5, <1>6, Zenon DEF LeaseNext, LeaseStep

\* Of two runners, one that recovers a lock removes the file it read: only a third could have
\* put another in its place, for the owner it read is dead.
THEOREM TwoRecoverWhatTheyRead ==
    ASSUME AtMostTwo
    PROVE  LeaseSpec => []RecoversWhatItRead
  <1> DEFINE I == LeaseInv /\ RecoversAnothers /\ RecoversWhatItRead
  <1>1. LeaseInit => I
    BY InitLeaseInv, Zenon DEF LeaseInit, RecoversAnothers, RecoversWhatItRead
  <1>2. ASSUME I, [LeaseNext]_leaseVars
        PROVE  I'
    <2>1. LeaseInv'
      BY <1>2, TypeStep, InvStep, Zenon DEF LeaseInv
    <2>2. RecoversAnothers'
      BY <1>2, NewLock, OldLock, Zenon DEF RecoversAnothers
    <2>3. ASSUME NEW r \in Runners, at'[r] = "clearing", lock' # Absent
          PROVE  lock' = seen'
      <3>1. seen' \in Runners /\ ~ Alive(seen)' /\ Alive(r)' /\ lock' \in Runners
        BY <2>1, <2>3, Zenon DEF LeaseInv, LeaseTypeOK, RecoveryIsGuarded, DeadAreGone
      <3>2. lock' # r
        BY <2>2, <2>3, <3>1, Zenon DEF RecoversAnothers
      <3> QED BY <1>2, <3>1, <3>2, Zenon DEF AtMostTwo
    <2> QED BY <2>1, <2>2, <2>3, Zenon DEF RecoversWhatItRead
  <1>3. I /\ [LeaseNext]_leaseVars => I'
    BY <1>2, Zenon
  <1> HIDE DEF I
  <1>4. I => RecoversWhatItRead
    BY Zenon DEF I
  <1> QED BY <1>1, <1>3, <1>4, PTL DEF LeaseSpec

\* Of two runners one at a time runs, without a hypothesis.
THEOREM OneOfTwoRuns ==
    ASSUME AtMostTwo
    PROVE  LeaseSpec => []OneRunAtATime
  BY TwoRecoverWhatTheyRead, OneRunAtATimeHolds, PTL
-----------------------------------------------------------------------------
(* The invariant of the campaign.                                          *)

\* A task that was never claimed was never dispatched, git works for a dispatched task
\* only, and a completed receipt is that of a commit.
TasksAgree ==
    \A t \in Tasks :
        /\ state[t] = "pending" => calls[t] = 0
        /\ git[t] # "none" => calls[t] = 1
        /\ receipt[t] = "completed" => git[t] = "committed"

\* What the coordinator of r knows about its task.
Knows(r) ==
    LET t == co[r].task
    IN  /\ co[r].pc \in BeforeDispatch =>
              /\ calls[t] = 0 /\ state[t] = "in_flight"
              /\ \A d \in DependsOn[t] : state[d] = "completed"
        /\ co[r].pc = "complete" => git[t] = "committed"
        /\ co[r].pc \in {"verify", "apply"} /\ co[r].obs = "succeeded" /\ t \in Mutating =>
              git[t] = "committed"

\* A coordinator works under the run lock, and knows what it is doing.
PassesAgree ==
    \A r \in Runners :
        /\ co[r].pc # "none" => at[r] = "task"
        /\ co[r].pc \in Working => co[r].task \in Tasks
        /\ Knows(r)

\* The inductive invariant.
CampaignInv == CampaignTypeOK /\ LeaseInv /\ TasksAgree /\ PassesAgree
-----------------------------------------------------------------------------
(* The campaign and its lease.                                             *)

\* Every step of a campaign is a step of its lease or leaves the lease alone.
LEMMA StepOfLease ==
    ASSUME [CampaignNext]_vars
    PROVE  [LeaseNext]_leaseVars
  <1>1. ASSUME NEW r \in Runners, Pass(r)
        PROVE  UNCHANGED leaseVars
    BY <1>1, Zenon DEF Pass, SpendsBudget, Loop, ClaimNext, ClaimRefused, Execute, Reserve, MarkExecuting,
                Backend, BackendAnswers, MarkCompleted, MarkReconciliationRequired,
                Observe, Verify, Apply, Uncertain, leaseVars
  <1>2. ASSUME NEW r \in Runners, Wake(r) \/ Acquire(r) \/ Contend(r) \/ Heartbeat(r) \/ Finish(r) \/ Release(r)
        PROVE  LeaseNext
    BY <1>2, Zenon DEF Wake, Acquire, Contend, Heartbeat, Finish, Release, LeaseNext, LeaseStep
  <1>3. ASSUME \/ \E t \in Tasks : GitEnds(t)
               \/ \E r \in Runners : WakeFails(r) \/ Retire(r)
        PROVE  UNCHANGED leaseVars
    BY <1>3, Zenon DEF GitEnds, WakeFails, Retire, leaseVars
  <1>4. ASSUME NEW p \in Processes, Crash(p)
        PROVE  LeaseNext
    BY <1>4, Zenon DEF Crash, LeaseNext
  <1>5. ASSUME TimePasses
        PROVE  LeaseNext
    BY <1>5, Zenon DEF TimePasses, LeaseNext
  <1>6. ASSUME UNCHANGED vars
        PROVE  UNCHANGED leaseVars
    BY <1>6, Zenon DEF vars
  <1> QED BY <1>1, <1>2, <1>3, <1>4, <1>5, <1>6, Zenon DEF CampaignNext, Proceed

\* What is proved of the lease holds of the lease of a campaign.
THEOREM CampaignKeepsLease == CampaignSpec => LeaseSpec
  <1>1. CampaignInit => LeaseInit
    BY Zenon DEF CampaignInit
  <1>2. [CampaignNext]_vars => [LeaseNext]_leaseVars
    BY StepOfLease, Zenon
  <1> QED BY <1>1, <1>2, PTL DEF CampaignSpec, LeaseSpec

\* One coordinator at a time works on the campaign, whichever processes die, as long as a
\* recoverer removes the lock file it read.
THEOREM CampaignRunsOnce == CampaignSpec /\ []RecoversWhatItRead => []OneRunAtATime
  BY CampaignKeepsLease, OneRunAtATimeHolds, PTL
-----------------------------------------------------------------------------
(* Typing.                                                                 *)

USE CampaignAssumption

\* A step of one coordinator leaves the others' passes alone and its own a pass.
LEMMA PassIsTyped ==
    ASSUME co \in [Runners -> Passes], NEW r \in Runners,
           \/ \E pc \in Working : Goto(r, pc)
           \/ \E why \in Stops : Stop(r, why)
           \/ Again(r)
    PROVE  co' \in [Runners -> Passes] /\ \A s \in Runners \ {r} : co'[s] = co[s]
  <1> USE DEF Passes, NoPass
  <1>1. ASSUME NEW pc \in Working, Goto(r, pc)
        PROVE  co' \in [Runners -> Passes] /\ \A s \in Runners \ {r} : co'[s] = co[s]
    <2> DEFINE x == [co[r] EXCEPT !.pc = pc]
    <2>1. co[r] \in Passes
      BY Zenon
    <2>2. x \in Passes
      BY <2>1, Zenon
    <2>3. co' = [co EXCEPT ![r] = x]
      BY <1>1, Zenon DEF Goto
    <2> HIDE DEF x, Passes, NoPass
    <2> QED BY <2>2, <2>3, Zenon
  <1>2. ASSUME NEW why \in Stops, Stop(r, why)
        PROVE  co' \in [Runners -> Passes] /\ \A s \in Runners \ {r} : co'[s] = co[s]
    <2>1. NoPass \in Passes
      BY Zenon
    <2>2. [NoPass EXCEPT !.pc = "stop", !.stop = why] \in Passes
      BY <2>1, Zenon DEF Stops, Errors
    <2> QED BY <1>2, <2>2, Zenon DEF Stop
  <1>3. ASSUME Again(r)
        PROVE  co' \in [Runners -> Passes] /\ \A s \in Runners \ {r} : co'[s] = co[s]
    <2>1. NoPass \in Passes /\ co[r] \in Passes
      BY Zenon
    <2>2. [NoPass EXCEPT !.pc = "loop", !.visited = co[r].visited, !.steps = co[r].steps] \in Passes
      BY <2>1, Zenon
    <2> QED BY <1>3, <2>2, Zenon DEF Again
  <1> QED BY <1>1, <1>2, <1>3, Zenon

\* Where a coordinator goes, and what it takes along.
LEMMA GotoMoves ==
    ASSUME co \in [Runners -> Passes], NEW r \in Runners, NEW pc, Goto(r, pc)
    PROVE  co'[r].pc = pc /\ co'[r].task = co[r].task /\ co'[r].obs = co[r].obs
  BY DEF Passes, Goto

\* A pass that stops is at its end.
LEMMA StopMoves ==
    ASSUME co \in [Runners -> Passes], NEW r \in Runners, NEW why, Stop(r, why)
    PROVE  co'[r].pc = "stop"
  BY Zenon DEF Passes, NoPass, Stop

\* The next round begins at the head of the loop.
LEMMA AgainMoves ==
    ASSUME co \in [Runners -> Passes], NEW r \in Runners, Again(r)
    PROVE  co'[r].pc = "loop"
  BY Zenon DEF Passes, NoPass, Again
-----------------------------------------------------------------------------
(* The invariant.                                                          *)

\* While one coordinator works the others are outside the lock.
LEMMA OthersRest ==
    ASSUME CampaignInv, NEW r \in Runners, co[r].pc # "none"
    PROVE  \A s \in Runners \ {r} : co[s].pc = "none"
  BY Zenon DEF CampaignInv, PassesAgree, LeaseInv, HoldersHaveLock, Holding

\* So a step of its pass has to mind its own task only.
LEMMA PassKeeps ==
    ASSUME CampaignInv, NEW r \in Runners, At(r, co[r].pc), co[r].pc # "none",
           UNCHANGED leaseVars, \A s \in Runners \ {r} : co'[s] = co[s],
           co'[r].pc \in Working => co'[r].task \in Tasks,
           Knows(r)'
    PROVE  PassesAgree'
  <1>1. \A s \in Runners \ {r} : co'[s].pc = "none"
    BY OthersRest, Zenon
  <1>2. \A s \in Runners \ {r} : Knows(s)'
    BY <1>1, Zenon DEF Knows, BeforeDispatch
  <1> QED BY <1>1, <1>2, Zenon DEF PassesAgree, At, leaseVars, Working, BeforeDispatch

\* A step that changes nothing but the pass of one coordinator.
LEMMA MoveKeeps ==
    ASSUME CampaignInv, NEW r \in Runners, At(r, co[r].pc), co[r].pc # "none",
           UNCHANGED <<leaseVars, state, receipt, git, calls, sup>>,
           co' \in [Runners -> Passes], \A s \in Runners \ {r} : co'[s] = co[s],
           co'[r].pc \in Working => co'[r].task \in Tasks,
           Knows(r)'
    PROVE  CampaignTypeOK' /\ TasksAgree' /\ PassesAgree'
  <1>1. CampaignTypeOK'
    BY Zenon DEF CampaignInv, CampaignTypeOK, LeaseTypeOK, leaseVars
  <1>2. TasksAgree'
    BY Zenon DEF CampaignInv, TasksAgree
  <1>3. PassesAgree'
    BY PassKeeps, Zenon
  <1> QED BY <1>1, <1>2, <1>3, Zenon

\* The head of the loop: the pass ends, a task is looked into, or one is claimed.
LEMMA LoopStep ==
    ASSUME CampaignInv, NEW r \in Runners, SpendsBudget(r) \/ Loop(r)
    PROVE  CampaignTypeOK' /\ TasksAgree' /\ PassesAgree'
  <1> USE DEF CampaignInv, CampaignTypeOK
  <1>1. /\ At(r, co[r].pc) /\ co[r].pc # "none" /\ UNCHANGED <<leaseVars, state, receipt, git, calls, sup>>
    BY Zenon DEF SpendsBudget, Loop, At
  <1>2. CASE \E why \in Stops : Stop(r, why)
    BY <1>1, <1>2, PassIsTyped, StopMoves, MoveKeeps, Zenon DEF Knows, Working, BeforeDispatch
  <1>3. ASSUME NEW t \in Tasks, state[t] \in Unresolved,
               co' = [co EXCEPT ![r].pc = "observe", ![r].task = t, ![r].found = state[t],
                                ![r].visited = @ \cup {t}, ![r].steps = @ + 1]
        PROVE  CampaignTypeOK' /\ TasksAgree' /\ PassesAgree'
    <2>1. co' \in [Runners -> Passes] /\ \A s \in Runners \ {r} : co'[s] = co[s]
      BY <1>3 DEF Passes, Working
    <2>2. co'[r].pc = "observe" /\ co'[r].task = t
      BY <1>3 DEF Passes
    <2> QED BY <1>1, <2>1, <2>2, MoveKeeps, Zenon DEF Knows, BeforeDispatch
  <1>4. CASE co' = [co EXCEPT ![r].pc = "claim", ![r].steps = @ + 1]
    <2>1. co' \in [Runners -> Passes] /\ \A s \in Runners \ {r} : co'[s] = co[s]
      BY <1>4 DEF Passes, Working
    <2>2. co'[r].pc = "claim"
      BY <1>4 DEF Passes
    <2> QED BY <1>1, <2>1, <2>2, MoveKeeps, Zenon DEF Knows, Working, BeforeDispatch
  <1> HIDE DEF CampaignInv, CampaignTypeOK
  <1>5. CASE SpendsBudget(r)
    <2>1. \E why \in {"all_completed", "step_budget"} : Stop(r, why)
      BY <1>5, Zenon DEF SpendsBudget
    <2> QED BY <1>2, <2>1, Zenon DEF Stops
  <1>6. CASE Loop(r)
    <2>1. CASE \E why \in {"all_completed", "awaiting_reconciliation"} : Stop(r, why)
      BY <1>2, <2>1, Zenon DEF Stops
    <2>2. \A t : IsFirst(t, NotVisited(r)) => state[t] \in Unresolved
      BY Zenon DEF IsFirst, NotVisited
    <2> QED BY <1>3, <1>4, <1>6, <2>1, <2>2, Zenon DEF Loop
  <1> QED BY <1>5, <1>6, Zenon

\* The steps of execute and reconcileExisting that write nothing.
LEMMA ReadStep ==
    ASSUME CampaignInv, NEW r \in Runners,
           ClaimRefused(r) \/ Execute(r) \/ BackendAnswers(r) \/ Verify(r)
    PROVE  CampaignTypeOK' /\ TasksAgree' /\ PassesAgree'
  <1> USE DEF CampaignInv, CampaignTypeOK
  <1>1. /\ At(r, co[r].pc) /\ co[r].pc # "none" /\ UNCHANGED <<leaseVars, state, receipt, git, calls, sup>>
    BY Zenon DEF ClaimRefused, Execute, BackendAnswers, Verify, At
  <1>2. CASE ClaimRefused(r)
    BY <1>1, <1>2, PassIsTyped, StopMoves, MoveKeeps, Zenon
       DEF ClaimRefused, Stops, Knows, Working, BeforeDispatch
  <1>3. ASSUME NEW pc \in Working, Goto(r, pc), co[r].pc \in Working,
               pc \in BeforeDispatch => co[r].pc \in BeforeDispatch,
               pc = "complete" => git[co[r].task] = "committed",
               pc \in {"verify", "apply"} => co[r].pc \in {"verify", "apply"}
        PROVE  CampaignTypeOK' /\ TasksAgree' /\ PassesAgree'
    <2>1. co'[r].pc = pc /\ co'[r].task = co[r].task /\ co'[r].obs = co[r].obs
      BY <1>3, GotoMoves, Zenon
    <2>2. Knows(r)
      BY Zenon DEF PassesAgree
    <2>3. Knows(r)'
      <3> HIDE DEF CampaignInv, CampaignTypeOK
      <3> QED BY <1>1, <1>3, <2>1, <2>2, Zenon DEF Knows
    <2>4. co' \in [Runners -> Passes] /\ \A s \in Runners \ {r} : co'[s] = co[s]
      BY <1>3, PassIsTyped, Zenon
    <2>5. co'[r].task \in Tasks
      BY <1>3, <2>1, Zenon DEF PassesAgree
    <2> QED BY <1>1, <2>3, <2>4, <2>5, MoveKeeps, Zenon
  <1> HIDE DEF CampaignInv, CampaignTypeOK
  <1>4. CASE Execute(r)
    BY <1>3, <1>4, Zenon DEF Execute, At, Working, BeforeDispatch
  <1>5. CASE BackendAnswers(r)
    BY <1>3, <1>5, Zenon DEF BackendAnswers, At, Working, BeforeDispatch
  <1>6. CASE Verify(r)
    BY <1>3, <1>6, Zenon DEF Verify, At, Working, BeforeDispatch
  <1> QED BY <1>2, <1>4, <1>5, <1>6, Zenon

\* An observation of success is backed by the receipt, and so by a commit.
LEMMA ObserveStep ==
    ASSUME CampaignInv, NEW r \in Runners, Observe(r)
    PROVE  CampaignTypeOK' /\ TasksAgree' /\ PassesAgree'
  <1> USE DEF CampaignInv, CampaignTypeOK
  <1>1. /\ At(r, co[r].pc) /\ co[r].pc = "observe" /\ UNCHANGED <<leaseVars, state, receipt, git, calls, sup>>
        /\ co[r].task \in Tasks
    BY Zenon DEF Observe, At, PassesAgree, Working
  <1>2. CASE Goto(r, "uncertain")
    <2>1. Knows(r)'
      BY <1>1, <1>2, GotoMoves DEF Knows, BeforeDispatch
    <2> QED BY <1>1, <1>2, <2>1, PassIsTyped, GotoMoves, MoveKeeps, Zenon DEF Working
  <1>3. ASSUME NEW obs \in Observations(co[r].task), NEW pc \in {"verify", "apply"},
               co' = [co EXCEPT ![r].obs = obs, ![r].pc = pc]
        PROVE  CampaignTypeOK' /\ TasksAgree' /\ PassesAgree'
    <2>1. /\ obs \in {"none", "in_progress", "outcome_unknown"} \cup Terminal
          /\ obs = "succeeded" /\ co[r].task \in Mutating => receipt[co[r].task] = "completed"
      BY <1>3, Zenon DEF Observations, Terminal
    <2>2. co' \in [Runners -> Passes] /\ \A s \in Runners \ {r} : co'[s] = co[s]
      <3>1. co[r] \in Passes /\ pc \in {"none", "loop", "claim", "stop"} \cup Working
        BY Zenon DEF Working
      <3>2. [co[r] EXCEPT !.obs = obs, !.pc = pc] \in Passes
        BY <2>1, <3>1, Zenon DEF Passes
      <3> QED BY <1>3, <3>2, Zenon
    <2>3. co'[r].pc = pc /\ co'[r].task = co[r].task /\ co'[r].obs = obs
      BY <1>3 DEF Passes
    <2>4. Knows(r)'
      BY <1>1, <2>1, <2>3, Zenon DEF Knows, BeforeDispatch, TasksAgree
    <2> QED BY <1>1, <2>2, <2>3, <2>4, MoveKeeps, Zenon
  <1> HIDE DEF CampaignInv, CampaignTypeOK
  <1> QED BY <1>2, <1>3, Zenon DEF Observe

\* The steps that write a receipt: it is completed only where the commit is known.
LEMMA ReceiptStep ==
    ASSUME CampaignInv, NEW r \in Runners,
           Reserve(r) \/ MarkExecuting(r) \/ MarkCompleted(r) \/ MarkReconciliationRequired(r)
    PROVE  CampaignTypeOK' /\ TasksAgree' /\ PassesAgree'
  <1> USE DEF CampaignInv, CampaignTypeOK
  <1> DEFINE t == co[r].task
  <1>1. /\ At(r, co[r].pc) /\ co[r].pc \in {"reserve", "mark", "complete", "flag"}
        /\ UNCHANGED <<leaseVars, state, git, calls, sup>> /\ t \in Tasks
    BY Zenon DEF Reserve, MarkExecuting, MarkCompleted, MarkReconciliationRequired, At, PassesAgree, Working,
           BeforeDispatch
  <1>2. PICK pc \in Working :
            /\ Goto(r, pc)
            /\ pc \in BeforeDispatch => co[r].pc \in BeforeDispatch
            /\ pc \notin {"complete", "verify", "apply"}
    BY DEF Reserve, MarkExecuting, MarkCompleted, MarkReconciliationRequired, At, Working, BeforeDispatch
  <1>3. co' \in [Runners -> Passes] /\ \A s \in Runners \ {r} : co'[s] = co[s]
    BY <1>2, PassIsTyped, Zenon
  <1>4. co'[r].pc = pc /\ co'[r].task = t
    BY <1>2, GotoMoves, Zenon
  <1>5. PassesAgree'
    <2>1. Knows(r)
      BY Zenon DEF PassesAgree
    <2>2. Knows(r)'
      <3> HIDE DEF CampaignInv, CampaignTypeOK
      <3> QED BY <1>1, <1>2, <1>4, <2>1, Zenon DEF Knows
    <2> QED BY <1>1, <1>3, <1>4, <2>2, PassKeeps, Zenon
  <1>6. /\ receipt' \in [Tasks -> {"none", "reserved", "executing", "completed", "reconciliation_required"}]
        /\ \A u \in Tasks : receipt'[u] = "completed" =>
                receipt[u] = "completed" \/ (u = t /\ co[r].pc = "complete")
    <2>1. \/ UNCHANGED receipt
          \/ \E v \in {"reserved", "executing", "completed", "reconciliation_required"} :
                /\ receipt' = [receipt EXCEPT ![t] = v]
                /\ v = "completed" => co[r].pc = "complete"
      BY Zenon DEF Reserve, MarkExecuting, MarkCompleted, MarkReconciliationRequired, At
    <2>2. t \in Tasks /\ receipt \in [Tasks -> {"none", "reserved", "executing", "completed",
                                               "reconciliation_required"}]
      BY <1>1, Zenon
    <2> HIDE DEF t, CampaignInv, CampaignTypeOK
    <2>3. CASE UNCHANGED receipt
      BY <2>2, <2>3, Zenon
    <2>4. ASSUME NEW v \in {"reserved", "executing", "completed", "reconciliation_required"},
                 receipt' = [receipt EXCEPT ![t] = v], v = "completed" => co[r].pc = "complete"
          PROVE  /\ receipt' \in [Tasks -> {"none", "reserved", "executing", "completed",
                                            "reconciliation_required"}]
                 /\ \A u \in Tasks : receipt'[u] = "completed" =>
                        receipt[u] = "completed" \/ (u = t /\ co[r].pc = "complete")
      BY <2>2, <2>4, Zenon
    <2> QED BY <2>1, <2>3, <2>4, Zenon
  <1>7. co[r].pc = "complete" => git[t] = "committed"
    BY Zenon DEF PassesAgree, Knows
  <1>8. TasksAgree'
    BY <1>1, <1>6, <1>7, Zenon DEF TasksAgree
  <1>9. CampaignTypeOK'
    BY <1>1, <1>3, <1>6, Zenon DEF LeaseTypeOK, leaseVars
  <1> QED BY <1>5, <1>8, <1>9, Zenon

\* The dispatch: the task was not dispatched before.
LEMMA BackendStep ==
    ASSUME CampaignInv, NEW r \in Runners, Backend(r)
    PROVE  CampaignTypeOK' /\ TasksAgree' /\ PassesAgree'
  <1> USE DEF CampaignInv, CampaignTypeOK
  <1> DEFINE t == co[r].task
  <1>1. /\ At(r, co[r].pc) /\ co[r].pc = "backend" /\ Goto(r, "waiting")
        /\ UNCHANGED <<leaseVars, state, receipt, sup>> /\ t \in Tasks
    BY Zenon DEF Backend, At, PassesAgree, Working, BeforeDispatch
  <1>2. calls[t] = 0 /\ git[t] = "none" /\ state[t] = "in_flight"
    BY <1>1 DEF PassesAgree, Knows, BeforeDispatch, TasksAgree
  <1>3. co' \in [Runners -> Passes] /\ \A s \in Runners \ {r} : co'[s] = co[s]
    BY <1>1, PassIsTyped, Zenon DEF Working
  <1>4. PassesAgree'
    <2>1. Knows(r)'
      BY <1>1, GotoMoves DEF Knows, BeforeDispatch
    <2> QED BY <1>1, <1>3, <2>1, GotoMoves, PassKeeps, Zenon
  <1>5. /\ git' = [git EXCEPT ![t] = "running"] /\ calls' = [calls EXCEPT ![t] = @ + 1]
    BY Zenon DEF Backend
  <1>6. TasksAgree'
    BY <1>1, <1>2, <1>5 DEF TasksAgree
  <1>7. CampaignTypeOK'
    BY <1>1, <1>3, <1>5 DEF LeaseTypeOK, leaseVars
  <1> QED BY <1>4, <1>6, <1>7, Zenon

\* What a claim does: the pass stops, or a task that can be claimed is in flight.
LEMMA ClaimCases ==
    ASSUME NEW r \in Runners, ClaimNext(r)
    PROVE  \/ UNCHANGED state /\ \E why \in Stops : Stop(r, why)
           \/ \E t \in Tasks :
                 /\ t \in Claimable /\ state' = [state EXCEPT ![t] = "in_flight"]
                 /\ \A u \in Tasks : state[u] # "in_flight"
                 /\ \/ co' = [co EXCEPT ![r].pc = "execute", ![r].task = t, ![r].found = "claimed",
                                        ![r].visited = @ \cup {t}]
                    \/ \E why \in Errors : Stop(r, why)
  <1>1. CASE (\E t \in Tasks : state[t] = "in_flight") \/ Claimable = {}
    <2>1. UNCHANGED state /\ \E why \in {"awaiting_reconciliation", "no_runnable_step"} : Stop(r, why)
      BY <1>1, Zenon DEF ClaimNext
    <2> QED BY <2>1, Zenon DEF Stops
  <1>2. CASE ~ ((\E t \in Tasks : state[t] = "in_flight") \/ Claimable = {})
    BY <1>2, Zenon DEF ClaimNext, IsFirst
  <1> QED BY <1>1, <1>2, Zenon

\* The claim: the task was pending and what it depends on is completed.
LEMMA ClaimStep ==
    ASSUME CampaignInv, NEW r \in Runners, ClaimNext(r)
    PROVE  CampaignTypeOK' /\ TasksAgree' /\ PassesAgree'
  <1> USE DEF CampaignInv, CampaignTypeOK
  <1>1. /\ At(r, co[r].pc) /\ co[r].pc = "claim" /\ UNCHANGED <<leaseVars, receipt, git, calls, sup>>
    BY Zenon DEF ClaimNext, At
  <1>2. ASSUME NEW why \in Stops, Stop(r, why), UNCHANGED state
        PROVE  CampaignTypeOK' /\ TasksAgree' /\ PassesAgree'
    BY <1>1, <1>2, PassIsTyped, StopMoves, MoveKeeps, Zenon DEF Knows, Working, BeforeDispatch
  <1>3. ASSUME NEW t \in Tasks, t \in Claimable, state' = [state EXCEPT ![t] = "in_flight"],
               co' \in [Runners -> Passes], \A s \in Runners \ {r} : co'[s] = co[s],
               co'[r].pc \notin Working \/ (co'[r].pc = "execute" /\ co'[r].task = t)
        PROVE  CampaignTypeOK' /\ TasksAgree' /\ PassesAgree'
    <2>1. state[t] = "pending" /\ \A d \in DependsOn[t] : state[d] = "completed"
      BY <1>3, Zenon DEF Claimable
    <2>2. DependsOn[t] \subseteq Tasks
      BY Zenon
    <2>3. calls[t] = 0
      BY <2>1, Zenon DEF TasksAgree
    <2>4. state'[t] = "in_flight" /\ \A d \in DependsOn[t] : state'[d] = "completed"
      BY <1>3, <2>1, <2>2, Zenon
    <2>5. Knows(r)'
      BY <1>1, <1>3, <2>3, <2>4, Zenon DEF Knows, Working, BeforeDispatch
    <2>6. PassesAgree'
      BY <1>1, <1>3, <2>5, PassKeeps, Zenon
    <2>7. TasksAgree'
      BY <1>1, <1>3, Zenon DEF TasksAgree
    <2>8. CampaignTypeOK'
      BY <1>1, <1>3, Zenon DEF LeaseTypeOK, leaseVars, Unresolved
    <2> QED BY <2>6, <2>7, <2>8, Zenon
  <1>4. ASSUME NEW t \in Tasks, t \in Claimable, state' = [state EXCEPT ![t] = "in_flight"],
               co' = [co EXCEPT ![r].pc = "execute", ![r].task = t, ![r].found = "claimed",
                                ![r].visited = @ \cup {t}]
        PROVE  CampaignTypeOK' /\ TasksAgree' /\ PassesAgree'
    <2>1. co' \in [Runners -> Passes] /\ \A s \in Runners \ {r} : co'[s] = co[s]
      <3>1. co[r] \in Passes /\ "execute" \in {"none", "loop", "claim", "stop"} \cup Working
        BY Zenon DEF Working, BeforeDispatch
      <3>2. [co[r] EXCEPT !.pc = "execute", !.task = t, !.found = "claimed",
                          !.visited = co[r].visited \cup {t}] \in Passes
        BY <3>1, Zenon DEF Passes
      <3> QED BY <1>4, <3>2, Zenon
    <2>2. co'[r].pc = "execute" /\ co'[r].task = t
      BY <1>4 DEF Passes
    <2> QED BY <1>3, <1>4, <2>1, <2>2, Zenon
  <1>5. ASSUME NEW t \in Tasks, t \in Claimable, state' = [state EXCEPT ![t] = "in_flight"],
               NEW why \in Errors, Stop(r, why)
        PROVE  CampaignTypeOK' /\ TasksAgree' /\ PassesAgree'
    BY <1>3, <1>5, PassIsTyped, StopMoves, Zenon DEF Stops, Working, BeforeDispatch
  <1> HIDE DEF CampaignInv, CampaignTypeOK
  <1> QED BY <1>2, <1>4, <1>5, ClaimCases, Zenon

\* The transitions: only what is unresolved changes its state.
LEMMA TransitionStep ==
    ASSUME CampaignInv, NEW r \in Runners, Apply(r) \/ Uncertain(r)
    PROVE  CampaignTypeOK' /\ TasksAgree' /\ PassesAgree'
  <1> USE DEF CampaignInv, CampaignTypeOK
  <1> DEFINE t == co[r].task
  <1>1. /\ At(r, co[r].pc) /\ co[r].pc \in {"apply", "uncertain"}
        /\ UNCHANGED <<leaseVars, receipt, git, calls, sup>> /\ t \in Tasks
    BY Zenon DEF Apply, Uncertain, At, PassesAgree, Working
  <1>2. Again(r) \/ Goto(r, "uncertain") \/ \E why \in Stops : Stop(r, why)
    BY Zenon DEF Apply, Uncertain, Stops
  <1>3. co' \in [Runners -> Passes] /\ \A s \in Runners \ {r} : co'[s] = co[s]
    BY <1>2, PassIsTyped, Zenon DEF Working
  <1>4. co'[r].pc \in {"loop", "uncertain", "stop"} /\ (co'[r].pc = "uncertain" => co'[r].task = t)
    BY <1>2, AgainMoves, GotoMoves, StopMoves, Zenon
  <1>5. PassesAgree'
    <2>1. Knows(r)'
      BY <1>4, Zenon DEF Knows, BeforeDispatch
    <2> QED BY <1>1, <1>3, <1>4, <2>1, PassKeeps, Zenon DEF Working, BeforeDispatch
  <1>6. \/ UNCHANGED state
        \/ \E next \in {"outcome_unknown"} \cup Final : state' = [state EXCEPT ![t] = next]
    BY Zenon DEF Apply, Uncertain, Target, Final
  <1>7. TasksAgree'
    BY <1>1, <1>6 DEF TasksAgree, Final
  <1>8. CampaignTypeOK'
    BY <1>1, <1>3, <1>6 DEF LeaseTypeOK, leaseVars, Unresolved
  <1> QED BY <1>5, <1>7, <1>8, Zenon

\* What a supervisor reports is one of its statuses.
LEMMA ReportIsTyped ==
    ASSUME sup \in [Runners -> Supervisors], NEW r \in Runners, NEW stop
    PROVE  [sup EXCEPT ![r] = Report(r, stop)] \in [Runners -> Supervisors]
  <1>1. Report(r, stop) \in Supervisors
    BY DEF Report, NewSupervisor, GivenUp, Supervisors
  <1> QED BY <1>1, Zenon

\* Steps that touch neither the tasks nor git: the run lock, the wakes and the crashes.
LEMMA LeaseKeeps ==
    ASSUME CampaignInv, UNCHANGED <<state, receipt, git, calls>>, LeaseTypeOK',
           co' \in [Runners -> Passes], sup' \in [Runners -> Supervisors],
           \A s \in Runners : co'[s].pc # "none" => at'[s] = "task",
           \A s \in Runners : co'[s].pc \in Working =>
               co'[s].pc = co[s].pc /\ co'[s].task = co[s].task /\ co'[s].obs = co[s].obs
    PROVE  CampaignTypeOK' /\ TasksAgree' /\ PassesAgree'
  <1>1. CampaignTypeOK'
    BY Zenon DEF CampaignInv, CampaignTypeOK
  <1>2. TasksAgree'
    BY Zenon DEF CampaignInv, TasksAgree
  <1>3. ASSUME NEW s \in Runners
        PROVE  (co'[s].pc \in Working => co'[s].task \in Tasks) /\ Knows(s)'
    <2>1. CASE co'[s].pc \in Working
      <3>1. /\ co'[s].pc = co[s].pc /\ co'[s].task = co[s].task /\ co'[s].obs = co[s].obs
            /\ (co[s].pc \in Working => co[s].task \in Tasks) /\ Knows(s)
        BY <1>3, <2>1, Zenon DEF CampaignInv, PassesAgree
      <3> QED BY <2>1, <3>1, Zenon DEF Knows
    <2>2. CASE co'[s].pc \notin Working
      BY <1>3, <2>2, Zenon DEF Knows, Working
    <2> QED BY <2>1, <2>2, Zenon
  <1> QED BY <1>1, <1>2, <1>3, Zenon DEF PassesAgree

\* The steps of the lease, with what the supervisor and the coordinator make of them.
LEMMA LockStep ==
    ASSUME CampaignInv, LeaseTypeOK', NEW r \in Runners,
           \/ Wake(r) \/ WakeFails(r) \/ Retire(r) \/ Acquire(r) \/ Contend(r)
           \/ Heartbeat(r) \/ Finish(r) \/ Release(r)
    PROVE  CampaignTypeOK' /\ TasksAgree' /\ PassesAgree'
  <1> USE DEF CampaignInv, CampaignTypeOK
  <1>1. \A s \in Runners : co[s].pc # "none" => at[s] = "task"
    BY Zenon DEF PassesAgree
  <1>2. CASE Wake(r) \/ Contend(r)
    <2>1. UNCHANGED <<state, receipt, git, calls, co>> /\ at[r] # "task"
      BY <1>2, Zenon DEF Wake, Contend, campaignVars, PutNew, OpenGuard, InspectLease, ProbeOwner, ClearLease,
                  ReplaceLease, Move
    <2>2. \A s \in Runners \ {r} : at'[s] = at[s]
      <3>1. \E from, to : Move(r, from, to)
        <4>1. CASE PutNew(r) \/ OpenGuard(r) \/ InspectLease(r)
          BY <4>1, Zenon DEF PutNew, OpenGuard, InspectLease
        <4>2. CASE ProbeOwner(r) \/ ClearLease(r) \/ ReplaceLease(r)
          BY <4>2, Zenon DEF ProbeOwner, ClearLease, ReplaceLease
        <4> QED BY <1>2, <4>1, <4>2, Zenon DEF Wake, Contend
      <3> QED BY <3>1, Zenon DEF Move, LeaseTypeOK
    <2>3. sup' \in [Runners -> Supervisors]
      BY <1>2, ReportIsTyped DEF Wake, Contend, campaignVars, Reports, ReportsIfIdle
    <2> QED BY <1>1, <2>1, <2>2, <2>3, LeaseKeeps, Zenon
  <1>3. CASE Heartbeat(r)
    BY <1>1, <1>3, LeaseKeeps, Zenon DEF Heartbeat, campaignVars, RenewReads, RenewWrites
  <1>6. CASE WakeFails(r) \/ Retire(r)
    <2>1. UNCHANGED <<state, receipt, git, calls, co, at>>
      BY <1>6, Zenon DEF WakeFails, Retire, leaseVars
    <2>2. sup' \in [Runners -> Supervisors]
      <3>1. GivenUp \in Supervisors
        BY DEF GivenUp, Supervisors
      <3>2. CASE WakeFails(r)
        BY <3>2, ReportIsTyped DEF WakeFails, Reports
      <3>3. CASE Retire(r)
        BY <3>1, <3>3, Zenon DEF Retire
      <3> QED BY <1>6, <3>2, <3>3, Zenon
    <2> QED BY <1>1, <2>1, <2>2, LeaseKeeps, Zenon
  <1>4. CASE Acquire(r)
    <2>1. UNCHANGED <<state, receipt, git, calls>> /\ at[r] # "task"
      BY <1>4, Zenon DEF Acquire, WriteLease, WriteFails, DropGuard, GuardStays, Move
    <2>2. \A s \in Runners \ {r} : at'[s] = at[s]
      BY <1>4, Zenon DEF Acquire, WriteLease, WriteFails, DropGuard, GuardStays, Move, LeaseTypeOK
    <2>3. sup' \in [Runners -> Supervisors]
      BY <1>4, ReportIsTyped DEF Acquire, Reports, ReportsIfIdle
    <2>4. CASE UNCHANGED co
      BY <1>1, <2>1, <2>2, <2>3, <2>4, LeaseKeeps, Zenon
    <2>5. CASE at'[r] = "task" /\ co' = [co EXCEPT ![r].pc = "loop"]
      <3>1. co' \in [Runners -> Passes] /\ \A s \in Runners \ {r} : co'[s] = co[s]
        <4>1. co[r] \in Passes
          BY Zenon
        <4>2. [co[r] EXCEPT !.pc = "loop"] \in Passes
          BY <4>1, Zenon DEF Passes
        <4> QED BY <2>5, <4>2, Zenon
      <3>2. co'[r].pc = "loop"
        BY <2>5 DEF Passes
      <3> QED BY <1>1, <2>1, <2>2, <2>3, <2>5, <3>1, <3>2, LeaseKeeps DEF Working, BeforeDispatch
    <2> QED BY <1>4, <2>4, <2>5, Zenon DEF Acquire
  <1>5. ASSUME Finish(r) \/ Release(r)
        PROVE  CampaignTypeOK' /\ TasksAgree' /\ PassesAgree'
    <2>1. UNCHANGED <<state, receipt, git, calls>>
      BY <1>5, Zenon DEF Finish, Release
    <2>2. \A s \in Runners \ {r} : at'[s] = at[s]
      BY <1>5 DEF Finish, Release, EndTask, ReadBack, Unlink, UnlinkFails, Move, LeaseTypeOK
    <2>3. sup' \in [Runners -> Supervisors]
      BY <1>5, ReportIsTyped DEF Finish, Release, Reports, ReportsIfIdle
    <2>4. /\ co' \in [Runners -> Passes] /\ co'[r].pc = "none"
          /\ \A s \in Runners \ {r} : co'[s] = co[s]
      <3>1. CASE Finish(r)
        <4>1. PICK stop \in {"none"} \cup Stops : co' = [co EXCEPT ![r] = [NoPass EXCEPT !.stop = stop]]
          BY <3>1, Zenon DEF Finish, Stops, Errors, Passes
        <4>2. [NoPass EXCEPT !.stop = stop] \in Passes /\ [NoPass EXCEPT !.stop = stop].pc = "none"
          BY Zenon DEF NoPass, Passes
        <4> QED BY <4>1, <4>2, Zenon
      <3>2. CASE Release(r)
        <4>1. co[r].pc = "none"
          BY <1>1, <3>2, Zenon DEF Release, ReadBack, Unlink, UnlinkFails, Move
        <4>2. UNCHANGED co \/ co' = [co EXCEPT ![r].stop = "none"]
          BY <3>2, Zenon DEF Release
        <4>3. co[r] \in Passes
          BY Zenon
        <4>4. [co[r] EXCEPT !.stop = "none"] \in Passes /\ [co[r] EXCEPT !.stop = "none"].pc = "none"
          BY <4>1, <4>3, Zenon DEF Passes
        <4>5. CASE UNCHANGED co
          BY <4>1, <4>5, Zenon
        <4>6. CASE co' = [co EXCEPT ![r].stop = "none"]
          <5>1. PICK x \in Passes : x.pc = "none" /\ x = [co[r] EXCEPT !.stop = "none"]
            BY <4>4, Zenon
          <5>2. co' = [co EXCEPT ![r] = x]
            BY <4>6, <5>1, Zenon
          <5> QED BY <5>1, <5>2, Zenon
        <4> QED BY <4>2, <4>5, <4>6, Zenon
      <3> QED BY <1>5, <3>1, <3>2, Zenon
    <2> QED BY <1>1, <2>1, <2>2, <2>3, <2>4, LeaseKeeps, Zenon DEF Working, BeforeDispatch
  <1> QED BY <1>2, <1>3, <1>4, <1>5, <1>6, Zenon

\* The environment: git ends, a process dies, time passes.
LEMMA WorldStep ==
    ASSUME CampaignInv, LeaseTypeOK',
           (\E t \in Tasks : GitEnds(t)) \/ (\E p \in Processes : Crash(p)) \/ TimePasses
    PROVE  CampaignTypeOK' /\ TasksAgree' /\ PassesAgree'
  <1> USE DEF CampaignInv, CampaignTypeOK
  <1>1. \A s \in Runners : co[s].pc # "none" => at[s] = "task"
    BY Zenon DEF PassesAgree
  <1>2. ASSUME NEW t \in Tasks, GitEnds(t)
        PROVE  CampaignTypeOK' /\ TasksAgree' /\ PassesAgree'
    <2>1. /\ git[t] = "running" /\ UNCHANGED <<leaseVars, state, receipt, calls, co, sup>>
          /\ \E end \in {"committed", "refused"} : git' = [git EXCEPT ![t] = end]
      BY <1>2, Zenon DEF GitEnds
    <2>2. \A u \in Tasks : (git[u] = "committed" => git'[u] = "committed") /\ (git'[u] # "none" => git[u] # "none")
      BY <2>1, Zenon
    <2>3. TasksAgree'
      BY <2>1, <2>2, Zenon DEF TasksAgree
    <2>4. \A s \in Runners : Knows(s) /\ (co[s].pc \in Working => co[s].task \in Tasks)
      BY Zenon DEF PassesAgree
    <2>5. \A s \in Runners : Knows(s)'
      BY <2>1, <2>2, <2>4 DEF Knows, Working
    <2>6. PassesAgree'
      BY <1>1, <2>1, <2>4, <2>5, Zenon DEF PassesAgree, leaseVars
    <2>7. CampaignTypeOK'
      BY <2>1 DEF LeaseTypeOK, leaseVars
    <2> QED BY <2>3, <2>6, <2>7, Zenon
  <1>3. ASSUME NEW p \in Processes, Crash(p)
        PROVE  CampaignTypeOK' /\ TasksAgree' /\ PassesAgree'
    <2>1. /\ UNCHANGED <<state, receipt, git, calls>>
          /\ \A s \in Runners : \/ co'[s] = NoPass
                                \/ co'[s] = co[s] /\ at'[s] = at[s]
      BY <1>3, Zenon DEF Crash, Die
    <2>2. NoPass \in Passes /\ NoPass.pc = "none" /\ NewSupervisor \in Supervisors
      BY Zenon DEF NoPass, Passes, NewSupervisor, Supervisors
    <2>3. co' \in [Runners -> Passes] /\ sup' \in [Runners -> Supervisors]
      BY <1>3, <2>2, Zenon DEF Crash
    <2> QED BY <1>1, <2>1, <2>2, <2>3, LeaseKeeps, Zenon DEF Working, BeforeDispatch
  <1>4. ASSUME TimePasses
        PROVE  CampaignTypeOK' /\ TasksAgree' /\ PassesAgree'
    BY <1>1, <1>4, LeaseKeeps, Zenon DEF TimePasses, campaignVars, Expire
  <1> QED BY <1>2, <1>3, <1>4, Zenon

\* At first every task is pending and nobody is awake.
LEMMA InitCampaignInv == CampaignInit => CampaignInv
  <1> SUFFICES ASSUME CampaignInit PROVE CampaignInv
    BY Zenon
  <1>1. LeaseInv
    BY InitLeaseInv, Zenon DEF CampaignInit
  <1>2. NoPass \in Passes /\ NoPass.pc = "none" /\ NewSupervisor \in Supervisors
    BY Zenon DEF NoPass, Passes, NewSupervisor, Supervisors
  <1>3. CampaignTypeOK
    BY <1>1, <1>2, Zenon DEF CampaignInit, CampaignTypeOK, LeaseInv
  <1>4. TasksAgree
    BY Zenon DEF CampaignInit, TasksAgree
  <1>5. PassesAgree
    BY <1>2, Zenon DEF CampaignInit, PassesAgree, Knows, Working, BeforeDispatch
  <1> QED BY <1>1, <1>3, <1>4, <1>5, Zenon DEF CampaignInv

\* The invariant holds of every campaign, as long as a recoverer removes the lock file it
\* read.
THEOREM CampaignInvHolds == CampaignSpec /\ []RecoversWhatItRead => []CampaignInv
  <1>1. CampaignInv /\ RecoversWhatItRead /\ [CampaignNext]_vars => CampaignInv'
    <2> SUFFICES ASSUME CampaignInv, RecoversWhatItRead, [CampaignNext]_vars
                 PROVE  CampaignInv'
      BY Zenon
    <2>1. LeaseTypeOK' /\ LeaseInv'
      BY StepOfLease, TypeStep, InvStep, Zenon DEF CampaignInv, LeaseInv
    <2>2. ASSUME NEW r \in Runners, Pass(r)
          PROVE  CampaignTypeOK' /\ TasksAgree' /\ PassesAgree'
      BY <2>2, LoopStep, ReadStep, ObserveStep, ReceiptStep, BackendStep, ClaimStep, TransitionStep, Zenon
         DEF Pass
    <2>3. CASE UNCHANGED vars
      <3>1. CampaignTypeOK' /\ TasksAgree' /\ PassesAgree'
        <4>1. UNCHANGED <<state, receipt, git, calls, co, sup, at>>
          BY <2>3, Zenon DEF vars, leaseVars, campaignVars
        <4>2. /\ co' \in [Runners -> Passes] /\ sup' \in [Runners -> Supervisors]
              /\ \A s \in Runners : co'[s].pc # "none" => at'[s] = "task"
          BY <4>1, Zenon DEF CampaignInv, CampaignTypeOK, PassesAgree
        <4> QED BY <2>1, <4>1, <4>2, LeaseKeeps, Zenon
      <3> QED BY <2>1, <3>1, Zenon DEF CampaignInv
    <2>4. CASE CampaignNext
      <3>1. CampaignTypeOK' /\ TasksAgree' /\ PassesAgree'
        BY <2>1, <2>2, <2>4, LockStep, WorldStep, Zenon DEF CampaignNext, Proceed
      <3> QED BY <2>1, <3>1, Zenon DEF CampaignInv
    <2> QED BY <2>1, <2>3, <2>4, Zenon DEF CampaignInv
  <1> QED BY <1>1, InitCampaignInv, PTL DEF CampaignSpec
-----------------------------------------------------------------------------
(* The promise.                                                            *)

\* What CampaignPromise calls happened and verdict.
Happened == {t \in Tasks : git[t] = "committed"}
Verdict == [t \in Tasks |-> IF state[t] \in Final THEN state[t] ELSE "open"]

\* A step that changes neither calls, git nor a verdict is a stuttering step.
LEMMA Stutters ==
    ASSUME UNCHANGED <<git, calls>>, \A t \in Tasks : Verdict'[t] = Verdict[t]
    PROVE  UNCHANGED Promise!promiseVars
  <1>1. UNCHANGED Verdict
    BY Zenon DEF Verdict
  <1> QED BY <1>1, Zenon DEF Promise!promiseVars, Verdict

\* A dispatch is the promise's Ask: the first, of an open task, behind what it depends on.
LEMMA BackendAsks ==
    ASSUME CampaignInv, NEW r \in Runners, Backend(r)
    PROVE  Promise!Next
  <1> DEFINE t == co[r].task
  <1>1. /\ t \in Tasks /\ calls[t] = 0 /\ git[t] = "none" /\ state[t] = "in_flight"
        /\ \A d \in DependsOn[t] : state[d] = "completed"
    <2>1. co[r].pc = "backend" /\ t \in Tasks
      BY Zenon DEF Backend, At, CampaignInv, PassesAgree, Working, BeforeDispatch
    <2>2. Knows(r) /\ TasksAgree /\ "backend" \in BeforeDispatch
      BY Zenon DEF CampaignInv, PassesAgree, BeforeDispatch
    <2>3. calls[t] = 0 /\ state[t] = "in_flight" /\ \A d \in DependsOn[t] : state[d] = "completed"
      BY <2>1, <2>2, Zenon DEF Knows
    <2>4. git[t] = "none"
      BY <2>1, <2>2, <2>3 DEF TasksAgree
    <2> QED BY <2>1, <2>3, <2>4, Zenon
  <1>2. /\ calls' = [calls EXCEPT ![t] = 1] /\ git' = [git EXCEPT ![t] = "running"] /\ UNCHANGED state
    BY <1>1 DEF Backend, CampaignInv, CampaignTypeOK
  <1>3. UNCHANGED Happened
    BY <1>1, <1>2, Zenon DEF Happened, CampaignInv, CampaignTypeOK
  <1>4. DependsOn[t] \subseteq Tasks
    BY <1>1, Zenon
  <1> HIDE DEF t
  <1>5. /\ Verdict[t] = "open" /\ \A d \in DependsOn[t] : Verdict[d] = "completed"
    BY <1>1, <1>4, Zenon DEF Verdict, Final
  <1>6. Promise!Ask(t)
    BY <1>1, <1>2, <1>3, <1>5, Zenon DEF Promise!Ask, Happened, Verdict
  <1> QED BY <1>1, <1>6, Zenon DEF Promise!Next

\* The end of git is the promise's Happen, or nothing when the commit was refused.
LEMMA GitHappens ==
    ASSUME CampaignInv, NEW t \in Tasks, GitEnds(t)
    PROVE  Promise!Next \/ UNCHANGED Promise!promiseVars
  <1>1. PICK end \in {"committed", "refused"} : git' = [git EXCEPT ![t] = end]
    BY Zenon DEF GitEnds
  <1>2. git[t] = "running" /\ calls[t] = 1 /\ UNCHANGED <<calls, state>>
    BY Zenon DEF GitEnds, CampaignInv, TasksAgree
  <1>3. git \in [Tasks -> {"none", "running", "committed", "refused"}]
    BY Zenon DEF CampaignInv, CampaignTypeOK
  <1>4. CASE end = "committed"
    <2>1. Happened' = Happened \cup {t} /\ t \notin Happened
      BY <1>1, <1>2, <1>3, <1>4, Zenon DEF Happened
    <2>2. Promise!Happen(t)
      BY <1>2, <2>1, Zenon DEF Promise!Happen, Happened
    <2> QED BY <2>2, Zenon DEF Promise!Next
  <1>5. CASE end = "refused"
    <2>1. UNCHANGED Happened
      BY <1>1, <1>2, <1>3, <1>5, Zenon DEF Happened
    <2> QED BY <1>2, <2>1, Zenon DEF Promise!promiseVars, Happened
  <1> QED BY <1>4, <1>5, Zenon

\* A transition is the promise's Settle, or leaves the verdict open.
LEMMA ApplySettles ==
    ASSUME CampaignInv, NEW r \in Runners, Apply(r)
    PROVE  Promise!Next \/ UNCHANGED Promise!promiseVars
  <1> DEFINE t == co[r].task
  <1>1. co[r].pc = "apply" /\ t \in Tasks /\ UNCHANGED <<git, calls>>
    BY Zenon DEF Apply, At, CampaignInv, PassesAgree, Working
  <1>2. CASE UNCHANGED state
    BY <1>1, <1>2, Stutters, Zenon DEF Verdict
  <1>3. ASSUME CanTransition(t, Target(r)), state' = [state EXCEPT ![t] = Target(r)], Target(r) # "none"
        PROVE  Promise!Next \/ UNCHANGED Promise!promiseVars
    <2>1. state[t] \in Unresolved /\ state \in [Tasks -> {"pending"} \cup Unresolved \cup Final]
      BY <1>3, Zenon DEF CanTransition, CampaignInv, CampaignTypeOK
    <2>2. Target(r) \in {"outcome_unknown"} \cup Final
      BY <1>3, Zenon DEF Target, Final
    <2>3. Target(r) = "completed" /\ t \in Mutating => git[t] = "committed"
      BY <1>1, Zenon DEF Target, CampaignInv, PassesAgree, Knows
    <2> DEFINE next == Target(r)
    <2>4. /\ Verdict[t] = "open" /\ Verdict' = [Verdict EXCEPT ![t] = IF next \in Final THEN next ELSE "open"]
      <3> HIDE DEF next, t
      <3>1. t \in Tasks /\ state' = [state EXCEPT ![t] = next]
        BY <1>1, <1>3, Zenon DEF next, t
      <3>2. state[t] \notin Final
        BY <2>1, Zenon DEF Unresolved, Final
      <3>3. \A u \in Tasks : state'[u] = IF u = t THEN next ELSE state[u]
        BY <2>1, <3>1, Zenon
      <3> QED BY <3>1, <3>2, <3>3, Zenon DEF Verdict
    <2>5. CASE next = "outcome_unknown"
      <3>1. \A u \in Tasks : Verdict'[u] = Verdict[u]
        BY <2>4, <2>5, Zenon DEF Verdict, Final
      <3> QED BY <1>1, <3>1, Stutters, Zenon
    <2>6. CASE next \in Final
      <3>1. t \in Tasks /\ next \in {"completed", "failed", "blocked"}
        BY <1>1, <2>6, Zenon DEF Final
      <3> HIDE DEF t, next
      <3>2. PICK u \in Tasks, v \in {"completed", "failed", "blocked"} : u = t /\ v = next
        BY <3>1, Zenon
      <3>3. Promise!Settle(u, v)
        BY <1>1, <2>3, <2>4, <2>6, <3>2, Zenon DEF Promise!Settle, Verdict, Happened, next
      <3> QED BY <3>3, Zenon DEF Promise!Next
    <2> QED BY <2>2, <2>5, <2>6, Zenon
  <1> QED BY <1>2, <1>3, Zenon DEF Apply

\* A claim or an uncertain outcome leaves every verdict open.
LEMMA OpenStays ==
    ASSUME CampaignInv, NEW r \in Runners, ClaimNext(r) \/ Uncertain(r)
    PROVE  UNCHANGED Promise!promiseVars
  <1>1. UNCHANGED <<git, calls>> /\ state \in [Tasks -> {"pending"} \cup Unresolved \cup Final]
    BY Zenon DEF ClaimNext, Uncertain, CampaignInv, CampaignTypeOK
  <1>2. CASE UNCHANGED state
    BY <1>1, <1>2, Stutters, Zenon DEF Verdict
  <1>3. ASSUME NEW t, state[t] \notin Final,
               NEW next \in Unresolved, state' = [state EXCEPT ![t] = next]
        PROVE  UNCHANGED Promise!promiseVars
    <2>1. \A u \in Tasks : state'[u] = IF u = t THEN next ELSE state[u]
      BY <1>1, <1>3, Zenon
    <2>2. next \notin Final
      BY Zenon DEF Unresolved, Final
    <2>3. \A u \in Tasks : Verdict'[u] = Verdict[u]
      BY <1>3, <2>1, <2>2, Zenon DEF Verdict
    <2> QED BY <1>1, <2>3, Stutters, Zenon
  <1>4. CASE ClaimNext(r)
    BY <1>2, <1>3, <1>4, Zenon DEF ClaimNext, IsFirst, Claimable, Unresolved, Final
  <1>5. CASE Uncertain(r)
    BY <1>2, <1>3, <1>5, Zenon DEF Uncertain, CanTransition, Unresolved, Final
  <1> QED BY <1>4, <1>5, Zenon

\* Every other step has nothing to do with the promise.
LEMMA OtherSteps ==
    ASSUME UNCHANGED <<state, git, calls>>
    PROVE  UNCHANGED Promise!promiseVars
  BY Stutters, Zenon DEF Verdict

\* The campaign implements CampaignPromise: whatever dies or is lost between two steps, the
\* effect of a task is asked for once, behind its dependencies, and its verdict is final
\* and true; as long as a recoverer removes the lock file it read.
THEOREM CampaignKeepsPromise == CampaignSpec /\ []RecoversWhatItRead => KeepsPromise
  <1>1. CampaignInit => Promise!Init
    BY Zenon DEF CampaignInit, Promise!Init, Final
  <1>2. CampaignInv /\ [CampaignNext]_vars => [Promise!Next]_Promise!promiseVars
    <2> SUFFICES ASSUME CampaignInv, [CampaignNext]_vars
                 PROVE  Promise!Next \/ UNCHANGED Promise!promiseVars
      BY Zenon
    <2>1. ASSUME NEW r \in Runners, Pass(r)
          PROVE  Promise!Next \/ UNCHANGED Promise!promiseVars
      <3>1. CASE Backend(r)
        BY <3>1, BackendAsks, Zenon
      <3>2. CASE Apply(r)
        BY <3>2, ApplySettles, Zenon
      <3>3. CASE ClaimNext(r) \/ Uncertain(r)
        BY <3>3, OpenStays, Zenon
      <3>4. CASE \/ SpendsBudget(r) \/ Loop(r) \/ ClaimRefused(r) \/ Execute(r) \/ Reserve(r)
                 \/ MarkExecuting(r) \/ BackendAnswers(r) \/ MarkCompleted(r)
                 \/ MarkReconciliationRequired(r) \/ Observe(r) \/ Verify(r)
        BY <3>4, OtherSteps, Zenon
           DEF SpendsBudget, Loop, ClaimRefused, Execute, Reserve, MarkExecuting, BackendAnswers,
               MarkCompleted, MarkReconciliationRequired, Observe, Verify
      <3> QED BY <2>1, <3>1, <3>2, <3>3, <3>4, Zenon DEF Pass
    <2>2. ASSUME NEW r \in Runners,
                 \/ Wake(r) \/ WakeFails(r) \/ Retire(r) \/ Acquire(r) \/ Contend(r)
                 \/ Heartbeat(r) \/ Finish(r) \/ Release(r)
          PROVE  UNCHANGED Promise!promiseVars
      BY <2>2, OtherSteps, Zenon DEF Wake, WakeFails, Retire, Acquire, Contend, Heartbeat, Finish, Release, campaignVars
    <2>3. ASSUME NEW t \in Tasks, GitEnds(t)
          PROVE  Promise!Next \/ UNCHANGED Promise!promiseVars
      BY <2>3, GitHappens, Zenon
    <2>4. CASE (\E p \in Processes : Crash(p)) \/ TimePasses \/ UNCHANGED vars
      BY <2>4, OtherSteps, Zenon DEF Crash, TimePasses, vars, campaignVars
    <2> QED BY <2>1, <2>2, <2>3, <2>4, Zenon DEF CampaignNext, Proceed
  <1> QED BY <1>1, <1>2, CampaignInvHolds, PTL DEF CampaignSpec, KeepsPromise, Promise!Spec

\* The history in the repository follows the plan: a commit was made by one call of git,
\* every task it depends on is completed, and the commits among those are there too; a
\* commit recorded as completed is there.
CommitsFollowPlan ==
    \A t \in Tasks :
        /\ git[t] = "committed" =>
              /\ calls[t] = 1
              /\ \A d \in DependsOn[t] :
                    state[d] = "completed" /\ (d \in Mutating => git[d] = "committed")
        /\ state[t] = "completed" /\ t \in Mutating => git[t] = "committed"

\* What makes it inductive: a task was asked for only behind its dependencies.
PlanInv ==
    \A t \in Tasks :
        /\ t \in Happened => calls[t] = 1
        /\ calls[t] # 0 => \A d \in DependsOn[t] : Verdict[d] = "completed"
        /\ Verdict[t] = "completed" /\ t \in Mutating => t \in Happened

\* Every step the promise allows preserves PlanInv.
LEMMA PlanStep ==
    ASSUME CampaignTypeOK, PlanInv, [Promise!Next]_Promise!promiseVars
    PROVE  PlanInv'
  <1>1. /\ DependsOn \in [Tasks -> SUBSET Tasks]
        /\ calls \in [Tasks -> Nat] /\ Verdict \in [Tasks -> {Verdict[t] : t \in Tasks}]
    BY CampaignAssumption, Zenon DEF CampaignTypeOK, Verdict
  <1>2. ASSUME NEW t \in Tasks, Promise!Ask(t)
        PROVE  PlanInv'
    <2>1. /\ calls[t] = 0 /\ \A d \in DependsOn[t] : Verdict[d] = "completed"
          /\ calls' = [calls EXCEPT ![t] = 1] /\ Happened' = Happened /\ Verdict' = Verdict
      BY <1>2, Zenon DEF Promise!Ask, Verdict, Happened
    <2>2. \A u \in Tasks : calls'[u] = IF u = t THEN 1 ELSE calls[u]
      BY <1>1, <2>1, Zenon
    <2> QED BY <2>1, <2>2, Zenon DEF PlanInv
  <1>3. ASSUME NEW t \in Tasks, Promise!Happen(t)
        PROVE  PlanInv'
    <2>1. /\ calls[t] = 1 /\ Happened' = Happened \cup {t}
          /\ calls' = calls /\ Verdict' = Verdict
      BY <1>3, Zenon DEF Promise!Happen, Verdict, Happened
    <2> QED BY <2>1, Zenon DEF PlanInv
  <1>4. ASSUME NEW t \in Tasks, NEW v \in {"completed", "failed", "blocked"}, Promise!Settle(t, v)
        PROVE  PlanInv'
    <2>1. /\ Verdict[t] = "open" /\ (v = "completed" /\ t \in Mutating => t \in Happened)
          /\ Verdict' = [Verdict EXCEPT ![t] = v] /\ calls' = calls /\ Happened' = Happened
      BY <1>4, Zenon DEF Promise!Settle, Verdict, Happened
    <2>2. \A u \in Tasks : Verdict'[u] = IF u = t THEN v ELSE Verdict[u]
      BY <1>1, <2>1, Zenon
    <2>3. \A u \in Tasks : Verdict[u] = "completed" => Verdict'[u] = "completed"
      BY <2>1, <2>2, Zenon
    <2>4. \A u \in Tasks : \A d \in DependsOn[u] : d \in Tasks
      BY <1>1, Zenon
    <2> QED BY <2>1, <2>2, <2>3, <2>4, Zenon DEF PlanInv
  <1>5. CASE UNCHANGED Promise!promiseVars
    <2>1. calls' = calls /\ Happened' = Happened /\ Verdict' = Verdict
      BY <1>5, Zenon DEF Promise!promiseVars, Verdict, Happened
    <2> QED BY <2>1, Zenon DEF PlanInv
  <1> QED BY <1>2, <1>3, <1>4, <1>5, Zenon DEF Promise!Next

\* Whatever dies or is lost, the commits in the repository follow the plan of the campaign:
\* the promise is enough to say so, no other fact about coordinators is needed.  The
\* promise is kept as long as a recoverer removes the lock file it read.
THEOREM CommitsFollowPlanHolds == CampaignSpec /\ []RecoversWhatItRead => []CommitsFollowPlan
  <1>1. Promise!Init => PlanInv
    <2> SUFFICES ASSUME Promise!Init
                 PROVE  PlanInv
      BY Zenon
    <2>1. /\ calls = [t \in Tasks |-> 0] /\ Happened = {}
          /\ Verdict = [t \in Tasks |-> "open"]
      BY Zenon DEF Promise!Init, Verdict, Happened
    <2>2. \A t \in Tasks : calls[t] = 0 /\ Verdict[t] = "open"
      BY <2>1, Zenon
    <2> QED BY <2>1, <2>2, Zenon DEF PlanInv
  <1>2. CampaignTypeOK /\ PlanInv /\ [Promise!Next]_Promise!promiseVars => PlanInv'
    BY PlanStep, Zenon
  <1>3. PlanInv => CommitsFollowPlan
    <2> SUFFICES ASSUME PlanInv, NEW t \in Tasks
                 PROVE  /\ git[t] = "committed" =>
                              /\ calls[t] = 1
                              /\ \A d \in DependsOn[t] :
                                    state[d] = "completed" /\ (d \in Mutating => git[d] = "committed")
                        /\ state[t] = "completed" /\ t \in Mutating => git[t] = "committed"
      BY Zenon DEF CommitsFollowPlan
    <2>1. \A u \in Tasks : /\ u \in Happened <=> git[u] = "committed"
                           /\ Verdict[u] = "completed" <=> state[u] = "completed"
      BY Zenon DEF Happened, Verdict, Final
    <2>2. \A d \in DependsOn[t] : d \in Tasks
      BY CampaignAssumption, Zenon
    <2>3. git[t] = "committed" => calls[t] = 1 /\ calls[t] # 0
      <3>1. 1 # 0
        OBVIOUS
      <3> QED BY <2>1, <3>1, Zenon DEF PlanInv
    <2> QED BY <2>1, <2>2, <2>3, Zenon DEF PlanInv
  <1>4. CampaignInv => CampaignTypeOK
    BY Zenon DEF CampaignInv
  <1> QED
    BY <1>1, <1>2, <1>3, <1>4, CampaignInvHolds, CampaignKeepsPromise, PTL
       DEF KeepsPromise, Promise!Spec
-----------------------------------------------------------------------------
(* One effect at a time on a resource.                                     *)

\* While git works for a task the record says so: the task is a commit, in flight or
\* uncertain.
RunningIsOpen ==
    \A t \in Tasks : git[t] = "running" => t \in Mutating /\ state[t] \in Unresolved

\* No other commit to the resource of t is under way.
Free(t) == \A u \in Tasks \ {t} : Resource[u] = Resource[t] => git[u] # "running"

\* A coordinator that may still dispatch has the resource to itself, dispatches commits only,
\* and hears of a commit only that it succeeded or that its outcome is unknown.
CommitsAlone(r) ==
    LET t == co[r].task
    IN  /\ co[r].pc \in {"reserve", "mark", "backend"} => t \in Mutating
        /\ co[r].pc \in {"verify", "apply"} /\ t \in Mutating =>
              co[r].obs \in {"succeeded", "outcome_unknown"}
        /\ co[r].pc \in BeforeDispatch => Free(t)

\* What makes OneEffectPerResource inductive, on top of CampaignInv.
EffectInv == RunningIsOpen /\ (\A r \in Runners : CommitsAlone(r)) /\ OneEffectPerResource

\* A step under the run lock has to mind its own pass only.
LEMMA AloneKeeps ==
    ASSUME CampaignInv, NEW r \in Runners, co[r].pc # "none",
           \A s \in Runners \ {r} : co'[s] = co[s], CommitsAlone(r)'
    PROVE  \A s \in Runners : CommitsAlone(s)'
  <1>1. \A s \in Runners \ {r} : co'[s].pc = "none"
    BY OthersRest, Zenon
  <1>2. \A s \in Runners \ {r} : CommitsAlone(s)'
    BY <1>1, Zenon DEF CommitsAlone, BeforeDispatch
  <1> QED BY <1>2, Zenon

\* Where git and the record are left alone only the pass counts.
LEMMA EffectsStay ==
    ASSUME EffectInv, UNCHANGED <<state, git>>, \A r \in Runners : CommitsAlone(r)'
    PROVE  EffectInv'
  BY Zenon DEF EffectInv, RunningIsOpen, OneEffectPerResource

\* The steps of a pass that leave git and the record alone.
LEMMA PassEffects ==
    ASSUME CampaignInv, EffectInv, NEW r \in Runners,
           \/ SpendsBudget(r) \/ Loop(r) \/ ClaimRefused(r) \/ Execute(r) \/ Reserve(r)
           \/ MarkExecuting(r) \/ BackendAnswers(r) \/ MarkCompleted(r)
           \/ MarkReconciliationRequired(r) \/ Observe(r) \/ Verify(r)
    PROVE  EffectInv'
  <1>1. co \in [Runners -> Passes] /\ CommitsAlone(r)
    BY Zenon DEF CampaignInv, CampaignTypeOK, EffectInv
  <1>2. co[r].pc # "none" /\ UNCHANGED <<state, git>>
    BY Zenon DEF SpendsBudget, Loop, ClaimRefused, Execute, Reserve, MarkExecuting, BackendAnswers,
           MarkCompleted, MarkReconciliationRequired, Observe, Verify, At
  <1> SUFFICES CommitsAlone(r)' /\ \A s \in Runners \ {r} : co'[s] = co[s]
    BY <1>2, AloneKeeps, EffectsStay, Zenon
  <1>3. ASSUME NEW why \in Stops, Stop(r, why)
        PROVE  CommitsAlone(r)' /\ \A s \in Runners \ {r} : co'[s] = co[s]
    BY <1>1, <1>3, StopMoves, PassIsTyped, Zenon DEF CommitsAlone, BeforeDispatch
  <1>4. ASSUME NEW pc \in Working, Goto(r, pc),
               pc \in {"reserve", "mark", "backend"} => co[r].task \in Mutating,
               pc \in {"verify", "apply"} => co[r].pc \in {"verify", "apply"},
               pc \in BeforeDispatch => co[r].pc \in BeforeDispatch
        PROVE  CommitsAlone(r)' /\ \A s \in Runners \ {r} : co'[s] = co[s]
    <2>1. co'[r].pc = pc /\ co'[r].task = co[r].task /\ co'[r].obs = co[r].obs
      BY <1>1, <1>4, GotoMoves, Zenon
    <2>2. PICK t : t = co[r].task
      BY Zenon
    <2>3. co[r].pc \in BeforeDispatch => Free(t)'
      BY <1>1, <1>2, <2>2, Zenon DEF CommitsAlone, Free
    <2>4. CommitsAlone(r)'
      BY <1>1, <1>4, <2>1, <2>2, <2>3, Zenon DEF CommitsAlone, Free
    <2> QED BY <1>1, <1>4, <2>4, PassIsTyped, Zenon
  <1>5. CASE SpendsBudget(r) \/ ClaimRefused(r)
    BY <1>3, <1>5, Zenon DEF SpendsBudget, ClaimRefused, Stops
  <1>6. CASE Loop(r)
    <2>1. ASSUME NEW t \in Tasks,
                 co' = [co EXCEPT ![r].pc = "observe", ![r].task = t, ![r].found = state[t],
                                  ![r].visited = @ \cup {t}, ![r].steps = @ + 1]
          PROVE  CommitsAlone(r)' /\ \A s \in Runners \ {r} : co'[s] = co[s]
      <3>1. co'[r].pc = "observe" /\ \A s \in Runners \ {r} : co'[s] = co[s]
        BY <1>1, <2>1 DEF Passes
      <3> QED BY <3>1, Zenon DEF CommitsAlone, BeforeDispatch
    <2>2. ASSUME co' = [co EXCEPT ![r].pc = "claim", ![r].steps = @ + 1]
          PROVE  CommitsAlone(r)' /\ \A s \in Runners \ {r} : co'[s] = co[s]
      <3>1. co'[r].pc = "claim" /\ \A s \in Runners \ {r} : co'[s] = co[s]
        BY <1>1, <2>2 DEF Passes
      <3> QED BY <3>1, Zenon DEF CommitsAlone, BeforeDispatch
    <2> QED BY <1>3, <1>6, <2>1, <2>2, Zenon DEF Loop, Stops
  <1>7. CASE Execute(r)
    BY <1>4, <1>7, Zenon DEF Execute, At, Working, BeforeDispatch
  <1>8. CASE Reserve(r) \/ MarkExecuting(r)
    BY <1>1, <1>4, <1>8, Zenon DEF Reserve, MarkExecuting, At, Working, BeforeDispatch, CommitsAlone
  <1>9. CASE BackendAnswers(r) \/ MarkCompleted(r) \/ MarkReconciliationRequired(r) \/ Verify(r)
    BY <1>4, <1>9, Zenon DEF BackendAnswers, MarkCompleted, MarkReconciliationRequired, Verify, At, Working,
                      BeforeDispatch
  <1>10. CASE Observe(r)
    <2>1. CASE Goto(r, "uncertain")
      BY <1>4, <2>1, Zenon DEF Working, BeforeDispatch
    <2>2. ASSUME NEW obs \in Observations(co[r].task), NEW pc \in {"verify", "apply"},
                 co' = [co EXCEPT ![r].obs = obs, ![r].pc = pc]
          PROVE  CommitsAlone(r)' /\ \A s \in Runners \ {r} : co'[s] = co[s]
      <3>1. co[r].task \in Mutating => obs \in {"succeeded", "outcome_unknown"}
        BY <2>2, Zenon DEF Observations
      <3>2. /\ co'[r].pc = pc /\ co'[r].task = co[r].task /\ co'[r].obs = obs
            /\ \A s \in Runners \ {r} : co'[s] = co[s]
        BY <1>1, <2>2 DEF Passes
      <3> QED BY <3>1, <3>2, Zenon DEF CommitsAlone, BeforeDispatch
    <2> QED BY <1>10, <2>1, <2>2, Zenon DEF Observe
  <1> QED BY <1>5, <1>6, <1>7, <1>8, <1>9, <1>10, Zenon

\* A claim is taken when nothing is in flight and nothing uncertain has the resource: what
\* git still works on is elsewhere.
LEMMA ClaimEffects ==
    ASSUME CampaignInv, EffectInv, NEW r \in Runners, ClaimNext(r)
    PROVE  EffectInv'
  <1>1. co \in [Runners -> Passes] /\ state \in [Tasks -> {"pending"} \cup Unresolved \cup Final]
    BY Zenon DEF CampaignInv, CampaignTypeOK
  <1>2. co[r].pc # "none" /\ UNCHANGED git
    BY Zenon DEF ClaimNext, At
  <1>3. ASSUME NEW why \in Stops, Stop(r, why)
        PROVE  \A s \in Runners : CommitsAlone(s)'
    <2>1. CommitsAlone(r)' /\ \A s \in Runners \ {r} : co'[s] = co[s]
      BY <1>1, <1>3, StopMoves, PassIsTyped, Zenon DEF CommitsAlone, BeforeDispatch
    <2> QED BY <1>2, <2>1, AloneKeeps, Zenon
  <1>4. ASSUME NEW t \in Tasks, t \in Claimable, \A u \in Tasks : state[u] # "in_flight",
               co' = [co EXCEPT ![r].pc = "execute", ![r].task = t, ![r].found = "claimed",
                                ![r].visited = @ \cup {t}]
        PROVE  \A s \in Runners : CommitsAlone(s)'
    <2>1. co'[r].pc = "execute" /\ co'[r].task = t /\ \A s \in Runners \ {r} : co'[s] = co[s]
      BY <1>1, <1>4 DEF Passes
    <2>2. \A u \in Tasks \ {t} : Resource[u] = Resource[t] => state[u] \notin Unresolved
      BY <1>4, Zenon DEF Claimable, Unresolved
    <2>3. Free(t)'
      BY <1>2, <2>2, Zenon DEF Free, EffectInv, RunningIsOpen
    <2>4. CommitsAlone(r)'
      BY <2>1, <2>3, Zenon DEF CommitsAlone, Free
    <2> QED BY <1>2, <2>1, <2>4, AloneKeeps, Zenon
  <1>5. \A s \in Runners : CommitsAlone(s)'
    <2>1. Errors \subseteq Stops
      BY Zenon DEF Stops
    <2> QED BY <1>3, <1>4, <2>1, ClaimCases, Zenon
  <1>6. UNCHANGED state \/ \E t \in Tasks : state' = [state EXCEPT ![t] = "in_flight"]
    BY Zenon DEF ClaimNext
  <1>7. RunningIsOpen' /\ OneEffectPerResource'
    BY <1>1, <1>2, <1>6, Zenon DEF EffectInv, RunningIsOpen, OneEffectPerResource, Unresolved
  <1> QED BY <1>5, <1>7, Zenon DEF EffectInv

\* The dispatch: nothing else works on the resource.
LEMMA BackendEffects ==
    ASSUME CampaignInv, EffectInv, NEW r \in Runners, Backend(r)
    PROVE  EffectInv'
  <1>1. /\ co \in [Runners -> Passes] /\ git \in [Tasks -> {"none", "running", "committed", "refused"}]
        /\ CommitsAlone(r)
    BY Zenon DEF CampaignInv, CampaignTypeOK, EffectInv
  <1>2. PICK t \in Tasks : t = co[r].task
    BY Zenon DEF Backend, At, CampaignInv, PassesAgree, Working, BeforeDispatch
  <1>3. /\ co[r].pc = "backend" /\ Goto(r, "waiting") /\ UNCHANGED state
        /\ git' = [git EXCEPT ![t] = "running"]
    BY <1>2, Zenon DEF Backend, At
  <1>4. t \in Mutating /\ Free(t) /\ state[t] = "in_flight"
    <2>1. t \in Mutating /\ Free(t)
      BY <1>1, <1>2, <1>3, Zenon DEF CommitsAlone, BeforeDispatch
    <2>2. state[t] = "in_flight"
      BY <1>2, <1>3, Zenon DEF CampaignInv, PassesAgree, Knows, BeforeDispatch
    <2> QED BY <2>1, <2>2, Zenon
  <1>5. \A s \in Runners : CommitsAlone(s)'
    <2>1. co'[r].pc = "waiting" /\ \A s \in Runners \ {r} : co'[s] = co[s]
      BY <1>1, <1>3, GotoMoves, PassIsTyped, Zenon DEF Working
    <2>2. CommitsAlone(r)'
      BY <2>1, Zenon DEF CommitsAlone, BeforeDispatch
    <2> QED BY <1>3, <2>1, <2>2, AloneKeeps, Zenon
  <1>6. RunningIsOpen'
    BY <1>1, <1>3, <1>4, Zenon DEF EffectInv, RunningIsOpen, Unresolved
  <1>7. OneEffectPerResource'
    BY <1>1, <1>3, <1>4, Zenon DEF EffectInv, OneEffectPerResource, Free
  <1> QED BY <1>5, <1>6, <1>7, Zenon DEF EffectInv

\* A task that git works for is settled by no observation: it stays unresolved.
LEMMA TransitionEffects ==
    ASSUME CampaignInv, EffectInv, NEW r \in Runners, Apply(r) \/ Uncertain(r)
    PROVE  EffectInv'
  <1>1. /\ co \in [Runners -> Passes] /\ state \in [Tasks -> {"pending"} \cup Unresolved \cup Final]
        /\ CommitsAlone(r)
    BY Zenon DEF CampaignInv, CampaignTypeOK, EffectInv
  <1>2. PICK t \in Tasks : t = co[r].task
    BY Zenon DEF Apply, Uncertain, At, CampaignInv, PassesAgree, Working
  <1>3. co[r].pc \in {"apply", "uncertain"} /\ UNCHANGED git
    BY Zenon DEF Apply, Uncertain, At
  <1>4. \A s \in Runners : CommitsAlone(s)'
    <2>1. Again(r) \/ Goto(r, "uncertain") \/ \E why \in Stops : Stop(r, why)
      BY Zenon DEF Apply, Uncertain, Stops
    <2>2. \A s \in Runners \ {r} : co'[s] = co[s]
      BY <1>1, <2>1, PassIsTyped, Zenon DEF Working
    <2>3. co'[r].pc \in {"loop", "uncertain", "stop"}
      BY <1>1, <2>1, AgainMoves, GotoMoves, StopMoves, Zenon
    <2>4. CommitsAlone(r)'
      BY <2>3, Zenon DEF CommitsAlone, BeforeDispatch
    <2> QED BY <1>3, <2>2, <2>4, AloneKeeps, Zenon
  <1>5. RunningIsOpen'
    <2>1. ASSUME NEW next, state' = [state EXCEPT ![t] = next],
                 next = "outcome_unknown" \/ (t \in Mutating => git[t] = "committed")
          PROVE  RunningIsOpen'
      BY <1>1, <1>3, <2>1, Zenon DEF EffectInv, RunningIsOpen, Unresolved
    <2>2. CASE UNCHANGED state
      BY <1>3, <2>2, Zenon DEF EffectInv, RunningIsOpen
    <2>3. ASSUME co[r].pc = "apply", Target(r) # "none", state' = [state EXCEPT ![t] = Target(r)]
          PROVE  RunningIsOpen'
      <3>1. CASE t \notin Mutating
        BY <2>1, <2>3, <3>1, Zenon
      <3>2. CASE t \in Mutating
        <4>1. co[r].obs \in {"succeeded", "outcome_unknown"}
          BY <1>1, <1>2, <2>3, <3>2, Zenon DEF CommitsAlone
        <4>2. CASE co[r].obs = "succeeded"
          <5>1. git[t] = "committed"
            BY <1>2, <2>3, <3>2, <4>2, Zenon DEF CampaignInv, PassesAgree, Knows
          <5> QED BY <2>1, <2>3, <5>1, Zenon
        <4>3. CASE co[r].obs = "outcome_unknown"
          <5>1. Target(r) = "outcome_unknown"
            BY <2>3, <4>3, Zenon DEF Target
          <5> QED BY <2>1, <2>3, <5>1, Zenon
        <4> QED BY <4>1, <4>2, <4>3, Zenon
      <3> QED BY <3>1, <3>2, Zenon
    <2>4. CASE Apply(r)
      BY <1>2, <2>2, <2>3, <2>4, Zenon DEF Apply, At
    <2>5. CASE Uncertain(r)
      BY <1>2, <2>1, <2>2, <2>5, Zenon DEF Uncertain
    <2> QED BY <2>4, <2>5, Zenon
  <1>6. OneEffectPerResource'
    BY <1>3, Zenon DEF EffectInv, OneEffectPerResource
  <1> QED BY <1>4, <1>5, <1>6, Zenon DEF EffectInv

\* The steps of the run lock and of the environment begin no effect and end no pass in the
\* middle but by a death.
LEMMA WorldEffects ==
    ASSUME CampaignInv, EffectInv,
           \/ \E r \in Runners :
                 \/ Wake(r) \/ WakeFails(r) \/ Retire(r) \/ Acquire(r) \/ Contend(r)
                 \/ Heartbeat(r) \/ Finish(r) \/ Release(r)
           \/ (\E t \in Tasks : GitEnds(t)) \/ (\E p \in Processes : Crash(p)) \/ TimePasses
           \/ UNCHANGED vars
    PROVE  EffectInv'
  <1>1. /\ co \in [Runners -> Passes] /\ git \in [Tasks -> {"none", "running", "committed", "refused"}]
    BY Zenon DEF CampaignInv, CampaignTypeOK
  <1>2. ASSUME UNCHANGED <<state, git>>,
               \A s \in Runners : \/ co'[s].pc \in {"none", "loop"}
                                  \/ co'[s].pc = co[s].pc /\ co'[s].task = co[s].task /\ co'[s].obs = co[s].obs
        PROVE  EffectInv'
    <2>1. ASSUME NEW s \in Runners
          PROVE  CommitsAlone(s)'
      <3>1. CASE co'[s].pc \in {"none", "loop"}
        BY <3>1, Zenon DEF CommitsAlone, BeforeDispatch
      <3>2. CASE co'[s].pc = co[s].pc /\ co'[s].task = co[s].task /\ co'[s].obs = co[s].obs
        <4>1. CommitsAlone(s) /\ UNCHANGED git
          BY <1>2, Zenon DEF EffectInv
        <4>2. PICK t : t = co[s].task /\ t = co'[s].task
          BY <3>2, Zenon
        <4>3. Free(t) => Free(t)'
          BY <4>1, Zenon DEF Free
        <4> QED BY <3>2, <4>1, <4>2, <4>3, Zenon DEF CommitsAlone
      <3> QED BY <1>2, <3>1, <3>2, Zenon
    <2> QED BY <1>2, <2>1, EffectsStay, Zenon
  <1>3. ASSUME NEW r \in Runners, Wake(r) \/ WakeFails(r) \/ Retire(r) \/ Contend(r) \/ Heartbeat(r)
        PROVE  EffectInv'
    BY <1>2, <1>3, Zenon DEF Wake, WakeFails, Retire, Contend, Heartbeat, campaignVars
  <1>4. ASSUME NEW r \in Runners, Acquire(r)
        PROVE  EffectInv'
    <2>1. UNCHANGED <<state, git>> /\ (UNCHANGED co \/ co' = [co EXCEPT ![r].pc = "loop"])
      BY <1>4, Zenon DEF Acquire
    <2> QED BY <1>1, <1>2, <2>1 DEF Passes
  <1>5. ASSUME NEW r \in Runners, Finish(r)
        PROVE  EffectInv'
    <2>1. UNCHANGED <<state, git>> /\ \E stop : co' = [co EXCEPT ![r] = [NoPass EXCEPT !.stop = stop]]
      BY <1>5, Zenon DEF Finish
    <2> QED BY <1>1, <1>2, <2>1 DEF NoPass
  <1>6. ASSUME NEW r \in Runners, Release(r)
        PROVE  EffectInv'
    <2>1. UNCHANGED <<state, git>> /\ (UNCHANGED co \/ co' = [co EXCEPT ![r].stop = "none"])
      BY <1>6, Zenon DEF Release
    <2> QED BY <1>1, <1>2, <2>1 DEF Passes
  <1>7. ASSUME NEW t \in Tasks, GitEnds(t)
        PROVE  EffectInv'
    <2>1. UNCHANGED <<state, co>> /\ \A u \in Tasks : git'[u] = "running" => git[u] = "running"
      BY <1>1, <1>7, Zenon DEF GitEnds
    <2>2. \A s \in Runners : CommitsAlone(s)'
      BY <2>1, Zenon DEF EffectInv, CommitsAlone, Free
    <2>3. RunningIsOpen' /\ OneEffectPerResource'
      BY <2>1, Zenon DEF EffectInv, RunningIsOpen, OneEffectPerResource
    <2> QED BY <2>2, <2>3, Zenon DEF EffectInv
  <1>8. ASSUME NEW p \in Processes, Crash(p)
        PROVE  EffectInv'
    BY <1>2, <1>8, Zenon DEF Crash, NoPass
  <1>9. CASE TimePasses \/ UNCHANGED vars
    BY <1>2, <1>9, Zenon DEF TimePasses, vars, campaignVars
  <1> QED BY <1>3, <1>4, <1>5, <1>6, <1>7, <1>8, <1>9, Zenon

\* At most one git process works on a resource, for any tasks and processes and whoever
\* dies: a commit whose process was lost stays in flight or uncertain in the record, which
\* keeps claimNext from its resource.  Again, as long as a recoverer removes the lock file
\* it read.
THEOREM OneEffectPerResourceHolds ==
    CampaignSpec /\ []RecoversWhatItRead => []OneEffectPerResource
  <1>1. CampaignInit => EffectInv
    BY DEF CampaignInit, EffectInv, RunningIsOpen, CommitsAlone, OneEffectPerResource, NoPass, BeforeDispatch
  <1>2. CampaignInv /\ EffectInv /\ [CampaignNext]_vars => EffectInv'
    <2> SUFFICES ASSUME CampaignInv, EffectInv, [CampaignNext]_vars
                 PROVE  EffectInv'
      BY Zenon
    <2>1. ASSUME NEW r \in Runners, Pass(r)
          PROVE  EffectInv'
      BY <2>1, PassEffects, ClaimEffects, BackendEffects, TransitionEffects, Zenon DEF Pass
    <2> QED BY <2>1, WorldEffects, Zenon DEF CampaignNext, Proceed
  <1>3. EffectInv => OneEffectPerResource
    BY Zenon DEF EffectInv
  <1> QED BY <1>1, <1>2, <1>3, CampaignInvHolds, PTL DEF CampaignSpec
=============================================================================
