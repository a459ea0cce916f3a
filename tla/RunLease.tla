------------------------------ MODULE RunLease ------------------------------
(***************************************************************************)
(* CampaignRunLease (workspace-agent/src/campaign/campaign-run-lease.ts):  *)
(* a lock file that holds its owner's identity, renewed by a heartbeat     *)
(* while the task runs, and taken over from an owner that is proved dead.  *)
(*                                                                         *)
(* The file system's steps are the model's steps: an exclusive create      *)
(* leaves an empty file until the content is written, a rename replaces    *)
(* the content, any of them may fail, and a process may die between any    *)
(* two of them.  A runner is a caller of run; a process may have several.  *)
(* Of the content of the file only whose it is and whether it is past      *)
(* expiresAt matters.                                                      *)
(***************************************************************************)
CONSTANTS
    Runners, Processes,
    ProcessOf,      \* the process of each runner
    Absent          \* no file

ASSUME LeaseAssumption ==
    /\ ProcessOf \in [Runners -> Processes]
    /\ Absent \notin Runners

VARIABLES
    lock,       \* the runner whose lock file is in place, or Absent
    written,    \* its content is there
    expired,    \* the time is past its expiresAt
    guard,      \* the .recovery.lock file
    seen,       \* the owner that readLease found, until tryRecover removes its file
    at,         \* where each runner is in run
    beat,       \* its heartbeat
    dead        \* the processes that died

leaseVars == <<lock, written, expired, guard, seen, at, beat, dead>>

\* The places in which a runner has the lock, and those in which it has the guard.
Holding == {"task", "ending", "unlinking", "acquired"}
Writing == {"writing", "rewriting"}
Guarding == {"inspecting", "probing", "clearing", "replacing", "rewriting", "acquired", "refused",
             "broken"}
Places == {"idle", "contending", "gone"} \cup Holding \cup Writing \cup Guarding

Alive(r) == ProcessOf[r] \notin dead

LeaseTypeOK ==
    /\ lock \in {Absent} \cup Runners
    /\ written \in BOOLEAN /\ expired \in BOOLEAN
    /\ guard \in {Absent} \cup Runners
    /\ seen \in {Absent} \cup Runners
    /\ at \in [Runners -> Places]
    /\ beat \in [Runners -> {"quiet", "renewing", "lost", "failed"}]
    /\ dead \subseteq Processes

LeaseInit ==
    /\ lock = Absent /\ written = FALSE /\ expired = FALSE /\ guard = Absent /\ seen = Absent
    /\ at = [r \in Runners |-> "idle"]
    /\ beat = [r \in Runners |-> "quiet"]
    /\ dead = {}

Move(r, from, to) == at[r] = from /\ at' = [at EXCEPT ![r] = to]
-----------------------------------------------------------------------------
(* Taking the lock: putNew, and tryRecover when the file exists.           *)

\* open(file, "wx")
CreateFor(r) == lock' = r /\ written' = FALSE /\ expired' = FALSE

PutNew(r) ==
    /\ Alive(r)
    /\ \/ lock = Absent /\ CreateFor(r) /\ Move(r, "idle", "writing")
       \/ lock # Absent /\ UNCHANGED <<lock, written, expired>> /\ Move(r, "idle", "contending")
    /\ UNCHANGED <<seen, guard, beat, dead>>

\* The content goes to the file that was created, if it is still in place.
WriteLease(r) ==
    /\ Alive(r)
    /\ Move(r, "writing", "task") \/ Move(r, "rewriting", "acquired")
    /\ written' = (written \/ lock = r)
    /\ UNCHANGED <<seen, lock, expired, guard, beat, dead>>

\* writeFile, sync or close throws: the file that was created stays, with its content or not.
WriteFails(r) ==
    /\ Alive(r)
    /\ Move(r, "writing", "idle") \/ Move(r, "rewriting", "broken")
    /\ written' \in {written, written \/ lock = r}
    /\ UNCHANGED <<seen, lock, expired, guard, beat, dead>>

\* Whatever keeps the guard from being created refuses the lock.
OpenGuard(r) ==
    /\ Alive(r)
    /\ \/ guard = Absent /\ guard' = r /\ Move(r, "contending", "inspecting")
       \/ UNCHANGED guard /\ Move(r, "contending", "idle")
    /\ UNCHANGED <<seen, lock, written, expired, beat, dead>>

\* readLease in tryRecover: only a complete lease that is past its time is looked into.
InspectLease(r) ==
    /\ Alive(r)
    /\ \/ /\ lock \in Runners /\ written /\ expired
          /\ seen' = lock /\ Move(r, "inspecting", "probing")
       \/ UNCHANGED seen /\ Move(r, "inspecting", "refused")
    /\ UNCHANGED <<lock, written, expired, guard, beat, dead>>

\* Mutant: the time to live alone decides.
OwnerOutlived == TRUE

\* kill(pid, 0) finds no process.
OwnerExited == ProcessOf[seen] \in dead

\* The process id of a dead owner may be another process's by now, which refuses too.  The
\* file may have changed since it was read: nothing looks at it again.
ProbeOwner(r) ==
    /\ Alive(r)
    /\ \/ Move(r, "probing", "clearing") /\ OwnerExited /\ UNCHANGED seen
       \/ Move(r, "probing", "refused") /\ seen' = Absent
    /\ UNCHANGED <<lock, written, expired, guard, beat, dead>>

\* rm(file), which throws when there is none or it cannot be removed.
ClearLease(r) ==
    /\ Alive(r)
    /\ \/ /\ lock # Absent /\ Move(r, "clearing", "replacing")
          /\ lock' = Absent /\ written' = FALSE /\ expired' = FALSE
       \/ Move(r, "clearing", "broken") /\ UNCHANGED <<lock, written, expired>>
    /\ seen' = Absent
    /\ UNCHANGED <<guard, beat, dead>>

\* A caller of run may have created the file since the old one was removed.
ReplaceLease(r) ==
    /\ Alive(r)
    /\ \/ lock = Absent /\ CreateFor(r) /\ Move(r, "replacing", "rewriting")
       \/ /\ UNCHANGED <<lock, written, expired>>
          /\ Move(r, "replacing", IF lock = Absent THEN "broken" ELSE "refused")
    /\ UNCHANGED <<seen, guard, beat, dead>>

\* Mutant: run goes on although tryRecover answered false.
DropGuardRegardless(r) ==
    /\ Alive(r)
    /\ Move(r, "acquired", "task") \/ Move(r, "refused", "task")
    /\ guard' = Absent
    /\ UNCHANGED <<seen, lock, written, expired, beat, dead>>

\* The finally of tryRecover.  What failed in it before is thrown again.
DropGuard(r) ==
    /\ Alive(r)
    /\ Move(r, "acquired", "task") \/ Move(r, "refused", "idle") \/ Move(r, "broken", "idle")
    /\ guard' = Absent
    /\ UNCHANGED <<seen, lock, written, expired, beat, dead>>

\* Its own close or rm throws: the guard stays, and so does a lock that was taken.
GuardStays(r) ==
    /\ Alive(r)
    /\ \E place \in {"acquired", "refused", "broken"} : Move(r, place, "idle")
    /\ UNCHANGED <<seen, lock, written, expired, guard, beat, dead>>
-----------------------------------------------------------------------------
(* The heartbeat (renew), which runs beside the task.                      *)

\* A lease that cannot be read, is another's or is past its time is lost.
RenewReads(r) ==
    /\ Alive(r) /\ at[r] = "task" /\ beat[r] = "quiet"
    /\ \/ lock = r /\ written /\ ~expired /\ beat' = [beat EXCEPT ![r] = "renewing"]
       \/ beat' = [beat EXCEPT ![r] = "lost"]
    /\ UNCHANGED <<seen, lock, written, expired, guard, at, dead>>

\* The rename.  The temporary file may fail before it, and its removal after it.
RenewWrites(r) ==
    /\ Alive(r) /\ beat[r] = "renewing"
    /\ \/ /\ lock' = r /\ written' = TRUE /\ expired' = FALSE
          /\ \E end \in {"quiet", "failed"} : beat' = [beat EXCEPT ![r] = end]
       \/ beat' = [beat EXCEPT ![r] = "failed"] /\ UNCHANGED <<lock, written, expired>>
    /\ UNCHANGED <<seen, guard, at, dead>>
-----------------------------------------------------------------------------
(* The end of run: the task is over, no new heartbeat starts, the one      *)
(* under way is awaited, the file is read back and removed.                *)

EndTask(r) ==
    /\ Alive(r) /\ Move(r, "task", "ending")
    /\ UNCHANGED <<seen, lock, written, expired, guard, beat, dead>>

\* A lease that cannot be read, or is another's, is left where it is.
ReadBack(r) ==
    /\ Alive(r) /\ beat[r] # "renewing"
    /\ (lock = r /\ written /\ Move(r, "ending", "unlinking")) \/ Move(r, "ending", "idle")
    /\ beat' = [beat EXCEPT ![r] = "quiet"]
    /\ UNCHANGED <<seen, lock, written, expired, guard, dead>>

Unlink(r) ==
    /\ Alive(r) /\ Move(r, "unlinking", "idle")
    /\ lock' = Absent /\ written' = FALSE /\ expired' = FALSE
    /\ UNCHANGED <<seen, guard, beat, dead>>

UnlinkFails(r) ==
    /\ Alive(r) /\ Move(r, "unlinking", "idle")
    /\ UNCHANGED <<seen, lock, written, expired, guard, beat, dead>>
-----------------------------------------------------------------------------
(* The environment: time passes, and a process dies with what it runs.     *)

Expire ==
    /\ lock \in Runners /\ ~expired /\ expired' = TRUE
    /\ UNCHANGED <<seen, lock, written, guard, at, beat, dead>>

Die(p) ==
    /\ p \notin dead /\ dead' = dead \cup {p}
    /\ at' = [r \in Runners |-> IF ProcessOf[r] = p THEN "gone" ELSE at[r]]
    /\ beat' = [r \in Runners |-> IF ProcessOf[r] = p THEN "quiet" ELSE beat[r]]
    /\ UNCHANGED <<seen, lock, written, expired, guard>>

LeaseStep(r) ==
    \/ PutNew(r) \/ WriteLease(r) \/ WriteFails(r)
    \/ OpenGuard(r) \/ InspectLease(r) \/ ProbeOwner(r)
    \/ ClearLease(r) \/ ReplaceLease(r) \/ DropGuard(r) \/ GuardStays(r)
    \/ RenewReads(r) \/ RenewWrites(r)
    \/ EndTask(r) \/ ReadBack(r) \/ Unlink(r) \/ UnlinkFails(r)

LeaseNext == Expire \/ (\E p \in Processes : Die(p)) \/ (\E r \in Runners : LeaseStep(r))

LeaseSpec == LeaseInit /\ [][LeaseNext]_leaseVars
-----------------------------------------------------------------------------
\* The runner whose task runs.
Inside == IF \E r \in Runners : at[r] = "task" THEN CHOOSE r \in Runners : at[r] = "task" ELSE Absent

Exclusive == INSTANCE ExclusiveRun WITH Nobody <- Absent, inside <- Inside

\* Whoever is about to remove a lock file as a dead owner's is about to remove the one it
\* read.  The code does not see to it: a third runner may have created the file since.
RecoversWhatItRead == \A r \in Runners : at[r] = "clearing" => lock \in {seen, Absent}

\* Two tasks never run under one lock, whatever dies and whoever recovers
\* ("prevents two recoverers from deleting each other's newly acquired lock").
OneRunAtATime == \A r, s \in Runners : at[r] \in Holding /\ at[s] \in Holding => r = s

\* A lock leaves its owner's hands when the owner removes it after its task, or when the
\* owner's process is dead ("No lock is reclaimed on TTL alone").
OnlyDeadOwnersAreReplaced ==
    [][\A r \in Runners : lock = r /\ lock' # r => at[r] = "unlinking" \/ ~Alive(r)]_leaseVars
=============================================================================
