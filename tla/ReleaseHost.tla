----------------------------- MODULE ReleaseHost -----------------------------
(***************************************************************************)
(* createTrustedOracleReleaseHost (release-trusted-host.ts): the only way  *)
(* into ReleaseExecutor.  A call names the last_seq it expects, asks an    *)
(* asynchronous policy, compares again, and only then advances the run; a  *)
(* second call for the run is turned away while one is in progress.        *)
(*                                                                         *)
(* The ledger may have other writers in the process meanwhile: here,       *)
(* another actor that starts the run.                                      *)
(***************************************************************************)
EXTENDS ReleaseExecutor

CONSTANT NoSnapshot

VARIABLE
    snapshot        \* what each call, while it waits for the policy, was admitted on

hostVars == <<allVars, snapshot>>

\* activeRuns.has(runId)
ActiveRun == \E c \in Callers : snapshot[c] # NoSnapshot \/ call[c].pc # "idle"

HostInit == ExecInit /\ snapshot = [c \in Callers |-> NoSnapshot]

\* Mutant: calls are not kept apart.
HostAdvanceUnlocked(c) ==
    /\ Runs(c, "idle") /\ snapshot[c] = NoSnapshot
    /\ runStatus # "absent"
    /\ snapshot' = [snapshot EXCEPT ![c] = [seq |-> lastSeq, run |-> Visible]]
    /\ UNCHANGED allVars

\* advance() up to the policy's await, for a caller whose expectedLastSeq is the
\* current one; any other is thrown out and leaves no trace.
HostAdvance(c) ==
    /\ Runs(c, "idle") /\ ~ ActiveRun
    /\ runStatus # "absent"
    /\ snapshot' = [snapshot EXCEPT ![c] = [seq |-> lastSeq, run |-> Visible]]
    /\ UNCHANGED allVars

\* The policy denies, or the run moved on: the call throws.
HostRefuses(c) ==
    /\ Runs(c, "idle") /\ snapshot[c] # NoSnapshot
    /\ snapshot' = [snapshot EXCEPT ![c] = NoSnapshot]
    /\ UNCHANGED allVars

\* Mutant: the run is not compared again.
HostAdmitsUnchecked(c) ==
    /\ snapshot[c] # NoSnapshot
    /\ snapshot' = [snapshot EXCEPT ![c] = NoSnapshot]
    /\ Advance(c)

\* The policy allows, the second comparison holds, and the executor runs.
HostAdmits(c) ==
    /\ snapshot[c] # NoSnapshot
    /\ lastSeq = snapshot[c].seq
    /\ snapshot' = [snapshot EXCEPT ![c] = NoSnapshot]
    /\ Advance(c)

OtherWriter ==
    /\ up /\ \A c \in Callers : call[c].pc \notin {"loop", "gate"}
    /\ StartRun
    /\ UNCHANGED <<execVars, snapshot>>

HostCrash ==
    /\ Crash
    /\ snapshot' = [c \in Callers |-> NoSnapshot]

HostNext ==
    \/ Create /\ UNCHANGED snapshot
    \/ OtherWriter
    \/ \E c \in Callers : \/ HostAdvance(c)
                          \/ HostRefuses(c)
                          \/ HostAdmits(c)
                          \/ Proceed(c) /\ UNCHANGED snapshot
    \/ HostCrash
    \/ Restart /\ UNCHANGED snapshot
    \/ WorldStep /\ UNCHANGED snapshot

HostSpec == HostInit /\ [][HostNext]_hostVars
------------------------------------------------------------------------------
Entering(c) == call[c].pc = "idle" /\ call'[c].pc = "loop"

\* "an intervening caller must not inherit stale permission or state": a call
\* enters the executor only on exactly the run the policy saw, although the
\* second comparison looks at nothing but last_seq and a run may be started,
\* recovered or lost from memory while the policy is being asked.
AdmittedOnCurrentRun ==
    [][\A c \in Callers : Entering(c) => snapshot[c].run = Visible]_hostVars

\* Through the host, the observation a call reconciles with is never made stale
\* by another call: a reconciliation is refused only for a key already spent on
\* an earlier attempt, never for an operation somebody else concluded.
ReconcilesOwnOperation ==
    \A c \in Callers : call[c].pc \in {"reconciling", "observed"} =>
        LatestIs(call[c].step, "outcome_unknown")
=============================================================================
