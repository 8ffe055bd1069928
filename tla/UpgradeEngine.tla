---------------------------- MODULE UpgradeEngine ----------------------------
(***************************************************************************)
(* The upgrade engine of tools/upgrade_engine.py: a write-ahead journal of *)
(* eight phases and at most one rollback per operation, together with the  *)
(* rollback control rows of tools/rollback_control_store.py and the        *)
(* production phase adapters.                                              *)
(*                                                                         *)
(* A process may be killed between any two writes.  The engine lock is the *)
(* only thing an apply holds throughout; the control store's lock is held  *)
(* throughout a rollback, but by an apply only inside a single call, so    *)
(* the barrier session may be lost in the middle of a phase.               *)
(***************************************************************************)
EXTENDS SessionView, Naturals, Sequences, FiniteSets

CONSTANTS
    Ops,          \* operations, named by the state revision they upgrade from
    Procs,        \* processes that run the engine
    Backend,      \* "git" or "sqlite"
    None,
    MaxFaults     \* bound on crashes, failing commits, failing rereads, fencings of the
                  \* session, board writes in a held one

ASSUME UpgradeAssumption ==
    /\ Ops \subseteq Nat \ {0} /\ IsFiniteSet(Ops)
    /\ None \notin Nat
    /\ Backend \in {"git", "sqlite"}
    /\ MaxFaults \in Nat

VARIABLES
    journal,      \* journal file of each operation
    barrier,      \* table barrier: the status of each operation's control row; its revision
                  \* only serves to refuse a stale writer, who then changes nothing
    fence,        \* the barrier session: its attempt and its status (0: none), and whether
                  \* the authority moved on since it was acquired
    lifecycle,    \* lifecycle journal: the backup step projected to the executor
    backup,       \* whether the backup of each operation was published
    proc,         \* where each process is
    begun,        \* how often the effect of a phase was started
    landed,       \* whether a commit landed while the fence was held
    faults

world == <<backup, begun, landed>>
vars == <<journal, barrier, fence, lifecycle, proc, faults, world>>

PHASES == <<"discover", "preflight", "quiesce", "backup", "stage", "commit",
            "validate", "reopen">>

Idle == [at |-> "idle"]

\* _exclusive: one lock file for all the journals of a directory
EngineFree == \A p \in Procs : proc[p] = Idle

\* program points at which a rollback owns the control store's operation lock
Releasing == {"restoring", "restored", "release", "authorize", "complete", "finish"}
ControlFree == \A p \in Procs : proc[p].at \notin Releasing

At(p, point) == proc[p].at = point
Goto(p, point, op) == proc' = [proc EXCEPT ![p] = [at |-> point, op |-> op]]
Leave(p) == proc' = [proc EXCEPT ![p] = Idle]

Fault == faults < MaxFaults /\ faults' = faults + 1

Held(op) == fence.op = op /\ fence.status = "held"

\* is_admitted, LockDomainScope.hold: held, and the authority still has the
\* revision it had when the session was acquired
Admitted(op) == Held(op) /\ ~ fence.drifted

Record(op) == journal[op]
Phase(op) == PHASES[Len(Record(op).outs)]
LastOutcome(op) == Record(op).outs[Len(Record(op).outs)]

Init ==
    /\ journal = [op \in Ops |-> None]
    /\ barrier = [op \in Ops |-> None]
    /\ fence = [op |-> 0, status |-> "released", drifted |-> FALSE]
    /\ lifecycle = None
    /\ backup = [op \in Ops |-> "none"]
    /\ proc = [p \in Procs |-> Idle]
    /\ begun = [op \in Ops |-> [step \in {PHASES[i] : i \in 1..8} \union {"rollback"} |-> 0]]
    /\ landed = [op \in Ops |-> {}]
    /\ faults = 0

-----------------------------------------------------------------------------
(* _load: what the engine accepts of a journal it finds.                     *)

\* verify_rollback_context: an ambiguous or missing control row verifies nothing
Verified_Held(op) ==
    barrier[op] \in {"held", "released"}
Verified(op) ==
    barrier[op] \in {"held", "releasing", "released"}

RollbackLoads(j, op) ==
    /\ j.rollback \in {"none", "started", "verified", "completed", "ambiguous"}
    /\ j.rollback # "none" => Verified(op)

PhasesLoad(j) ==
    /\ Len(j.outs) <= Len(PHASES)
    /\ \A i \in DOMAIN j.outs : j.outs[i] \in {"started", "success", "failed", "ambiguous"}

StatusLoads(j) ==
    LET last == IF j.outs = <<>> THEN "none" ELSE j.outs[Len(j.outs)]
    IN  CASE j.status = "planned" -> j.outs = <<>> /\ j.rollback = "none"
          [] j.status = "running" -> last \in {"started", "success"}
          [] j.status = "failed" -> j.outs # <<>> /\ j.rollback # "completed"
          [] j.status = "safe-mode" ->
                 j.outs # <<>> /\ j.rollback \notin {"verified", "completed"}
          [] j.status = "completed" ->
                 /\ Len(j.outs) = Len(PHASES) /\ j.rollback = "none"
                 /\ \A i \in DOMAIN j.outs : j.outs[i] = "success"
          [] j.status = "rolled-back" -> j.rollback = "completed"

\* a finished rollback is loaded only while its control row still says so
FinishLoads(j, op) ==
    j.status = "rolled-back" => barrier[op] \in {"releasing", "released"}

Loads(op) ==
    /\ Record(op) # None
    /\ RollbackLoads(Record(op), op)
    /\ PhasesLoad(Record(op))
    /\ StatusLoads(Record(op))
    /\ FinishLoads(Record(op), op)

-----------------------------------------------------------------------------
(* The journal of a forward upgrade.                                         *)

Plan(op) ==
    /\ EngineFree
    /\ Record(op) = None
    /\ journal' = [journal EXCEPT ![op] =
                      [status |-> "planned", outs |-> <<>>, rollback |-> "none"]]
    /\ UNCHANGED <<barrier, fence, lifecycle, proc, faults, world>>

\* what _apply_locked refuses: a terminal journal, a rollback, a started phase
Resumable(op) ==
    /\ Record(op).status \in {"planned", "running"}
    /\ Record(op).rollback = "none"
    /\ Record(op).outs # <<>> => LastOutcome(op) # "started"

\* build_production_phase_binding and bind_production_phase_effects: the engine and
\* its commit capability are bound to a live session before it is asked to apply
EngineBound(op) == Admitted(op)
EffectsBound(op) == Admitted(op)

StartApply(p, op) ==
    /\ EngineFree
    /\ EngineBound(op) /\ EffectsBound(op)
    /\ Loads(op)
    /\ Resumable(op)
    /\ Goto(p, "next", op)
    /\ UNCHANGED <<journal, barrier, fence, lifecycle, faults, world>>

\* the started record is durable before anything of the phase happens
BeginPhase(p) ==
    LET op == proc[p].op IN
    /\ At(p, "next")
    /\ Len(Record(op).outs) < Len(PHASES)
    /\ journal' = [journal EXCEPT ![op].outs = Append(@, "started"),
                                  ![op].status = "running"]
    /\ Goto(p, "dispatch", op)
    /\ UNCHANGED <<barrier, fence, lifecycle, faults, world>>

Complete(p) ==
    LET op == proc[p].op IN
    /\ At(p, "next")
    /\ Len(Record(op).outs) = Len(PHASES)
    /\ journal' = [journal EXCEPT ![op].status = "completed"]
    /\ Leave(p)
    /\ UNCHANGED <<barrier, fence, lifecycle, faults, world>>

\* snapshot_bound: the evidence is read inside the lock domain of a held session
Admit(p) ==
    LET op == proc[p].op IN
    /\ At(p, "dispatch")
    /\ Admitted(op)
    /\ Goto(p, "admitted", op)
    /\ UNCHANGED <<journal, barrier, fence, lifecycle, faults, world>>

Outcome(op, outcome, status) ==
    journal' = [journal EXCEPT ![op].outs[Len(journal[op].outs)] = outcome,
                               ![op].status = status]

\* an error before the effect begins: the journal names the phase failed
FailPhase(p) ==
    /\ Outcome(proc[p].op, "failed", "failed")
    /\ Leave(p)
    /\ UNCHANGED <<barrier, fence, lifecycle, faults, world>>

\* snapshot_bound raises: the session is not held or the reading fails
SnapshotFails(p) == At(p, "dispatch") /\ FailPhase(p)

\* _admit: the evidence of the snapshot does not admit the phase
Deny(p) == At(p, "admitted") /\ FailPhase(p)

Begin(op, step) == begun' = [begun EXCEPT ![op][step] = @ + 1]

Started(p, step) ==
    LET op == proc[p].op IN
    /\ Begin(op, step)
    /\ Goto(p, "executed", op)
    /\ UNCHANGED <<journal, barrier, fence, lifecycle, backup, landed, faults>>

\* discover, preflight, quiesce, reopen: the evidence is reread in the scope
Observe(p) ==
    /\ At(p, "admitted")
    /\ Phase(proc[p].op) \in {"discover", "preflight", "quiesce", "reopen"}
    /\ Admitted(proc[p].op)
    /\ Started(p, Phase(proc[p].op))

\* stage: the staged runtime is verified against its manifest digest
Stage(p) ==
    /\ At(p, "admitted")
    /\ Phase(proc[p].op) = "stage"
    /\ Started(p, "stage")

\* validate: the retained admission of the runtime is revalidated
Validate(p) ==
    /\ At(p, "admitted")
    /\ Phase(proc[p].op) = "validate"
    /\ Started(p, "validate")

\* _sync_lifecycle_journal: the engine's started record, projected to the executor
Projected(op) == [op |-> op, outcome |-> "started"]

\* ... and the executor's first reading of session and journal
ProjectBackup(p) ==
    LET op == proc[p].op IN
    /\ At(p, "admitted")
    /\ Phase(op) = "backup"
    /\ LastOutcome(op) = "started"
    /\ Admitted(op)
    /\ lifecycle' = Projected(op)
    /\ Goto(p, "projected", op)
    /\ UNCHANGED <<journal, barrier, fence, faults, world>>

\* the second reading, the backup, its restore roundtrip and the step's outcome
\* are one critical section of the control store's lock
JournalCurrent(op) == lifecycle = Projected(op)
PublishBackup(op) ==
    /\ backup' = [backup EXCEPT ![op] = "published"]
    /\ lifecycle' = [lifecycle EXCEPT !.outcome = "success"]

RunBackup(p) ==
    LET op == proc[p].op IN
    /\ At(p, "projected") /\ ControlFree
    /\ Held(op)
    /\ JournalCurrent(op)
    /\ Begin(op, "backup")
    /\ PublishBackup(op)
    /\ Goto(p, "executed", op)
    /\ UNCHANGED <<journal, barrier, fence, landed, faults>>

\* the session changed between the two readings
BackupRefused(p) ==
    LET op == proc[p].op IN
    /\ At(p, "projected")
    /\ ~ Held(op)
    /\ FailPhase(p)

\* the durable commit capability checks its admission and then opens the
\* transaction; the session may be lost in between
PrepareCommit(p) ==
    LET op == proc[p].op IN
    /\ At(p, "admitted")
    /\ Phase(op) = "commit"
    /\ Held(op)
    /\ Goto(p, "committing", op)
    /\ UNCHANGED <<journal, barrier, fence, lifecycle, faults, world>>

\* the effect replaces the authority; the rereader may or may not see it
Land(op) ==
    /\ landed' = [landed EXCEPT ![op] = @ \union {Held(op)}]
    /\ \E seen \in BOOLEAN : fence' = [fence EXCEPT !.drifted = @ \/ (seen /\ fence.status = "held")]

LandCommit(p) ==
    LET op == proc[p].op IN
    /\ At(p, "committing")
    /\ Begin(op, "commit")
    /\ Land(op)
    /\ Goto(p, "landed", op)
    /\ UNCHANGED <<journal, barrier, lifecycle, backup, faults>>

\* an error after the transaction began: nobody knows whether it landed
CommitRaises(p) ==
    LET op == proc[p].op IN
    /\ At(p, "committing")
    /\ Fault
    /\ Begin(op, "commit")
    /\ Land(op) \/ UNCHANGED <<landed, fence>>
    /\ Outcome(op, "ambiguous", "safe-mode")
    /\ Leave(p)
    /\ UNCHANGED <<barrier, lifecycle, backup>>

\* the effect's outcome is recorded against the session it was prepared under,
\* and on Git the binding is issued anew for the new head
Confirmed(op) == IF Backend = "git" THEN Admitted(op) ELSE Held(op)

ConfirmCommit_Trusting(p) ==
    LET op == proc[p].op IN
    /\ At(p, "landed")
    /\ Goto(p, "executed", op)
    /\ UNCHANGED <<journal, barrier, fence, lifecycle, faults, world>>
ConfirmCommit(p) ==
    LET op == proc[p].op IN
    /\ At(p, "landed")
    /\ \/ Confirmed(op) /\ Goto(p, "executed", op) /\ UNCHANGED journal
       \/ ~ Confirmed(op) /\ Outcome(op, "ambiguous", "safe-mode") /\ Leave(p)
    /\ UNCHANGED <<barrier, fence, lifecycle, faults, world>>

Succeed(p) ==
    LET op == proc[p].op IN
    /\ At(p, "executed")
    /\ Outcome(op, "success", "running")
    /\ Goto(p, "next", op)
    /\ UNCHANGED <<barrier, fence, lifecycle, faults, world>>

\* an exception, missing evidence, a foreign backend or fencing token, a denied
\* admission ("failed"), or an outcome the adapter itself calls ambiguous
Fail(p) ==
    /\ At(p, "executed")
    /\ Fault
    /\ \/ Outcome(proc[p].op, "failed", "failed")
       \/ Outcome(proc[p].op, "ambiguous", "safe-mode")
    /\ Leave(p)
    /\ UNCHANGED <<barrier, fence, lifecycle, world>>

-----------------------------------------------------------------------------
(* Rollback: the engine's part of it.  The restore itself is the backend     *)
(* adapter's and is external: an engine with a bound rollback phase adapter  *)
(* refuses every rollback ("public rollback dispatch is disabled"), and so   *)
(* does one whose adapter does not verify the rollback context, which the    *)
(* Git and SQLite adapters do not.  Such a refusal changes nothing and is no *)
(* step.  The durable rollback capability and its unlocked effect are        *)
(* modelled in BarrierSession.                                               *)

RollbackStatuses == {"failed", "running", "safe-mode"}

\* A rollback is begun once: a started or ambiguous one needs reconciliation.
Beginnable_Again(op) == Record(op).rollback \in {"none", "started"}
Beginnable(op) == Record(op).rollback = "none"

StartRollback(p, op) ==
    /\ EngineFree
    /\ Verified(op) /\ Loads(op)
    /\ Record(op).status \in RollbackStatuses
    /\ Beginnable(op)
    /\ journal' = [journal EXCEPT ![op].rollback = "started"]
    /\ Goto(p, "restoring", op)
    /\ UNCHANGED <<barrier, fence, lifecycle, faults, world>>

ResumeRollback(p, op) ==
    /\ EngineFree
    /\ Verified(op) /\ Loads(op)
    /\ Record(op).status \in RollbackStatuses
    /\ Record(op).rollback = "verified"
    /\ Goto(p, "release", op)
    /\ UNCHANGED <<journal, barrier, fence, lifecycle, faults, world>>

\* execute("rollback"): the adapter restores, or fails on the way; the engine keeps the
\* control store's lock meanwhile
Restore(p) ==
    LET op == proc[p].op IN
    /\ At(p, "restoring")
    /\ Begin(op, "rollback")
    /\ Goto(p, "restored", op)
    /\ UNCHANGED <<journal, barrier, fence, lifecycle, backup, landed, faults>>

RollbackOutcome(op, outcome, status) ==
    journal' = [journal EXCEPT ![op].rollback = outcome, ![op].status = status]

\* the adapter rejects the effect before it starts; a durable capability always does,
\* for the control store's lock, which the engine owns, is not reentrant
RejectRestore(p) ==
    /\ At(p, "restoring")
    /\ RollbackOutcome(proc[p].op, "failed", "failed")
    /\ Leave(p)
    /\ UNCHANGED <<barrier, fence, lifecycle, faults, world>>

VerifyRestore(p) ==
    LET op == proc[p].op IN
    /\ At(p, "restored")
    /\ RollbackOutcome(op, "verified", Record(op).status)
    /\ Goto(p, "release", op)
    /\ UNCHANGED <<barrier, fence, lifecycle, faults, world>>

DoubtRestore(p) ==
    /\ At(p, "restored")
    /\ Fault
    /\ RollbackOutcome(proc[p].op, "ambiguous", "safe-mode")
    /\ Leave(p)
    /\ UNCHANGED <<barrier, fence, lifecycle, world>>

\* what a control row may be after its commit raised
Uncertain(op, status) == {barrier[op], status, "ambiguous"}

\* _begin_release_locked, when the row is still held
BeginRelease(p) ==
    LET op == proc[p].op IN
    /\ At(p, "release")
    /\ \/ /\ barrier[op] = "held"
          /\ \/ /\ barrier' = [barrier EXCEPT ![op] = "releasing"]
                /\ Goto(p, "authorize", op) /\ UNCHANGED faults
             \/ /\ Fault /\ Leave(p)
                /\ \E new \in Uncertain(op, "releasing") : barrier' = [barrier EXCEPT ![op] = new]
       \/ /\ barrier[op] # "held"
          /\ Goto(p, "authorize", op)
          /\ UNCHANGED <<barrier, faults>>
    /\ UNCHANGED <<journal, fence, lifecycle, world>>

\* revalidate_rollback rereads authority and runtime, and only then issues the
\* one-use authorization to release
Authorize(p) ==
    LET op == proc[p].op IN
    /\ At(p, "authorize")
    /\ Goto(p, IF barrier[op] = "releasing" THEN "complete" ELSE "finish", op)
    /\ UNCHANGED <<journal, barrier, fence, lifecycle, faults, world>>

CompleteRelease(p) ==
    LET op == proc[p].op IN
    /\ At(p, "complete")
    /\ barrier[op] = "releasing"
    /\ \/ /\ barrier' = [barrier EXCEPT ![op] = "released"]
          /\ Goto(p, "finish", op) /\ UNCHANGED faults
       \/ /\ Fault /\ Leave(p)
          /\ \E new \in Uncertain(op, "released") : barrier' = [barrier EXCEPT ![op] = new]
    /\ UNCHANGED <<journal, fence, lifecycle, world>>

FinishRollback(p) ==
    LET op == proc[p].op IN
    /\ At(p, "finish")
    /\ RollbackOutcome(op, "completed", "rolled-back")
    /\ Leave(p)
    /\ UNCHANGED <<barrier, fence, lifecycle, faults, world>>

\* the reread of authority or runtime fails
RereadFails(p) ==
    /\ proc[p].at \in {"authorize", "finish"}
    /\ Fault
    /\ Leave(p)
    /\ UNCHANGED <<journal, barrier, fence, lifecycle, world>>

Crash(p) ==
    /\ proc[p] # Idle
    /\ Fault
    /\ Leave(p)
    /\ UNCHANGED <<journal, barrier, fence, lifecycle, world>>

-----------------------------------------------------------------------------
(* The control rows and the session, changed by other callers whenever no    *)
(* rollback owns the control store's lock.                                   *)

HasRow == {op \in Ops : barrier[op] # None}
Active == {op \in HasRow : barrier[op] \in {"held", "releasing"}}

\* _cas_connection of a new row: a newer fence, and no other active barrier
Insertable(op) ==
    /\ barrier[op] = None
    /\ \A other \in HasRow : op > other
    /\ Active = {}

\* _cas_connection: the commit, or an uncertain commit that is then fenced
CommitRow(op, status) ==
    /\ \/ barrier' = [barrier EXCEPT ![op] = status] /\ UNCHANGED faults
       \/ /\ Fault
          /\ \E new \in Uncertain(op, status) : barrier' = [barrier EXCEPT ![op] = new]
    /\ UNCHANGED <<journal, fence, lifecycle, proc, world>>

InsertRow(op) ==
    /\ ControlFree /\ Held(op)
    /\ Insertable(op)
    /\ CommitRow(op, "held")

\* STATUS_TRANSITIONS
Transitions(status) ==
    CASE status = "held"      -> {"held", "releasing", "ambiguous"}
      [] status = "releasing" -> {"releasing", "released", "ambiguous"}
      [] status = "released"  -> {"released"}
      [] OTHER                -> {}

\* control_cas: any transition of the row, the release included
CasRow(op, status) ==
    /\ ControlFree /\ Held(op)
    /\ barrier[op] # None
    /\ status \in Transitions(barrier[op])
    /\ CommitRow(op, status)

\* control_complete_release: the session of the operation is held or being reopened; the
\* evidence of a restore is the caller's word, and no journal is read
ReleaseRow(op) ==
    /\ ControlFree
    /\ fence.op = op /\ fence.status \in {"held", "releasing"}
    /\ barrier[op] = "releasing"
    /\ CommitRow(op, "released")

\* reconcile_ambiguous: a new operation takes over from an ambiguous row
ReconcileRow(op, new) ==
    /\ ControlFree
    /\ barrier[op] = "ambiguous"
    /\ new > op /\ Insertable(new)
    /\ CommitRow(new, "held")

\* create_session, or the reconciliation of an ambiguous one
AcquireFence(op) ==
    /\ ControlFree
    /\ fence.status \in {"released", "ambiguous"} /\ op > fence.op
    /\ fence' = [op |-> op, status |-> "held", drifted |-> FALSE]
    /\ UNCHANGED <<journal, barrier, lifecycle, proc, faults, world>>

\* session_mark_ambiguous, _mark_ambiguous_after_commit_failure: a session is fenced
\* because an outcome is uncertain
Fencing(status) == IF status = "ambiguous" THEN Fault ELSE UNCHANGED faults

\* provision_released, or a first commit that was uncertain and then fenced
ProvisionFence(op) ==
    /\ ControlFree
    /\ fence.op = 0
    /\ \E s \in FirstStatuses \ {"held"} :
          fence' = [op |-> op, status |-> s, drifted |-> FALSE] /\ Fencing(s)
    /\ UNCHANGED <<journal, barrier, lifecycle, proc, world>>

\* the session is reopened or marked ambiguous under a running apply; whether the
\* authority moved on is asked of a held session only
LoseFence ==
    /\ ControlFree
    /\ fence.op # 0
    /\ \E s \in StatusAfter(fence.status) :
          fence' = [fence EXCEPT !.status = s, !.drifted = FALSE] /\ Fencing(s)
    /\ UNCHANGED <<journal, barrier, lifecycle, proc, world>>

\* a board write inside a held session counts as a fault: on Git no command takes the
\* fence, on SQLite a writer that was not provisioned takes none
BoardWrite ==
    /\ fence.status = "held" /\ ~ fence.drifted
    /\ Fault
    /\ fence' = [fence EXCEPT !.drifted = TRUE]
    /\ UNCHANGED <<journal, barrier, lifecycle, proc, world>>

-----------------------------------------------------------------------------
Forward(p) ==
    \/ BeginPhase(p) \/ Complete(p) \/ Admit(p) \/ SnapshotFails(p) \/ Deny(p)
    \/ Observe(p) \/ Stage(p) \/ Validate(p)
    \/ ProjectBackup(p) \/ RunBackup(p) \/ BackupRefused(p)
    \/ PrepareCommit(p) \/ LandCommit(p) \/ CommitRaises(p) \/ ConfirmCommit(p)
    \/ Succeed(p) \/ Fail(p)

Backward(p) ==
    \/ Restore(p) \/ RejectRestore(p) \/ VerifyRestore(p) \/ DoubtRestore(p)
    \/ BeginRelease(p) \/ Authorize(p) \/ CompleteRelease(p) \/ FinishRollback(p)
    \/ RereadFails(p)

Control ==
    \/ \E op \in Ops : InsertRow(op) \/ ReleaseRow(op) \/ AcquireFence(op) \/ ProvisionFence(op)
    \/ \E op \in Ops, status \in {"held", "releasing", "released", "ambiguous"} : CasRow(op, status)
    \/ \E op, new \in Ops : ReconcileRow(op, new)
    \/ LoseFence \/ BoardWrite

Next ==
    \/ \E op \in Ops : Plan(op)
    \/ \E p \in Procs :
          \/ \E op \in Ops : StartApply(p, op) \/ StartRollback(p, op) \/ ResumeRollback(p, op)
          \/ Forward(p) \/ Backward(p) \/ Crash(p)
    \/ Control

\* A process that has the engine lock goes on, and an operator repeats the
\* rollback command until a verified restore has been released.
Fairness ==
    /\ WF_vars(\E p \in Procs : Forward(p) \/ Backward(p))
    /\ \A op \in Ops : WF_vars(\E p \in Procs : ResumeRollback(p, op))

Spec == Init /\ [][Next]_vars /\ Fairness

-----------------------------------------------------------------------------
Journals ==
    [status : {"planned", "running", "failed", "safe-mode", "completed", "rolled-back"},
     outs : Seq({"started", "success", "failed", "ambiguous"}),
     rollback : {"none", "started", "verified", "completed", "ambiguous", "failed"}]
Rows == {"held", "releasing", "released", "ambiguous"}

\* An absent journal or control row is told from every present one.
ASSUME NoneAssumption == None \notin Journals \union Rows

\* Every journal, control row and program point has its shape; in particular no
\* journal has more phase records than there are phases.
TypeOK ==
    /\ \A op \in Ops : journal[op] # None =>
          journal[op] \in Journals /\ Len(journal[op].outs) <= Len(PHASES)
    /\ \A op \in HasRow : barrier[op] \in Rows
    /\ fence.op \in Ops \union {0}
    /\ \A p \in Procs : proc[p] = Idle \/ proc[p].op \in Ops
    /\ faults \in 0..MaxFaults

\* No phase of an operation, and no restore of it, is ever started a second
\* time: not by the process that was killed in the middle of it, not by a
\* second process, and not by an operator who repeats apply or rollback.
EffectsAtMostOnce == \A op \in Ops : \A step \in DOMAIN begun[op] : begun[op][step] <= 1

\* A commit the journal calls a success landed while the operation's session was
\* held, although the session is not locked while the commit runs.
CommitInsideFence ==
    \A op \in Ops :
        /\ journal[op] # None /\ Len(journal[op].outs) >= 6
        /\ journal[op].outs[6] = "success"
        => landed[op] = {TRUE}

\* The terminal cross-products: a completed upgrade was never restored, and a
\* rolled-back one was restored and has its control row released or fenced.
TerminalStates ==
    \A op \in Ops : journal[op] # None =>
        /\ journal[op].status = "completed" =>
              begun[op]["commit"] = 1 /\ begun[op]["rollback"] = 0
              /\ backup[op] = "published"
        /\ journal[op].status = "rolled-back" =>
              begun[op]["rollback"] = 1 /\ barrier[op] \in {"released", "ambiguous"}

\* The project never has two active barriers.
OneActiveBarrier == Cardinality(Active) <= 1

\* What a journal calls finished happened, once, whoever was killed or repeated a
\* command on the way (_apply_locked, rollback).
PhasesAccounted == EffectsAtMostOnce /\ TerminalStates

\* There is one barrier at a time, through fencings, releases and take-overs, and the
\* commit is made behind the session (_cas_connection, DurableBoundAuthorityMutation).
BarrierKept == OneActiveBarrier /\ CommitInsideFence

\* A commit that landed without a fault, under a session that is held before and
\* after it, is not called ambiguous: the binding advances with the authority.
CommitConfirmed ==
    \A op \in Ops :
        /\ journal[op] # None /\ Len(journal[op].outs) >= 6
        /\ journal[op].outs[6] = "ambiguous"
        => faults > 0 \/ ~ Held(op)

\* A verified restore is released in the end, unless its control row is
\* ambiguous or its journal is one the engine does not load.
VerifiedRollbackFinishes ==
    \A op \in Ops :
        (journal[op] # None /\ journal[op].rollback = "verified") ~>
            /\ journal[op] # None /\ barrier[op] # None
            /\ \/ journal[op].status = "rolled-back"
               \/ barrier[op] = "ambiguous"
               \/ ~ StatusLoads(journal[op])
=============================================================================
