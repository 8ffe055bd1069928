----------------------------- MODULE TaskBoard -----------------------------
(***************************************************************************)
(* The coordinator's task board: the metadata of every task and the        *)
(* lifecycle mutations of tools/handoffctl.py (apply_claim ... apply_gate) *)
(* and tools/execution_lifecycle.py.  Every mutation is one atomic step:   *)
(* it runs under the coordinator lock (Git authority) or inside one        *)
(* BEGIN IMMEDIATE transaction (SQLite authority), advances the revision   *)
(* of its task by one, and is kept only when the resulting board passes    *)
(* the post-write validation (ValidBoard).                                 *)
(*                                                                         *)
(* Two clocks of the real world are part of the state: the wall clock,     *)
(* against which leases and execution fences expire, and the set of worker *)
(* processes that are alive in the current boot of the host.               *)
(***************************************************************************)
EXTENDS Integers, FiniteSets

CONSTANTS
    Tasks,          \* task identifiers
    Owners,         \* coordinator owners
    Workers,        \* worker process identities (pid and start time)
    Branches,       \* product branches
    Worktrees,      \* product worktree keys
    Leases,         \* lease and reservation lengths a caller may ask for
    ReleaseStatuses,\* statuses a caller may release to
    DependsOn,      \* depends_on of each task
    ParentOf,       \* parent_task_ref of each task, or None
    SupersededBy,   \* superseded_by of each task, or None
    InitialStatus,  \* status of each task in the imported board
    InitialBranch,  \* branch declared in the imported board, or None
    InitialWorktree,\* worktree_key declared in the imported board, or None
    InitialCheckpoints, \* checkpoint records of the imported board
    Backend,        \* "git" or "sqlite": the selected authority
    GatedTasks,     \* bound: the tasks that interaction gates are opened on
    MaxRevision,    \* bound on task revisions
    MaxTime,        \* bound on the wall clock
    MaxBoots,       \* bound on host reboots
    MaxAbandonments,\* execution_abandonment.MAX_RECORDS
    None            \* the absent value

Statuses ==
    {"in_progress", "open", "blocked", "planned", "future",
     "done", "cancelled", "superseded"}

TerminalChildStatuses == {"done", "cancelled", "superseded"}

Snapshot == [branch : Branches \cup {None}, worktree : Worktrees \cup {None},
             accepted : BOOLEAN]

ASSUME ConstantsAssumption ==
    /\ None \notin Tasks \cup Owners \cup Workers \cup Branches \cup Worktrees
    /\ IsFiniteSet(Tasks)
    /\ Leases \subseteq Nat \ {0}
    /\ ReleaseStatuses \subseteq Statuses \ {"in_progress"}
    /\ DependsOn \in [Tasks -> SUBSET Tasks]
    /\ ParentOf \in [Tasks -> Tasks \cup {None}]
    /\ SupersededBy \in [Tasks -> Tasks \cup {None}]
    /\ InitialStatus \in [Tasks -> Statuses \ {"in_progress"}]
    /\ InitialBranch \in [Tasks -> Branches \cup {None}]
    /\ InitialWorktree \in [Tasks -> Worktrees \cup {None}]
    /\ InitialCheckpoints \in [Tasks -> SUBSET Snapshot]
    /\ Backend \in {"git", "sqlite"}
    /\ MaxRevision \in Nat /\ MaxTime \in Nat /\ MaxBoots \in Nat
    /\ MaxAbandonments \in Nat

ASSUME GatedAssumption == GatedTasks \subseteq Tasks

\* Whether the walk along superseded_by from d reaches a done task.  From a
\* superseded one it does when every set the walk could have seen, d and the
\* successor of each superseded member, holds a done task: a chain that stops
\* elsewhere or runs in a circle has seen none.
Satisfied(st, d) ==
    \/ st[d] = "done"
    \/ /\ st[d] = "superseded"
       /\ \A seen \in SUBSET Tasks :
              /\ d \in seen
              /\ \A s \in seen : st[s] = "superseded" /\ SupersededBy[s] # None
                                  => SupersededBy[s] \in seen
              => \E s \in seen : st[s] = "done"

\* The imported board has passed validate.
ASSUME ImportAssumption ==
    \A t \in Tasks : SupersededBy[t] # None =>
        /\ InitialStatus[t] = "superseded"
        /\ SupersededBy[t] # t
        /\ Satisfied(InitialStatus, SupersededBy[t])

VARIABLES
    status,       \* [Tasks -> Statuses]
    owner,        \* [Tasks -> Owners or None]: the active claim's owner
    expires,      \* [Tasks -> Nat]: claim_expires, 0 when absent
    process,      \* claim_process: the worker identity bound at claim time
    revision,     \* task_revision
    branch,       \* branch
    worktree,     \* worktree_key
    envelope,     \* whether an execution envelope is bound
    fence,        \* execution_reservation
    result,       \* execution_result
    abandoned,    \* execution ids of execution_abandonments
    accepted,     \* whether spec_acceptance records a pass
    gate,         \* oracle_gate: "absent", "unresolved" or "complete"
    session,      \* the newest session record: its revision and trigger
    checkpoints,  \* retained checkpoint records
    blockedBy,    \* history variable: how a task last reached "blocked"
    clock,        \* wall clock
    boot,         \* number of the host's current boot
    alive         \* worker processes alive in this boot

claimVars == <<status, owner, expires, process>>
bindVars  == <<branch, worktree, envelope>>
execVars  == <<fence, result, abandoned>>
evidence  == <<accepted, gate>>
history   == <<session, checkpoints, blockedBy>>
world     == <<clock, boot, alive>>
vars == <<status, owner, expires, process, revision, branch, worktree, envelope,
          fence, result, abandoned, accepted, gate, session, checkpoints,
          blockedBy, clock, boot, alive>>

Identity == [pid : Workers, boot : Nat]
Fence    == [id : Nat, owner : Owners, expires : Nat]
Receipt  == [id : Nat, owner : Owners]
Session  == [at : Nat, trigger : {"none", "update", "pause"}]

\* Every field of every task has the values its schema allows, the fields a
\* transition restores or clears included.
TypeOK ==
    /\ status \in [Tasks -> Statuses]
    /\ owner \in [Tasks -> Owners \cup {None}]
    /\ expires \in [Tasks -> Nat]
    /\ process \in [Tasks -> Identity \cup {None}]
    /\ revision \in [Tasks -> Nat]
    /\ branch \in [Tasks -> Branches \cup {None}]
    /\ worktree \in [Tasks -> Worktrees \cup {None}]
    /\ envelope \in [Tasks -> BOOLEAN]
    /\ fence \in [Tasks -> Fence \cup {None}]
    /\ result \in [Tasks -> Receipt \cup {None}]
    /\ abandoned \in [Tasks -> SUBSET Nat]
    /\ accepted \in [Tasks -> BOOLEAN]
    /\ gate \in [Tasks -> {"absent", "unresolved", "complete"}]
    /\ session \in [Tasks -> Session]
    /\ checkpoints \in [Tasks -> SUBSET Snapshot]
    /\ blockedBy \in [Tasks -> {"never", "pause", "release"}]
    /\ clock \in Nat
    /\ boot \in Nat
    /\ alive \in SUBSET Workers

Init ==
    /\ status = InitialStatus
    /\ owner = [t \in Tasks |-> None]
    /\ expires = [t \in Tasks |-> 0]
    /\ process = [t \in Tasks |-> None]
    /\ revision = [t \in Tasks |-> 1]
    /\ branch = InitialBranch
    /\ worktree = InitialWorktree
    /\ envelope = [t \in Tasks |-> FALSE]
    /\ fence = [t \in Tasks |-> None]
    /\ result = [t \in Tasks |-> None]
    /\ abandoned = [t \in Tasks |-> {}]
    /\ accepted = [t \in Tasks |-> FALSE]
    /\ gate = [t \in Tasks |-> "absent"]
    /\ session = [t \in Tasks |-> [at |-> 0, trigger |-> "none"]]
    /\ checkpoints = InitialCheckpoints
    /\ blockedBy = [t \in Tasks |-> IF InitialStatus[t] = "blocked" THEN "release" ELSE "never"]
    /\ clock = 1
    /\ boot = 0
    /\ alive = Workers

-----------------------------------------------------------------------------
(* What a step reads of the board.                                         *)

Active(t)    == status[t] = "in_progress"
ClaimLive(t) == expires[t] > clock
FenceLive(t) == fence[t] # None /\ fence[t].expires > clock

\* Lifecycle changes refuse an expired reservation as they refuse a live one.
Unfenced_LiveOnly(t) == ~ FenceLive(t)
Unfenced(t) == fence[t] = None

\* A claim-time identity proves absence only inside its own boot.
WorkerAbsent_Unchecked(t) == process[t] # None
WorkerAbsent(t) ==
    /\ process[t] # None
    /\ process[t].boot = boot
    /\ process[t].pid \notin alive

\* Pre-identity claims may be taken over only with an acknowledgement flag.
LegacyAcknowledged(t, legacy) ==
    legacy /\ process[t] = None /\ expires[t] <= clock

\* The execution receipt names the reservation it completes.
ResultMatches_Later(t) ==
    result[t] # None /\ result[t].id > fence[t].id /\ result[t].owner = fence[t].owner
ResultMatches(t) ==
    /\ result[t] # None
    /\ result[t].id = fence[t].id
    /\ result[t].owner = fence[t].owner

SessionAtRevision_AnyRecord(t) == session[t].at > 0
SessionAtRevision(t) == session[t].at = revision[t]

DependencySatisfied(d) == Satisfied(status, d)

DependenciesSatisfied_Closed(t) ==
    \A d \in DependsOn[t] : status[d] \in TerminalChildStatuses
DependenciesSatisfied(t) == \A d \in DependsOn[t] : DependencySatisfied(d)

Children(t) == {c \in Tasks : ParentOf[c] = t}
ChildrenTerminal(t) == \A c \in Children(t) : status[c] \in TerminalChildStatuses

\* An interaction gate that is not complete refuses promote, claim, run
\* and release.
GateAllows(t) == gate[t] # "unresolved"

-----------------------------------------------------------------------------
(* The validation every mutation passes after its write and before its     *)
(* commit.  The Git authority checks it in mutation_errors, the SQLite     *)
(* authority in the table's CHECK constraint and unique partial indexes.   *)

Distinct(f) ==
    \A s, t \in Tasks :
        s # t /\ Active(s) /\ Active(t) /\ f[s] # None => f[s] # f[t]

UniqueActive == Distinct(owner) /\ Distinct(branch) /\ Distinct(worktree)

ClaimShape ==
    \A t \in Tasks :
        IF Active(t) THEN owner[t] # None /\ expires[t] # 0
                     ELSE owner[t] = None /\ expires[t] = 0

SupersessionSound ==
    \A t \in Tasks :
        SupersededBy[t] # None =>
            /\ status[t] = "superseded"
            /\ SupersededBy[t] # t
            /\ DependencySatisfied(SupersededBy[t])

ValidBoard_TaskOnly == ClaimShape /\ SupersessionSound
ValidBoard == ClaimShape /\ UniqueActive /\ SupersessionSound

\* Only the Git authority also rejects a mutation that leaves its task with
\* an expired claim.
LeaseKept_Always(t) == status'[t] = "in_progress" => expires'[t] > clock
LeaseKept(t) == Backend = "git" /\ status'[t] = "in_progress" => expires'[t] > clock

\* Every mutation advances exactly one task by exactly one revision.
Mutation(t) ==
    /\ revision[t] < MaxRevision
    /\ revision' = [revision EXCEPT ![t] = @ + 1]
    /\ UNCHANGED world
    /\ LeaseKept(t)
    /\ ValidBoard'

Set(f, t, v) == [f EXCEPT ![t] = v]

-----------------------------------------------------------------------------
(* Claims.                                                                 *)

Claim(t, o, w, lease) ==
    /\ status[t] = "open"
    /\ DependenciesSatisfied(t)
    /\ GateAllows(t)
    /\ \A s \in Tasks \ {t} : ~ (Active(s) /\ owner[s] = o)
    /\ w # None => w \in alive
    /\ status' = Set(status, t, "in_progress")
    /\ owner' = Set(owner, t, o)
    /\ expires' = Set(expires, t, clock + lease)
    /\ process' = Set(process, t, IF w = None THEN None
                                  ELSE [pid |-> w, boot |-> boot])
    /\ UNCHANGED <<bindVars, execVars, evidence, history>>
    /\ Mutation(t)

\* A heartbeat renews an expired lease too, as long as nobody recovered it.
Heartbeat(t, o, lease) ==
    /\ owner[t] = o
    /\ Unfenced(t)
    /\ Active(t)
    /\ expires' = Set(expires, t, clock + lease)
    /\ UNCHANGED <<status, owner, process, bindVars, execVars, evidence, history>>
    /\ Mutation(t)

\* An update appends a session record at the revision it creates.
Update(t, o) ==
    /\ owner[t] = o
    /\ Unfenced(t)
    /\ session' = Set(session, t, [at |-> revision[t] + 1, trigger |-> "update"])
    /\ UNCHANGED <<claimVars, bindVars, execVars, evidence, checkpoints, blockedBy>>
    /\ Mutation(t)

DropClaim(t, to) ==
    /\ status' = Set(status, t, to)
    /\ owner' = Set(owner, t, None)
    /\ expires' = Set(expires, t, 0)
    /\ process' = Set(process, t, None)

\* Branch and worktree stay declared on the released task.
Release(t, o, to) ==
    /\ owner[t] = o
    /\ Unfenced(t)
    /\ to = "done" => accepted[t] /\ ChildrenTerminal(t)
    /\ GateAllows(t)
    /\ DropClaim(t, to)
    /\ blockedBy' = IF to = "blocked" THEN Set(blockedBy, t, "release") ELSE blockedBy
    /\ UNCHANGED <<bindVars, execVars, evidence, session, checkpoints>>
    /\ Mutation(t)

Pause(t, o) ==
    /\ owner[t] = o
    /\ Unfenced(t)
    /\ Active(t)
    /\ DropClaim(t, "blocked")
    /\ session' = Set(session, t, [at |-> revision[t] + 1, trigger |-> "pause"])
    /\ blockedBy' = Set(blockedBy, t, "pause")
    /\ UNCHANGED <<bindVars, execVars, evidence, checkpoints>>
    /\ Mutation(t)

\* An expired claim is reopened from the session recorded at this very
\* revision, or once its worker is known to be gone.
RecoverExpired(t, legacy) ==
    /\ Unfenced(t)
    /\ Active(t) /\ owner[t] # None
    /\ ~ ClaimLive(t)
    /\ SessionAtRevision(t) \/ LegacyAcknowledged(t, legacy) \/ WorkerAbsent(t)
    /\ DropClaim(t, "open")
    /\ UNCHANGED <<bindVars, execVars, evidence, history>>
    /\ Mutation(t)

-----------------------------------------------------------------------------
(* Unclaimed tasks.  On the Git authority promote, resume and unblock also *)
(* ask for a clean state checkout, which every completed mutation leaves.  *)

Reopen(t) ==
    /\ owner[t] = None /\ expires[t] = 0
    /\ status' = Set(status, t, "open")
    /\ UNCHANGED <<owner, expires, process, bindVars, execVars, evidence, history>>
    /\ Mutation(t)

Promote(t) ==
    /\ status[t] = "planned"
    /\ DependenciesSatisfied(t)
    /\ GateAllows(t)
    /\ Reopen(t)

\* Resume names the pause record of the current revision.
Resume(t) ==
    /\ status[t] = "blocked"
    /\ SessionAtRevision(t) /\ session[t].trigger = "pause"
    /\ Reopen(t)

\* A blocked task without a session record at its current revision counts
\* as blocked on an external condition.
Unblock(t) ==
    /\ status[t] = "blocked"
    /\ ~ SessionAtRevision(t)
    /\ Reopen(t)

RepairLegacyBinding(t) ==
    /\ status[t] \in {"open", "done"} /\ owner[t] = None /\ expires[t] = 0
    /\ status[t] = "open" => branch[t] = None
    /\ worktree[t] # None
    /\ worktree' = Set(worktree, t, None)
    /\ UNCHANGED <<claimVars, branch, envelope, execVars, evidence, history>>
    /\ Mutation(t)

-----------------------------------------------------------------------------
(* Bindings and evidence of an active claim.                               *)

BindingOwner(t, o) == owner[t] = o /\ Active(t) /\ ClaimLive(t)

\* A first binding, or the completion of a declared worktree key.
BindWorktree(t, o, b, w) ==
    /\ BindingOwner(t, o)
    /\ \A s \in Tasks \ {t} : Active(s) => branch[s] # b /\ worktree[s] # w
    /\ branch[t] = None
    /\ worktree[t] \in {None, w}
    /\ Unfenced(t)
    /\ branch' = Set(branch, t, b)
    /\ worktree' = Set(worktree, t, w)
    /\ UNCHANGED <<claimVars, envelope, execVars, evidence, history>>
    /\ Mutation(t)

BindEnvelope(t, o) ==
    /\ BindingOwner(t, o)
    /\ Unfenced(t)
    /\ ~ envelope[t]
    /\ envelope' = Set(envelope, t, TRUE)
    /\ UNCHANGED <<claimVars, branch, worktree, execVars, evidence, history>>
    /\ Mutation(t)

\* A narrower successor takes the place of the bound envelope.
ReplaceEnvelope(t, o) ==
    /\ BindingOwner(t, o)
    /\ Unfenced(t)
    /\ envelope[t]
    /\ UNCHANGED <<claimVars, bindVars, execVars, evidence, history>>
    /\ Mutation(t)

Accept(t, o) ==
    /\ owner[t] = o /\ Active(t)
    /\ accepted' = Set(accepted, t, TRUE)
    /\ UNCHANGED <<claimVars, bindVars, execVars, gate, history>>
    /\ Mutation(t)

\* A checkpoint is admitted while an execution is running, and whatever the
\* state of the lease.
Checkpoint(t, o) ==
    /\ owner[t] = o
    /\ checkpoints' = Set(checkpoints, t, checkpoints[t] \cup
           {[branch |-> branch[t], worktree |-> worktree[t], accepted |-> accepted[t]]})
    /\ UNCHANGED <<claimVars, bindVars, execVars, evidence, session, blockedBy>>
    /\ Mutation(t)

\* Restores the fields the checkpoint recorded.  A checkpoint is taken of a
\* claimed task, so the restored status is always open; an acceptance the
\* checkpoint does not hold is not removed.
Rollback(t, snapshot) ==
    /\ Backend = "git"
    /\ owner[t] = None /\ expires[t] = 0
    /\ snapshot \in checkpoints[t]
    /\ DropClaim(t, "open")
    /\ branch' = Set(branch, t, snapshot.branch)
    /\ worktree' = Set(worktree, t, snapshot.worktree)
    /\ accepted' = Set(accepted, t, snapshot.accepted \/ accepted[t])
    /\ UNCHANGED <<envelope, execVars, gate, history>>
    /\ Mutation(t)

\* A gate event is admitted whatever the status of its task.
GateEvent(t, to) ==
    /\ t \in GatedTasks
    /\ to = "complete" => gate[t] = "unresolved"
    /\ gate' = Set(gate, t, to)
    /\ UNCHANGED <<claimVars, bindVars, execVars, accepted, history>>
    /\ Mutation(t)

-----------------------------------------------------------------------------
(* Bound executions.  The revision an execution was reserved at identifies *)
(* it: the code draws a random identifier.                                 *)

ExecutionStart(t, o, length) ==
    /\ BindingOwner(t, o)
    /\ envelope[t]
    /\ Unfenced(t)
    /\ fence' = Set(fence, t, [id |-> revision[t], owner |-> o,
                              expires |-> clock + length])
    /\ expires' = Set(expires, t, IF expires[t] < clock + length THEN clock + length
                                  ELSE expires[t])
    /\ UNCHANGED <<status, owner, process, bindVars, result, abandoned, evidence, history>>
    /\ Mutation(t)

ExecutionResult(t, o, id) ==
    /\ fence[t] # None /\ fence[t].id = id /\ fence[t].owner = o
    /\ result[t] # [id |-> id, owner |-> o]
    /\ result' = Set(result, t, [id |-> id, owner |-> o])
    /\ UNCHANGED <<claimVars, bindVars, fence, abandoned, evidence, history>>
    /\ Mutation(t)

ClearFence_Blanked(t) ==
    fence' = Set(fence, t, [id |-> 0, owner |-> None, expires |-> 0])
ClearFence(t) == fence' = Set(fence, t, None)

ExecutionFinish(t, o, id) ==
    /\ fence[t] # None /\ fence[t].id = id /\ fence[t].owner = o
    /\ ResultMatches(t)
    /\ ClearFence(t)
    /\ UNCHANGED <<claimVars, bindVars, result, abandoned, evidence, history>>
    /\ Mutation(t)

RecoverExecution(t) ==
    /\ fence[t] # None
    /\ ~ FenceLive(t)
    /\ WorkerAbsent(t)
    /\ ResultMatches(t)
    /\ ClearFence(t)
    /\ UNCHANGED <<claimVars, bindVars, result, abandoned, evidence, history>>
    /\ Mutation(t)

AuditAbandonment_Skipped(t) == UNCHANGED abandoned
AuditAbandonment(t) ==
    abandoned' = Set(abandoned, t, abandoned[t] \cup {fence[t].id})

AbandonExecution(t, legacy) ==
    /\ fence[t] # None
    /\ ~ FenceLive(t)
    /\ LegacyAcknowledged(t, legacy) \/ WorkerAbsent(t)
    /\ ~ ResultMatches(t)
    /\ fence[t].id \notin abandoned[t]
    /\ Cardinality(abandoned[t]) < MaxAbandonments
    /\ AuditAbandonment(t)
    /\ ClearFence(t)
    /\ DropClaim(t, "open")
    /\ UNCHANGED <<bindVars, result, evidence, history>>
    /\ Mutation(t)

-----------------------------------------------------------------------------
(* Reconciliation and the world around the coordinator.                    *)

\* One scan advances every task whose worktree changed, whatever its status.
\* The Git authority validates the whole board before it commits the scan.
Observe(S) ==
    /\ S # {}
    /\ \A t \in S : worktree[t] # None /\ revision[t] < MaxRevision
    /\ Backend = "git" => \A t \in Tasks : Active(t) => ClaimLive(t)
    /\ revision' = [t \in Tasks |-> IF t \in S THEN revision[t] + 1 ELSE revision[t]]
    /\ UNCHANGED <<claimVars, bindVars, execVars, evidence, history, world>>

board == <<claimVars, revision, bindVars, execVars, evidence, history>>

Tick ==
    /\ clock < MaxTime
    /\ clock' = clock + 1
    /\ UNCHANGED <<board, boot, alive>>

WorkerExit(w) ==
    /\ w \in alive
    /\ alive' = alive \ {w}
    /\ UNCHANGED <<board, clock, boot>>

\* Every process of the old boot is gone; process numbers start over.
Reboot ==
    /\ boot < MaxBoots
    /\ boot' = boot + 1
    /\ alive' = Workers
    /\ UNCHANGED <<board, clock>>

OwnerStep(t, o) ==
    \/ \E w \in Workers \cup {None}, lease \in Leases : Claim(t, o, w, lease)
    \/ \E lease \in Leases : Heartbeat(t, o, lease)
    \/ Update(t, o)
    \/ \E to \in ReleaseStatuses : Release(t, o, to)
    \/ Pause(t, o)
    \/ \E b \in Branches, w \in Worktrees : BindWorktree(t, o, b, w)
    \/ BindEnvelope(t, o)
    \/ ReplaceEnvelope(t, o)
    \/ Accept(t, o)
    \/ Checkpoint(t, o)
    \/ \E length \in Leases : ExecutionStart(t, o, length)
    \/ \E id \in 1 .. MaxRevision : ExecutionResult(t, o, id)
    \/ \E id \in 1 .. MaxRevision : ExecutionFinish(t, o, id)

OperatorStep(t) ==
    \/ Promote(t)
    \/ Resume(t)
    \/ Unblock(t)
    \/ RepairLegacyBinding(t)
    \/ \E legacy \in BOOLEAN : RecoverExpired(t, legacy)
    \/ RecoverExecution(t)
    \/ \E legacy \in BOOLEAN : AbandonExecution(t, legacy)
    \/ \E snapshot \in checkpoints[t] : Rollback(t, snapshot)
    \/ \E to \in {"unresolved", "complete"} : GateEvent(t, to)

Next ==
    \/ \E t \in Tasks, o \in Owners : OwnerStep(t, o)
    \/ \E t \in Tasks : OperatorStep(t)
    \/ \E S \in SUBSET Tasks : Observe(S)
    \/ Tick
    \/ \E w \in Workers : WorkerExit(w)
    \/ Reboot

Spec == Init /\ [][Next]_vars

-----------------------------------------------------------------------------
(* Properties.  Operators named X_Y are plausible mistakes in X, against   *)
(* which the properties are tried; no action uses them.                    *)

\* Claims are coherent on every reachable board, not only on the task that
\* was just validated: an active task has an owner and a lease, any other
\* task has no trace of a claim, and no two active tasks share an owner, a
\* branch or a worktree (claim_errors, mutation_global_errors, the SQLite
\* CHECK and indexes).
ClaimsCoherent ==
    /\ \A t \in Tasks :
          IF Active(t) THEN owner[t] # None /\ expires[t] > 0
                       ELSE owner[t] = None /\ expires[t] = 0 /\ process[t] = None
    /\ UniqueActive

\* A bound execution never outlives its claim: while a reservation exists, its
\* task is in progress for the reservation's owner and the lease reaches at
\* least to the reservation's deadline, so the claim cannot expire, and be
\* recovered, before the fence does (execution_lifecycle.start, and the fence
\* checks of heartbeat, update, release, pause and recover-expired).
FenceWithinClaim ==
    \A t \in Tasks : fence[t] # None =>
        /\ Active(t)
        /\ owner[t] = fence[t].owner
        /\ expires[t] >= fence[t].expires
        /\ envelope[t]

\* One execution has one outcome: an execution with a durable receipt is
\* never also in the abandonment audit, whatever the order in which a late
\* result and an operator's abandonment arrive.
OneOutcome ==
    \A t \in Tasks :
        /\ result[t] # None => result[t].id \notin abandoned[t]
        /\ fence[t] # None => fence[t].id \notin abandoned[t]

\* Execution identifiers are never reused: every identifier on record is
\* older than the current revision, and a receipt that names the current
\* reservation was written by the reservation's owner.  This is what makes
\* OneOutcome inductive.
FreshIds ==
    \A t \in Tasks :
        /\ revision[t] > 0
        /\ fence[t] # None => fence[t].id < revision[t]
        /\ result[t] # None => result[t].id < revision[t]
        /\ \A id \in abandoned[t] : id < revision[t]
        /\ fence[t] # None /\ result[t] # None /\ result[t].id = fence[t].id
              => result[t].owner = fence[t].owner

\* Work starts on finished ground: every dependency of an active task is
\* satisfied, unless that dependency was itself reopened from one of its
\* checkpoints (apply_claim checks dependencies once, apply_rollback does not
\* look at dependents).
DependenciesHeld ==
    \A t \in Tasks : Active(t) =>
        \A d \in DependsOn[t] : DependencySatisfied(d) \/ checkpoints[d] # {}

\* A parent is done only over finished children, unless a child was reopened
\* from a checkpoint (open_child_error).
RollupHeld ==
    \A t \in Tasks : status[t] = "done" /\ InitialStatus[t] # "done" =>
        \A c \in Children(t) :
            status[c] \in TerminalChildStatuses \/ checkpoints[c] # {}

\* A superseded task keeps a successor chain that ends in a done task: no
\* later mutation of any task in the chain, a rollback included, is admitted
\* if it would break it (supersession_errors).
SupersessionHeld == SupersessionSound

\* The relations between tasks survive every order of commands on them:
\* dependencies, parents and successors (apply_claim, open_child_error,
\* supersession_errors).
GraphHeld == DependenciesHeld /\ RollupHeld /\ SupersessionHeld

\* While the worker a claim registered is alive, nobody but the claim's owner
\* ends the claim, unless the lease has run out and the worker left a session
\* record at exactly this revision (require_claimed_worker_absent,
\* current_recovery_session).
LiveWorkerKeepsClaim ==
    [][\A t \in Tasks :
         /\ Active(t) /\ owner'[t] # owner[t]
         /\ process[t] # None /\ process[t].boot = boot /\ process[t].pid \in alive
         => \/ \E to \in ReleaseStatuses : Release(t, owner[t], to)
            \/ Pause(t, owner[t])
            \/ ~ ClaimLive(t) /\ SessionAtRevision(t)]_vars

\* A reservation disappears only with its exact receipt or with an audit
\* record of its abandonment, and never by being overwritten.
FenceAccounted ==
    [][\A t \in Tasks :
         fence[t] # None /\ fence'[t] # fence[t] =>
            /\ fence'[t] = None
            /\ \/ result[t] = [id |-> fence[t].id, owner |-> fence[t].owner]
               \/ fence[t].id \in abandoned'[t] /\ ~ FenceLive(t)]_vars

\* A task is resumed only from the pause that blocked it last, never from an
\* older pause record after it was blocked again on an external condition
\* (_session_for_reference, apply_resume).
ResumeFromLastPause ==
    [][\A t \in Tasks : Resume(t) => blockedBy[t] = "pause"]_vars

\* docs/PROJECT_GUIDE.md, 178-185: an expired fence whose claim worker has
\* exited is cleared by recover-execution when the durable result exists and
\* by abandon-execution when it does not.
FenceRecoverable ==
    \A t \in Tasks :
        /\ fence[t] # None /\ ~ FenceLive(t)
        /\ process[t] # None /\ process[t].boot = boot /\ process[t].pid \notin alive
        /\ Cardinality(abandoned[t]) < MaxAbandonments
        /\ revision[t] < MaxRevision
        => ENABLED (RecoverExecution(t) \/ AbandonExecution(t, FALSE))

=============================================================================
