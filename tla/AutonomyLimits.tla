--------------------------- MODULE AutonomyLimits ---------------------------
(***************************************************************************)
(* The budget of wrapped commands (tools/autonomy_limits and the unbound   *)
(* path of handoffctl run around it).                                      *)
(*                                                                         *)
(* One task, its ledger, and several invocations of run.  An invocation    *)
(* reads the tracked policy, records a preflight, reserves a launch slot,  *)
(* runs its child outside every lock, resolves the slot, records what the  *)
(* child used and updates the task: five mutations, each behind the        *)
(* revision read before it.  A hold names the revision it was recorded at; *)
(* the validation that follows every mutation refuses a task whose hold    *)
(* names another one.  A scan of the worktrees advances the revision too,  *)
(* and on SQLite without that validation.                                  *)
(*                                                                         *)
(* Retries, cost units, external side effects and diff bytes are counted   *)
(* and compared alike: `spent` stands for them.  The retry circuit's own   *)
(* refusals are RetryCircuit's.                                            *)
(***************************************************************************)
EXTENDS Integers, FiniteSets

CONSTANTS
    Runs,          \* concurrent invocations of handoffctl run
    Backend,       \* "git" or "sqlite": which authority validates
    MaxCommands,   \* max_commands of the policy
    MaxSpent,      \* the policy's bound on the self-reported use
    MaxElapsed,    \* max_elapsed_seconds of the policy
    Policies,      \* digests the tracked policy file has over time
    Lease,         \* lease length
    MaxRevision,   \* bound on the task's revision
    MaxTime,       \* bound on the wall clock
    None

ASSUME AutonomyAssumption ==
    /\ IsFiniteSet(Runs) /\ Runs # {}
    /\ Backend \in {"git", "sqlite"}
    /\ MaxCommands \in Nat /\ MaxSpent \in Nat /\ MaxElapsed \in Nat
    /\ Lease \in Nat \ {0} /\ MaxRevision \in Nat /\ MaxTime \in Nat
    /\ None \notin Policies

VARIABLES
    claimed,     \* the task is in progress for its owner
    expires,     \* the claim's lease
    revision,    \* task_revision
    policy,      \* digest of the tracked policy
    ledger,      \* autonomy_limits of the task, or None
    hold,        \* revision the ledger's hold is fenced to, or 0
    run,         \* [Runs -> state of the invocation]
    clock,       \* wall clock
    heldSince,   \* revision at which the hold was recorded (history)
    overtaken,   \* a scan advanced the revision past the hold (history)
    launched,    \* children started so far (history)
    lost         \* children whose use was never recorded (history)

vars == <<claimed, expires, revision, policy, ledger, hold, run, clock,
          heldSince, overtaken, launched, lost>>

Ledger   == [policy : Policies, started : Nat, commands : Nat, spent : Nat]

\* An absent ledger is not a ledger.
ASSUME LedgerAssumption == None \notin Ledger

Stages   == {"idle", "prepared", "admitted", "running", "exited", "resolved",
             "recording", "recorded", "journaled"}
RunState == [stage : Stages, policy : Policies \cup {None}, at : Nat, used : Nat]

\* Every variable has the shape the source declares.
TypeOK ==
    /\ claimed \in BOOLEAN /\ overtaken \in BOOLEAN
    /\ {expires, revision, hold, clock, heldSince, launched, lost} \subseteq Nat
    /\ policy \in Policies
    /\ ledger \in Ledger \cup {None}
    /\ run \in [Runs -> RunState]

Idle == [stage |-> "idle", policy |-> None, at |-> 0, used |-> 0]

Init ==
    /\ claimed = TRUE /\ expires = Lease /\ revision = 1
    /\ policy \in Policies
    /\ ledger = None /\ hold = 0
    /\ run = [r \in Runs |-> Idle]
    /\ clock = 0
    /\ heldSince = 0 /\ overtaken = FALSE /\ launched = 0 /\ lost = 0

-----------------------------------------------------------------------------
(* What every mutation shares.                                             *)

\* metadata_error: a hold is valid only at the revision it names.
HoldValid_Unchecked(h, rev) == TRUE
HoldValid(h, rev) == h # 0 => h = rev

\* The revision advances by one and the resulting task must validate; the Git
\* authority refuses an expired claim as well.
Mutation ==
    /\ revision < MaxRevision
    /\ revision' = revision + 1
    /\ HoldValid(hold', revision')
    /\ Backend = "git" /\ claimed' => expires' > clock
    /\ UNCHANGED <<policy, clock, overtaken>>

\* The same conditions, for a mutation that keeps claim and hold.
Accepted(h) ==
    /\ revision < MaxRevision
    /\ HoldValid(h, revision + 1)
    /\ Backend = "git" => expires > clock

\* require_active_binding_owner.
ActiveOwner(r) == claimed /\ expires > clock /\ run[r].at = revision

\* _state: the ledger of an earlier policy is not one of this policy.
LedgerFor(r) ==
    IF ledger = None
    THEN [policy |-> run[r].policy, started |-> clock, commands |-> 0, spent |-> 0]
    ELSE ledger
LedgerUsable(r) == HoldValid(hold, revision) /\ LedgerFor(r).policy = run[r].policy

\* _breach: a budget is used up when it is reached.
Breach_Late(l) ==
    l.commands > MaxCommands \/ l.spent > MaxSpent \/ clock - l.started > MaxElapsed
Breach(l) ==
    l.commands >= MaxCommands \/ l.spent >= MaxSpent \/ clock - l.started >= MaxElapsed

Ends(r) == run' = [run EXCEPT ![r] = Idle]
Goes(r, to) == run' = [run EXCEPT ![r].stage = to]
Keeps == UNCHANGED <<claimed, expires>>
Steady == UNCHANGED <<claimed, expires, revision, policy, ledger, hold, clock,
                      heldSince, overtaken>>

-----------------------------------------------------------------------------
(* One invocation of handoffctl run.                                       *)

\* prepare, before its mutation: the policy and the revision are read.
Prepare(r) ==
    /\ run[r].stage = "idle"
    /\ claimed /\ expires > clock
    /\ run' = [run EXCEPT ![r] = [Idle EXCEPT !.stage = "prepared",
                                     !.policy = policy, !.at = revision]]
    /\ Steady /\ UNCHANGED <<launched, lost>>

PreflightAdmitted(r) == ActiveOwner(r) /\ LedgerUsable(r) /\ hold = 0

\* Starts the ledger, and records a hold when a budget is already used up.
\* A policy that changed meanwhile ends the run after the mutation.
Preflight(r) ==
    /\ run[r].stage = "prepared"
    /\ PreflightAdmitted(r)
    /\ ledger' = LedgerFor(r)
    /\ IF Breach(ledger')
       THEN hold' = revision + 1 /\ heldSince' = revision + 1 /\ Ends(r)
       ELSE /\ UNCHANGED <<hold, heldSince>>
            /\ IF policy = run[r].policy THEN Goes(r, "admitted") ELSE Ends(r)
    /\ Keeps /\ UNCHANGED <<launched, lost>>
    /\ Mutation

PreflightRefused(r) ==
    /\ run[r].stage = "prepared" /\ ~ PreflightAdmitted(r)
    /\ Ends(r)
    /\ Steady /\ UNCHANGED <<launched, lost>>

\* The launch slot is reserved at whatever revision the task has by now; then
\* the child starts.
Reserve(r) ==
    /\ run[r].stage = "admitted"
    /\ claimed
    /\ run' = [run EXCEPT ![r].stage = "running", ![r].at = revision + 1]
    /\ launched' = launched + 1
    /\ Keeps /\ UNCHANGED <<ledger, hold, heldSince, lost>>
    /\ Mutation

ReserveRefused(r) ==
    /\ run[r].stage = "admitted"
    /\ ~ (claimed /\ Accepted(hold))
    /\ Ends(r)
    /\ Steady /\ UNCHANGED <<launched, lost>>

ChildExit(r, used) ==
    /\ run[r].stage = "running"
    /\ run' = [run EXCEPT ![r].stage = "exited", ![r].used = used]
    /\ Steady /\ UNCHANGED <<launched, lost>>

\* The slot is resolved only at the revision its reservation produced.
Resolve(r) ==
    /\ run[r].stage = "exited"
    /\ claimed /\ run[r].at = revision
    /\ Goes(r, "resolved")
    /\ Keeps /\ UNCHANGED <<ledger, hold, heldSince, launched, lost>>
    /\ Mutation

\* run_command reads the revision its record will be fenced to.
Locate(r) ==
    /\ run[r].stage = "resolved"
    /\ run' = [run EXCEPT ![r].stage = "recording", ![r].at = revision]
    /\ Steady /\ UNCHANGED <<launched, lost>>

Counted(r) == [LedgerFor(r) EXCEPT !.commands = @ + 1, !.spent = @ + run[r].used]

\* apply_record: an overrun becomes a hold unless there is one.
HoldAfter(r) == IF Breach(Counted(r)) /\ hold = 0 THEN revision + 1 ELSE hold

Record(r) ==
    /\ run[r].stage = "recording"
    /\ ActiveOwner(r) /\ LedgerUsable(r)
    /\ ledger' = Counted(r)
    /\ hold' = HoldAfter(r)
    /\ heldSince' = IF hold' # hold THEN hold' ELSE heldSince
    /\ Goes(r, "recorded")
    /\ Keeps /\ UNCHANGED <<launched, lost>>
    /\ Mutation

\* A refused resolution or record ends the run, and the child goes uncounted.
CompletionRefused(r) ==
    /\ \/ /\ run[r].stage = "exited"
          /\ ~ (claimed /\ run[r].at = revision /\ Accepted(hold))
       \/ /\ run[r].stage = "recording"
          /\ ~ (ActiveOwner(r) /\ LedgerUsable(r) /\ Accepted(HoldAfter(r)))
    /\ Ends(r)
    /\ lost' = lost + 1
    /\ Steady /\ UNCHANGED launched

\* The command result is appended and the revision read again.
Journal(r) ==
    /\ run[r].stage = "recorded"
    /\ run' = [run EXCEPT ![r].stage = "journaled", ![r].at = revision]
    /\ Steady /\ UNCHANGED <<launched, lost>>

\* carry_run_hold: the run's own update takes the hold along.
UpdateTask(r) ==
    /\ run[r].stage = "journaled"
    /\ claimed /\ run[r].at = revision
    /\ hold' = IF hold # 0 THEN revision + 1 ELSE 0
    /\ Ends(r)
    /\ Keeps /\ UNCHANGED <<ledger, heldSince, launched, lost>>
    /\ Mutation

UpdateRefused(r) ==
    /\ run[r].stage = "journaled"
    /\ ~ (claimed /\ run[r].at = revision /\ Accepted(0))
    /\ Ends(r)
    /\ Steady /\ UNCHANGED <<launched, lost>>

Kill(r) ==
    /\ run[r].stage # "idle"
    /\ lost' = lost + (IF run[r].stage \in {"running", "exited", "resolved", "recording"}
                       THEN 1 ELSE 0)
    /\ Ends(r)
    /\ Steady /\ UNCHANGED launched

-----------------------------------------------------------------------------
(* The owner, other commands, scans and time.                              *)

\* apply_dispose: only the exact hold of the current revision.  The counters
\* stay as they are.
Dispose ==
    /\ claimed
    /\ hold # 0 /\ HoldValid(hold, revision)
    /\ hold' = 0 /\ heldSince' = 0
    /\ Keeps /\ UNCHANGED <<ledger, run, launched, lost>>
    /\ Mutation

\* Heartbeats, updates, releases, recoveries and claims keep the ledger.
OtherCommand ==
    /\ \/ claimed /\ claimed' = TRUE /\ expires' = clock + Lease
       \/ claimed /\ claimed' = FALSE /\ expires' = 0
       \/ ~ claimed /\ claimed' = TRUE /\ expires' = clock + Lease
    /\ UNCHANGED <<ledger, hold, heldSince, run, launched, lost>>
    /\ Mutation

\* A worktree changed: the Git reconciliation validates what it wrote, the
\* SQLite one commits first (update_observations) and validates the export.
Scan ==
    /\ revision < MaxRevision
    /\ revision' = revision + 1
    /\ Backend = "git" => HoldValid(hold, revision') /\ (claimed => expires > clock)
    /\ overtaken' = (overtaken \/ hold # 0)
    /\ UNCHANGED <<claimed, expires, policy, ledger, hold, run, clock, heldSince,
                   launched, lost>>

ChangePolicy(p) ==
    /\ p # policy /\ policy' = p
    /\ UNCHANGED <<claimed, expires, revision, ledger, hold, run, clock, heldSince,
                   overtaken, launched, lost>>

Tick ==
    /\ clock < MaxTime
    /\ clock' = clock + 1
    /\ UNCHANGED <<claimed, expires, revision, policy, ledger, hold, run, heldSince,
                   overtaken, launched, lost>>

RunStep(r) ==
    \/ Prepare(r) \/ Preflight(r) \/ PreflightRefused(r)
    \/ Reserve(r) \/ ReserveRefused(r)
    \/ \E used \in 0 .. 1 : ChildExit(r, used)
    \/ Resolve(r) \/ Locate(r) \/ Record(r) \/ CompletionRefused(r)
    \/ Journal(r) \/ UpdateTask(r) \/ UpdateRefused(r)
    \/ Kill(r)

Next ==
    \/ \E r \in Runs : RunStep(r)
    \/ Dispose \/ OtherCommand \/ Scan \/ Tick
    \/ \E p \in Policies : ChangePolicy(p)

Spec == Init /\ [][Next]_vars

-----------------------------------------------------------------------------
(* Properties.  Operators named X_Y are plausible mistakes in X.           *)

\* docs/EXTENDING.md, 61-62: a breach records a hold on the current revision
\* and the active owner can clear that exact hold.  Whatever other commands and
\* runs do, a hold stays at the task's revision and the claim stays with its
\* owner, so that dispose is not refused as stale; only a scan that SQLite
\* commits without validation can leave the hold behind (metadata_error,
\* carry_run_hold, apply_dispose).
HoldStaysDisposable == hold # 0 /\ ~ overtaken => claimed /\ hold = revision

\* docs/OPERATIONS.md, 166-168: no further wrapped command starts while a hold
\* stands.  A run admitted before the hold cannot start its child after it.
HeldStartsNothing ==
    \A r \in Runs : run[r].stage = "running" /\ hold # 0 => run[r].at < heldSince

\* Children that started are within the budget, up to the runs that were
\* admitted side by side and to children whose use was never recorded.
LaunchesBudgeted == launched - lost <= MaxCommands + Cardinality(Runs) - 1

\* The budget holds against runs that check it concurrently and record late
\* (apply_preflight, apply_record).
BudgetKept == HeldStartsNothing /\ LaunchesBudgeted
=============================================================================
