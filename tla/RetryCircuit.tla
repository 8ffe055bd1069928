---------------------------- MODULE RetryCircuit ----------------------------
(***************************************************************************)
(* Unbound wrapped commands (handoffctl run without an execution envelope) *)
(* and the retry circuit that bounds their failures: tools/retry_circuit   *)
(* and the unbound path of handoffctl._cmd_run_fenced and run_command.     *)
(*                                                                         *)
(* One task is modelled with its ledger.  A run reserves a launch slot     *)
(* under the task's execution lock, executes its child outside every lock, *)
(* and then resolves the slot, journals the result and updates the task in *)
(* three separate mutations, so the ledger, the heartbeats of the owner,   *)
(* other runs and an operator's recovery all interleave with it.           *)
(***************************************************************************)
EXTENDS Integers, Sequences, FiniteSets

CONSTANTS
    Runs,           \* concurrent invocations of handoffctl run
    Commands,       \* normalized command identities
    Windows,        \* --retry-window values callers use
    Lengths,        \* slot lifetimes (command timeout plus grace)
    Leases,         \* lease lengths
    Progresses,     \* durable-progress fingerprints
    Backend,        \* "git" or "sqlite": which authority validates
    MaxAttempts,    \* MAX_ATTEMPTS
    MaxRecoveries,  \* MAX_RECOVERIES
    MaxAbandoned,   \* MAX_ABANDONED
    MaxSlots,       \* MAX_WINDOW, the bound on reservations
    MaxRevision,    \* bound on the task's revision
    MaxTime,        \* bound on the wall clock
    None

\* What the constants stand for.
RetryConstants ==
    /\ Windows \subseteq Nat \ {0}
    /\ Lengths \subseteq Nat \ {0}
    /\ Leases \subseteq Nat \ {0}
    /\ Progresses # {}
    /\ Backend \in {"git", "sqlite"}
    /\ None \notin Commands
    /\ MaxAttempts \in Nat \ {0} /\ MaxRecoveries \in Nat \ {0}
    /\ MaxAbandoned \in Nat \ {0} /\ MaxSlots \in Nat \ {0}
    /\ MaxRevision \in Nat /\ MaxTime \in Nat

VARIABLES
    claimed,      \* the task is in progress for its owner
    expires,      \* the claim's lease
    revision,     \* task_revision
    progress,     \* progress_digest of the task
    attempts,     \* ledger: recorded failures, oldest first
    recoveries,   \* ledger: explicit recoveries, oldest first
    hold,         \* ledger: the held identity, or None
    slots,        \* ledger: reservations
    retired,      \* ledger: number of abandoned slots on record
    run,          \* [Runs -> state of the invocation]
    clock,        \* wall clock
    reopened      \* history: a recovery left its bounded history while failures
                  \* it had closed were still on record, so they count again

ledger == <<attempts, recoveries, hold, slots, retired, reopened>>
claim  == <<claimed, expires>>
vars   == <<claimed, expires, revision, progress, attempts, recoveries, hold,
            slots, retired, run, clock, reopened>>

Attempt  == [cmd : Commands, progress : Progresses, at : Nat, window : Windows]
Recovery == [cmd : Commands, progress : Progresses, at : Nat]
Hold     == [cmd : Commands, progress : Progresses, window : Windows]
Slot     == [cmd : Commands, progress : Progresses, window : Windows,
             at : Nat, expires : Nat]
Stages   == {"idle", "running", "exited", "resolved", "journaled"}
RunState == [stage : Stages, failed : BOOLEAN, at : Nat, deadline : Nat]

\* The fields of every variable are as the source declares them, and the
\* bounded histories stay within their bounds.
TypeOK ==
    /\ claimed \in BOOLEAN
    /\ expires \in Nat
    /\ revision \in Nat
    /\ progress \in Progresses
    /\ attempts \in Seq(Attempt) /\ Len(attempts) <= MaxAttempts
    /\ recoveries \in Seq(Recovery) /\ Len(recoveries) <= MaxRecoveries
    /\ hold \in Hold \cup {None}
    /\ slots \subseteq Slot
    /\ retired \in 0 .. MaxAbandoned
    /\ run \in [Runs -> RunState]
    /\ clock \in Nat /\ reopened \in BOOLEAN

Idle == [stage |-> "idle", failed |-> FALSE, at |-> 0, deadline |-> 0]

Init ==
    /\ claimed = TRUE
    /\ expires \in Leases
    /\ revision = 1
    /\ progress \in Progresses
    /\ attempts = <<>> /\ recoveries = <<>> /\ hold = None
    /\ slots = {} /\ retired = 0
    /\ run = [r \in Runs |-> Idle]
    /\ clock = 0 /\ reopened = FALSE

-----------------------------------------------------------------------------
(* The ledger.                                                             *)

\* A bounded history keeps its newest entries.
Keep(s, n) == IF Len(s) <= n THEN s ELSE SubSeq(s, Len(s) - n + 1, Len(s))

\* The revision of the latest recovery of one command at one fingerprint.
RecoveredAt(c, p) ==
    LET at == {recoveries[i].at : i \in {j \in 1 .. Len(recoveries) :
                  recoveries[j].cmd = c /\ recoveries[j].progress = p}}
    IN  IF at = {} THEN 0 ELSE CHOOSE m \in at : \A n \in at : n <= m

\* Indices of the failures of the current series: same command, same
\* fingerprint, after the latest recovery.
ActiveIn(log, c, p) ==
    {i \in 1 .. Len(log) : /\ log[i].cmd = c
                           /\ log[i].progress = p
                           /\ log[i].at > RecoveredAt(c, p)}
Active(c, p) == ActiveIn(attempts, c, p)

\* What validate demands of a stored ledger: a hold backed by the failures
\* that caused it, and histories in revision order.
HoldBacked_Unchecked(h, log) == TRUE
HoldBacked(h, log) ==
    h # None => Cardinality(ActiveIn(log, h.cmd, h.progress)) >= h.window
Ascending(log) == \A i, j \in 1 .. Len(log) : i < j => log[i].at < log[j].at

LiveSlots    == {s \in slots : s.expires > clock}

\* cleanup_expired: elapsed slots move to the bounded audit.
SlotsAfterCleanup_None == slots
SlotsAfterCleanup == LiveSlots
RetiredAfterCleanup ==
    LET n == retired + Cardinality(slots \ LiveSlots)
    IN  IF n > MaxAbandoned THEN MaxAbandoned ELSE n

\* Capacity one more launch of c would find in use.
Used(c) ==
    Cardinality(Active(c, progress))
      + Cardinality({s \in SlotsAfterCleanup : s.cmd = c /\ s.progress = progress})

HeldCommands == {c \in Commands : hold # None /\ hold.cmd = c /\ hold.progress = progress}

LeaseLost == Backend = "git" /\ expires <= clock

\* Every accepted mutation advances the revision; the Git authority refuses
\* one that leaves the task with an expired claim.
Mutation ==
    /\ revision < MaxRevision
    /\ revision' = revision + 1
    /\ Backend = "git" /\ claimed' => expires' > clock
    /\ UNCHANGED clock

-----------------------------------------------------------------------------
(* One invocation of handoffctl run.                                       *)

\* Reserves a slot under the task's execution lock, then starts the child.
\* The revision it reserves at names the slot: the code draws a random id.
Launch(r, c, w, length) ==
    /\ run[r].stage = "idle"
    /\ claimed /\ expires > clock
    /\ c \notin HeldCommands
    /\ Used(c) < w
    /\ Cardinality(SlotsAfterCleanup) < MaxSlots
    /\ slots' = SlotsAfterCleanup \cup
           {[cmd |-> c, progress |-> progress, window |-> w,
             at |-> revision, expires |-> clock + length]}
    /\ retired' = RetiredAfterCleanup
    /\ run' = [run EXCEPT ![r] = [Idle EXCEPT !.stage = "running",
                              !.at = revision + 1, !.deadline = clock + length]]
    /\ UNCHANGED <<claim, progress, attempts, recoveries, hold, reopened>>
    /\ Mutation

ChildExit(r, failed) ==
    /\ run[r].stage = "running"
    /\ run' = [run EXCEPT ![r].stage = "exited", ![r].failed = failed,
                            ![r].deadline = 0]
    /\ UNCHANGED <<claim, revision, progress, ledger, clock>>

OwnSlot(r) == {s \in slots : s.at + 1 = run[r].at}

\* The slot a run may still resolve: no other mutation since its own launch.
Resolvable(r) ==
    /\ claimed
    /\ run[r].stage = "exited"
    /\ run[r].at = revision
    /\ OwnSlot(r) # {}

ResolveSuccess(r) ==
    /\ Resolvable(r) /\ ~ run[r].failed
    /\ IF attempts = <<>>
       THEN \* the whole ledger is removed, other slots included
            attempts' = <<>> /\ recoveries' = <<>> /\ hold' = None
              /\ slots' = {} /\ retired' = 0
       ELSE /\ slots' = slots \ OwnSlot(r)
            /\ UNCHANGED <<attempts, recoveries, hold, retired>>
    /\ run' = [run EXCEPT ![r] = [Idle EXCEPT !.stage = "resolved"]]
    /\ UNCHANGED <<claim, progress, reopened>>
    /\ Mutation

\* record_failure: counts the failure at the current fingerprint and holds
\* the command at its window.
NewAttempt(c, w) == [cmd |-> c, progress |-> progress, at |-> revision, window |-> w]
NewLog(c, w) == Keep(Append(attempts, NewAttempt(c, w)), MaxAttempts)
NewHold(c, w) ==
    IF Cardinality(Active(c, progress)) + 1 >= w
    THEN [cmd |-> c, progress |-> progress, window |-> w]
    ELSE hold

\* A series keeps the window of its latest failure.
SameWindow(c, w) ==
    \A i \in Active(c, progress) :
        (\A j \in Active(c, progress) : j <= i) => attempts[i].window = w

Recordable(s) ==
    /\ SameWindow(s.cmd, s.window)
    /\ HoldBacked(NewHold(s.cmd, s.window), NewLog(s.cmd, s.window))

ResolveFailure(r) ==
    /\ Resolvable(r) /\ run[r].failed
    /\ \E s \in OwnSlot(r) :
         /\ Recordable(s)
         /\ attempts' = NewLog(s.cmd, s.window)
         /\ hold' = NewHold(s.cmd, s.window)
    /\ slots' = slots \ OwnSlot(r)
    /\ run' = [run EXCEPT ![r] = [Idle EXCEPT !.stage = "resolved"]]
    /\ UNCHANGED <<claim, progress, recoveries, retired, reopened>>
    /\ Mutation

\* A refused resolution ends the invocation before it journals anything.
ResolveRefused(r) ==
    /\ run[r].stage = "exited"
    /\ \/ ~ Resolvable(r)
       \/ LeaseLost
       \/ run[r].failed /\ \E s \in OwnSlot(r) : ~ Recordable(s)
    /\ run' = [run EXCEPT ![r] = Idle]
    /\ UNCHANGED <<claim, revision, progress, ledger, clock>>

\* Reads the task's revision and appends to the command-result journal.
Journal(r) ==
    /\ run[r].stage = "resolved"
    /\ run' = [run EXCEPT ![r].stage = "journaled", ![r].at = revision]
    /\ UNCHANGED <<claim, revision, progress, ledger, clock>>

UpdateTask(r) ==
    /\ run[r].stage = "journaled"
    /\ claimed /\ run[r].at = revision
    /\ run' = [run EXCEPT ![r] = Idle]
    /\ UNCHANGED <<claim, progress, ledger>>
    /\ Mutation

UpdateRefused(r) ==
    /\ run[r].stage = "journaled"
    /\ ~ claimed \/ run[r].at # revision \/ LeaseLost
    /\ run' = [run EXCEPT ![r] = Idle]
    /\ UNCHANGED <<claim, revision, progress, ledger, clock>>

\* The invocation is killed; its slot stays until it elapses.
Crash(r) ==
    /\ run[r].stage \in {"running", "exited", "resolved", "journaled"}
    /\ run' = [run EXCEPT ![r] = Idle]
    /\ UNCHANGED <<claim, revision, progress, ledger, clock>>

-----------------------------------------------------------------------------
(* The owner, the operator and time.                                       *)

Heartbeat(lease) ==
    /\ claimed
    /\ expires' = clock + lease
    /\ UNCHANGED <<claimed, progress, ledger, run>>
    /\ Mutation

\* A checkpoint, a drift record or an acceptance: durable progress.
RecordProgress(p) ==
    /\ claimed
    /\ p # progress
    /\ progress' = p
    /\ UNCHANGED <<claim, ledger, run>>
    /\ Mutation

\* The recovery is recorded at the current fingerprint, which need not be
\* the one the command was held at.
RecoverCircuit(c) ==
    /\ claimed
    /\ SlotsAfterCleanup = {}
    /\ hold # None /\ hold.cmd = c
    /\ recoveries' = Keep(Append(recoveries,
           [cmd |-> c, progress |-> progress, at |-> revision]), MaxRecoveries)
    /\ hold' = None
    /\ slots' = {} /\ retired' = RetiredAfterCleanup
    /\ UNCHANGED <<claim, progress, attempts, run>>
    /\ reopened' = (reopened \/ \E d \in Commands, p \in Progresses :
                                   ~ (Active(d, p)' \subseteq Active(d, p)))
    /\ Mutation

\* The slot guard of expired-claim recovery; its other guards are TaskBoard's.
RecoverExpired ==
    /\ claimed /\ expires <= clock
    /\ SlotsAfterCleanup = {}
    /\ slots' = {} /\ retired' = RetiredAfterCleanup
    /\ claimed' = FALSE /\ expires' = 0
    /\ UNCHANGED <<progress, attempts, recoveries, hold, run, reopened>>
    /\ Mutation

Release ==
    /\ claimed
    /\ claimed' = FALSE /\ expires' = 0
    /\ UNCHANGED <<progress, ledger, run>>
    /\ Mutation

Claim(lease) ==
    /\ ~ claimed
    /\ claimed' = TRUE /\ expires' = clock + lease
    /\ UNCHANGED <<progress, ledger, run>>
    /\ Mutation

\* A child is killed at its timeout, which is shorter than its slot.
Tick ==
    /\ clock < MaxTime
    /\ \A r \in Runs : run[r].stage = "running" => clock + 1 < run[r].deadline
    /\ clock' = clock + 1
    /\ UNCHANGED <<claim, revision, progress, ledger, run>>

RunStep(r) ==
    \/ \E c \in Commands, w \in Windows, length \in Lengths : Launch(r, c, w, length)
    \/ \E failed \in BOOLEAN : ChildExit(r, failed)
    \/ ResolveSuccess(r) \/ ResolveFailure(r) \/ ResolveRefused(r)
    \/ Journal(r)
    \/ UpdateTask(r) \/ UpdateRefused(r)
    \/ Crash(r)

Next ==
    \/ \E r \in Runs : RunStep(r)
    \/ \E lease \in Leases : Heartbeat(lease) \/ Claim(lease)
    \/ \E p \in Progresses : RecordProgress(p)
    \/ \E c \in Commands : RecoverCircuit(c)
    \/ RecoverExpired \/ Release \/ Tick

Spec == Init /\ [][Next]_vars

-----------------------------------------------------------------------------
(* Properties.  Operators named X_Y are plausible mistakes in X, against   *)
(* which the properties are tried; no action uses them.                    *)

\* The ledger in the task always reloads: the hold is backed by enough
\* failures of its series, and the histories are in revision order and older
\* than the task.  A ledger that fails validate would refuse every later
\* launch, resolution and recovery of the task (retry_circuit.validate).
LedgerReloads ==
    /\ hold # None =>
          Cardinality(Active(hold.cmd, hold.progress)) >= hold.window
    /\ Ascending(attempts) /\ Ascending(recoveries)
    /\ \A i \in 1 .. Len(attempts) : attempts[i].at < revision
    /\ \A s \in slots : s.at < revision

\* Whatever runs, crashes and recoveries interleave, no series of failures
\* without durable progress grows past the window its runs asked for
\* (record_failure, reserve), as long as the bounded history of recoveries
\* outlives the failures they closed.
SeriesWithinWindow ==
    ~ reopened =>
        \A c \in Commands, p \in Progresses :
          \A i \in Active(c, p) : Cardinality(Active(c, p)) <= attempts[i].window

\* The ledger can be loaded again and keeps its promise (record_failure).
LedgerSound == LedgerReloads /\ SeriesWithinWindow

\* formal/handoffctl/README.md, 83-85: an interrupted child leaves a slot
\* that cannot exhaust the retry window permanently.  Once no slot is live, a
\* command that is neither held nor out of failures can be launched.
CapacityReturns ==
    \A c \in Commands, w \in Windows, r \in Runs :
        /\ claimed /\ expires > clock /\ revision < MaxRevision
        /\ run[r].stage = "idle"
        /\ LiveSlots = {} /\ c \notin HeldCommands
        /\ Cardinality(Active(c, progress)) < w
        => \E length \in Lengths : ENABLED Launch(r, c, w, length)

\* docs/OPERATIONS.md, 175-176: capacity is recovered without clearing a live
\* slot.  A child that is still running keeps its launch slot.
SlotsCoverChildren ==
    \A r \in Runs : run[r].stage = "running" => OwnSlot(r) # {}

=============================================================================
