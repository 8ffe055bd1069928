# A TLA+ verification of the Agent Workflow Coordinator

`handoffctl` is a coordination database and command line for agents that share
a project. Every command is a process of its own; processes meet in a database
or in a checkout of task files, behind one lock, with leases, revisions and
execution fences between them. This directory models those parts in TLA+, checks
them with TLC on small instances, and proves the results that matter most for
every instance with TLAPS.

## 1. The system

### Components, state, operations

| Component | Code (`tools/`) | State it keeps | Operations |
| --- | --- | --- | --- |
| Task lifecycle | `handoffctl.py` `apply_*`, `execution_lifecycle.py`, `execution_receipt.py`, `execution_abandonment.py`, `hierarchy.py` | per task: status, owner, lease, worker identity, revision, bindings, fence, result, abandonments, acceptance, gate, sessions, checkpoints | claim, heartbeat, update, release, pause, resume, unblock, promote, recover-expired, bind-*, accept, checkpoint, rollback, gate, execution-* |
| Retry circuit and unbound runs | `retry_circuit.py`, `run_command.py`, `_cmd_run_fenced` | ledger of attempts, recoveries, one hold, launch slots, abandoned slots | reserve, run, resolve, journal, update, recover |
| SQLite authority | `sqlite_storage.py`, `mutate_sqlite`, `write_sqlite_projections` | tables; projected task files and views | transaction, observation update, export |
| Git authority | `_mutate_fenced`, `persist_git_mutation`, `commit`, `restore_paths`, `apply_git_reconciliation` | task files, head commit, pending marker, repository lock | mutate, reconcile, restore |
| Observation tickets | `reserve_observation_ticket`, `reconcile`, `observation_is_superseded` | ticket sequence, published ticket | reserve, scan, publish, retry |
| State replication | `sync_replica_before_write`, `push_replica` | local and remote history, block marker | fetch, fast-forward, refuse, push |
| Rollback | `cmd_rollback`, `rollback_records.py` | operation records, product head | plan, revert, restore, complete, reconcile |
| Issue series | `issue_series*.py`, tables of `sqlite_storage.py` | manifest, tasks, publication receipt, comments of the hosted issue | plan, create, publish (offline and live) |
| Fast receipts | `fast_receipt*.py` | durable intents, receipts, publication jobs; an in-memory socket queue | ask, enqueue, process, recover, publish, sweep |
| Control store | `rollback_control_store.py`, `admitted_control_store.py` | barrier session row and history, intents, authority effects, barrier records | create, bind child, reopen, fence, recover, reconcile |
| Mutation fence and lock domain | `mutation_fence.py`, `lock_domain*.py`, `admission_*.py` | three lock files, a marker and a binding that name them | bind, lock in order, recheck, admit a write |
| Upgrade engine | `upgrade_*.py`, `production_*.py` | one phase journal per operation, lifecycle journal, backups | plan, apply, resume, roll back, recover |
| Authority mutation capabilities | `authority_mutation.py`, `git_authority_mutation.py`, `sqlite_authority_mutation.py` | effect journal, the authority itself | prepare, commit, confirm, verify |
| Runtime selection and staging | `runtime_store.py`, `upgrade_authority.py`, `runtime_bootstrap.py` | selector file, release directories | stage, publish, reconcile, resolve, launch |
| Autonomy limits | `autonomy_limits.py`, `run_command.py` | tracked policy, ledger of what wrapped commands used, one hold | preflight, record, dispose |
| Drift, assumptions and predicate ledger | `task_spec.py`, `predicate_ledger*.py`, `change_drift.py`, `assumption_revalidation.py` | bound spec, acceptance, ledger of predicates, drift cycle, assumption history | bind-spec, accept, repair, baseline, rescope, delta, explain, declare, revalidate, dispose, admission of done |
| Oracle gates, directives, roles, discussions | files of those names | bounded revision-fenced records | append, transition |
| Backups, vendoring, renderings, release tooling | the rest | artifacts, or none | copy, verify, render |

`PROJECT.json` lists them all, with the ones not modelled and the reason.

### How they interact

A command reads the board, decides, and mutates one task through the selected
authority. Under Git the read, the decision and the commit happen under one
repository lock; under SQLite the read is outside the transaction and the
revision is compared inside it. After the mutation the projections are rewritten
and the state repository may be pushed. `run` mutates the task several times
around a child process that runs outside every lock. `reconcile` scans worktrees
outside the lock and applies the result inside it. The fast path replaces a
command by an intent in a private store: clients reach a resident service over a
socket or enqueue by themselves, one worker turns intents into marked commits, and a
publisher pushes them. An upgrade raises a barrier in the control store, which the
fence of every SQLite writer reads under its own locks, and runs its phases one by
one from a write-ahead journal; the commit phase changes the authority through a
capability that works once, and the last step publishes a runtime selector that
every later launch reads.

### What is hard

* interleavings: other commands between any two mutations of a `run`; scans and
  exports that overtake each other; replicas that push between a fetch and a push;
* leases and deadlines: a lease, a fence, a launch slot or a git command that
  elapses just when its owner acts;
* partial failure and kills: between a write and its commit, between a result and
  its finish, between a ticket and its marker;
* write-ahead journals: a process dies between an intent, its effect and its
  outcome, and recovery must neither repeat nor invent the effect;
* unreliable calls: an answer over a socket, from `git push`, from `git commit` or
  from the hosting service is lost, late or wrong;
* files under locks: a lock belongs to an inode, a rename is durable only after its
  directory is, and a path may be exchanged between two reads;
* stale evidence: a result, a pause record or a hold of an earlier revision;
* bounded histories: attempts, recoveries, abandonments, gate rounds.

`PROJECT.json` "hazards" lists each at its line with the property that watches it.

### What makes each component correct

Lifecycle: one owner per active task and one active task per owner, branch and
worktree; a fence inside its claim, with exactly one accounted outcome, always
recoverable; no live worker dispossessed; dependencies, parents and supersession
sound. Retry circuit: failures without progress bounded by the window, capacity
returned, the ledger always loadable. Authorities: every accepted change is one
revision and loses no note. Projections and history: consistent with the
authority when nobody reported otherwise. Scans: no overtaken scan recorded.
Replication: no commit lost, divergence fail-closed. Fast receipts: each intent at
most once in history, receipts and answers that history bears out, and every intent
settled. Barrier: one attempt at a time, effects at most once, truthfully journaled, and
recorded as committed only when they took place in their session. Upgrade: no phase
repeated, one barrier at a time, the commit behind it, a verified rollback finished. Lock domain: exclusion although lock files are
replaced, no cycle of waits, no write past a raised barrier. Runtime: a published
selector survives, a launch is of the release that one selector file names. Issue series: created
whole, published once. Rollback: completed only when true, and of planned work only.
Autonomy: nothing starts under a hold or past the budget, and a hold can always be
disposed of. Acceptance: done only on evidence and assumptions that are current, and
with every change since the baseline explained.

## 2. Modules

### TaskBoard

One variable per metadata field, as functions over `Tasks`; `clock`, `boot` and
`alive` are the wall clock and the worker processes. One action per transition of
`lifecycle_transition_handler`, named after it. `Mutation` is the part all of them
share: revision advanced by one, and the resulting board accepted by the
validation that follows the write (`ValidBoard`, from `claim_errors`,
`mutation_global_errors`, `supersession_errors`, and on the Git backend the
expired-claim check `LeaseKept`). `Backend` selects the authority whose validation
applies.

Abstractions. Summaries, priorities and notes carry no guard and are left out. The
task specification is taken as bound and all acceptance evidence is the flag
`accepted`; the transitions that create or invalidate that evidence (bind-spec,
change-drift, assumption, predicate-ledger repair) are the actions of
AcceptanceEvidence, and the autonomy records those of AutonomyLimits. An oracle gate is its summary. Owners are admitted, as they are without a
role file. Each task keeps its newest session record. Execution identifiers are
the revision at which the execution started (the code draws UUIDs).
`blockedBy` is a history variable.

### RetryCircuit

One task, its ledger and several invocations of `run` without an envelope. Slots
are named by the revision they were reserved at, and fingerprints and command
identities are model values. `Launch`, `ChildExit`, `Resolve*`, `Journal` and
`UpdateTask` are the separate mutations of `cmd_run`; `ResolveRefused` and
`UpdateRefused` are its error exits. `RecoverExpired` carries the slot guard of the
expired-claim recovery whose other guards are TaskBoard's. `reopened` is a history
variable: a recovery left its bounded history before the failures it had closed did.

### AutonomyLimits

One task under a tracked policy and several invocations of `run` without an envelope.
Each is five mutations with the owner's other commands, scans, a changing policy and
kills between them: `Preflight`, `Reserve`, `Resolve`, `Record`, `UpdateTask`; what
refuses one of them is an action of its own. `Mutation` carries the validation that
ties a hold to the task's revision. The policy's bounds on retries, cost, side effects
and diff size are one counter, `spent`: they are counted and compared alike. `launched`
and `lost` are history variables.

### AcceptanceEvidence

One task and the records that `release --status done` consults, with the files, the
spec, the policy file, the worktree, its HEAD and a dependency that other people change
at any time. A digest is the version it was taken of. `Validated` is the validation
every mutation ends with; `Repair` alone skips the ledger's, as the code does.
`Delta` is computed from git status and from the two HEADs as `change_drift.delta` does
it, and `differs` remembers what really changed. The fence on the task's revision, notes,
scopes and renames are left out. A task uses the records its author opts into; the run
takes them one at a time (`OptIns`), since each is admitted by a conjunct of its own.

### RevisionLog, SqliteAuthority, GitAuthority

`RevisionLog` is the abstract promise of either backend: a task's accepted changes
are numbered one by one and its body only grows by them. `SqliteAuthority` models
the load outside the transaction, the transaction, and the export with its second
load; an entry is visible or quiet according to whether `render_current` shows it.
`GitAuthority` models the lock holder's read, write, commit, restore and kill, and
the pending marker of an uncommitted reconciliation; file contents are a revision
and a body, a content digest is the revision. Both carry the refinement
`Linearized == Log!Spec`: SQLite maps its tables directly; Git maps the files, or
the snapshot while the holder may still restore it.

### ObservationTickets

Concurrent `reconcile` processes of one checkout and a world that moves on. The
version of the world stands for all that a scan sees. `drawnAt` and `floor` are
history variables.

### ReplicaSync

Several replicas with their own locks and one remote. A history is a sequence of
commits and an ancestor is a prefix, since no replica merges. `Commit` follows a
synchronisation, as lifecycle commands and the Git reconciliation do;
`CommitUnsynced` is the SQLite reconciliation and the rollback journal, which
commit without one. That origin refuses an update that is not a fast-forward is Git's.

### FastReceipts and FastPublication

`FastReceipts` has the intents table, the clients with their socket request and
same-key fallback, the service's in-memory queue, the worker and its recovery, and
the Git repository: a commit is its set of ancestors, its receipt marker and the
task it leaves. `orphan` is a `git commit` that outlives the worker that started it.
`FastPublication` extends it with the publisher: observation of the remote, the job
table with its leases, the push, its late landing and the confirmation. One worker
stands for whichever process holds the service's lock; the tests of marker and
ancestry are those of `fast_receipt_worker.py`. The publisher runs after or beside
the worker, as `serve_local` and the command line start it.

### BarrierContract and BarrierSession

`BarrierContract` is the promise: one session at a time, from held through releasing
to released, each transition one revision, fenced as ambiguous at any time, followed
only by a newer attempt. `BarrierSession` is the store: a row and a prepared intent
in one commit, the outcome in a second, authority effects journaled before and after,
recovery (`recover_unknown`) and reconciliation of an ambiguous session. Callers
compute a transition from a snapshot that may be stale. It carries the refinement
`RefinesContract`. `drifted` abstracts the authority revision to whether it is still
the acquired one. Effects are prepared only in a session with both children bound, which
is what the production binding requires; preparing, running and finishing one are three
steps, and it runs with no lock held (`DurableBoundAuthorityMutation.execute`). The
history variables `applied` and `outside` count the effects that took place, and name
those that did when the session they were prepared under no longer stood.

### SessionView

What the engine and the board's writers see of the session in the store: an attempt and
one of its four statuses, and the moves of that view (`SessionFollows`). It is the
interface at which BarrierSession and UpgradeEngine are composed by proof (section 4).

### UpgradeEngine

Two operations' journals, their control rows, the barrier session they compete for
(seen through SessionView, with whether the authority drifted; `AcquireFence`,
`ProvisionFence` and `LoseFence` are what its other users do to it), backups, and a
process between any two durable writes. `Forward` are the steps of
apply, with the eight phases' adapters and their refusals; `Backward` are those of
rollback; `Control` are the operator's and other commands' steps. A failure to write
the journal is a crash before or after the write. The lock of a journal directory is
shared by all of its journals, so that one engine process is all there is at a time;
an apply holds only that lock, a rollback the control store's as well. Evidence of
readiness is static. `Backend` selects whose rereaders apply. A control row is its status;
its revision only refuses a stale writer, who then changes nothing. `CasRow` and
`ReleaseRow` are what other commands do to rows: any transition of `STATUS_TRANSITIONS`,
the release included, with no journal read, as `cas_locked` and
`control_complete_release` allow.

The restore is external: `Restore` is the engine's call of the backend adapter, and what
the adapter writes is not modelled. The code gives it no other form. An engine with a bound
rollback phase adapter refuses every rollback ("public rollback dispatch is disabled",
`upgrade_engine.py:1376`), the Git and SQLite adapters do not verify a rollback context,
and the durable rollback capability (`authority_mutation.py:206-234`) is rejected under
the engine's lock, which is not reentrant (`rollback_control_store.py:2588`). The
journaled, unlocked effect of that capability is BarrierSession's.

### LockDomain, AuthorityCommit, RuntimeSelection

`LockDomain`: writers, scopes and recoveries take common, control and authority; a
lock is taken on the inode that was opened, and the path may meanwhile name another
one. `AuthorityCommit`: the life of one capability, with the files a board command
stages at the same time, and the replacement of repository or database.
`RuntimeSelection`: staging, publication and reconciliation of the selector, power
failures, and a launch that reads selector, manifest and directory one after the
other. A release directory is an inode and what it holds: the whole release, its
manifest over other files, or something foreign. Staging verifies the whole, a launch the
manifest only (`upgrade_commands.py:72-86`); the entrypoint is read from the retained
directory, imports from the path (`PYTHONPATH`, `runtime_bootstrap.py:237-239`). Others
may change the files of a directory or replace it at any time (`touched`); a replaced one
is assumed not to come back under its inode.

### IssueSeries and RollbackJournal

`IssueSeries`: one series; creation is one transaction on SQLite and a sequence of
file writes on Git, publication is reserve, lock the key, look up, post and resolve,
with calls that fail, go unanswered or land late. The mock transport's outcome is recorded
like a real one, comment identifier included (`mocked`). `RollbackJournal`: one checkpoint,
several commands and other people's commits; a tree is the set of work it contains,
so that a revert is a set difference and a conflict a missing inclusion. The task
mutation in it is TaskBoard's `Rollback`. A product history that is rewritten is not
modelled.

### MC modules and proofs

`MCx` declares model values and the graphs and symmetries of the instances of `x`.
`xProofs` holds the lemmas and theorems about `x`. `MCAuthorities` has both
authorities, SQLite's as an instance beside Git's, and a run for each (`GitSpec`,
`SqliteSpec`); `TablesLinearized` is the SQLite instance's `Linearized`.
`AuthorityProofs`, `UpgradeSupportProofs`, `StateRepositoryProofs` and
`TaskRecordsProofs` are about the components that the MC module of that name puts
together, each for its own specification. An operator named `X_Y` is a plausible mistake
in `X`: replacing `X` by it must violate the property that watches `X`. No action uses
them. `MCUpgradeSupport`, `MCStateRepository` and `MCTaskRecords` put small components that share no state into one run each: the variable `running` picks
in the initial state which of them moves, so that their state spaces add up and do
not multiply. They restate the instances' properties by name.

## 3. Runs

All runs switch deadlock checking off: the bounds on revisions, time and tickets
stop every behaviour in the end, and an idle system is a legal final state.
`BarrierSession` is the exception: a snapshot can always be taken.

| Run | Bounds | Shows |
| --- | --- | --- |
| `TaskBoard_fence` | 1 task, 2 owners, 1 worker, leases 1-2, revision 7, time 4, 1 reboot, SQLite | fences and claims: `FenceWithinClaim`, `OneOutcome`, `FenceRecoverable`, `LiveWorkerKeepsClaim`, `FenceAccounted`, `ResumeFromLastPause`, `TypeOK` |
| `TaskBoard_board` | 5 tasks: parent and child with one declared worktree, a dependent, a predecessor and its done successor; 2 owners, revision 5, time 2, gates on one task, Git | `ClaimsCoherent`, `GraphHeld` |
| `TaskRecords` | budget: 2 runs, 1 command, 2 policies, revision 9, time 1, SQLite; circuit: 2 runs, 2 commands, 2 fingerprints, windows 1 and 2, histories of 2 failures and 1 recovery, revision 8, Git; evidence: 2 predicates, 1 candidate and 1 evidence file of 2 versions, 2 paths, 3 commits, 4 outside changes, ledgers of 3 rows, cycles of 4 records | `HoldStaysDisposable`, `BudgetKept`; `LedgerSound`, `CapacityReturns`; `DoneIsEvidenced`, `ChangesExplained` |
| `SqliteAuthority` | 2 writers, 2 tasks, revision 3 | `TablesLinearized`, `ViewsCurrent` |
| `GitAuthority` | 2 writers, 2 tasks, revision 4, 2 kills, any number of commits killed at their deadline; writers and notes symmetric | `Linearized`, `HeadInStep` |
| `FastPublication` | 2 clients, 2 keys, one of them asked for with two intents, 1 worker, 3 commits, 1 fault | `AppliedAtMostOnce`, `ReceiptsSound`, `PublishedIsOnRemote`, `IntentsSettle` |
| `BarrierSession` | 2 processes, 2 attempts, 2 operations, revision 5, 1 fault | `RefinesContract`, `EffectsSound`, `EffectsInSession` |
| `UpgradeEngine` | 2 journals, 1 engine process, 1 fault (a session fenced as ambiguous is one), SQLite | `PhasesAccounted`, `BarrierKept`, `VerifiedRollbackFinishes` |
| `UpgradeSupport` | locks: 2 processes, 2 attempts, 1 write, 1 replacement of each file; commit: 2 changes of the session, 1 replacement, 3 commits, both backends; runtime: 2 releases, 2 stagers, 3 inodes, 2 losses (power failures, changes of a release directory) | `DomainExclusive`, `SessionsFresh`, `NoWaitCycle`, `WritesFenced`; `CommitAccounted`; `RuntimeSound` |
| `StateRepository` | tickets: 3 processes, 5 tickets, 3 changes of the world; replicas: 3 with 3 commits; series: 3 processes, 3 posts, both backends; rollback: 2 commands, 2 operations of up to 7 records, 2 commits of work | `NotOvertaken`; `VerdictHolds`, `HistoriesKept`; `SeriesSound`; `RollbackSound` |

Some of these invariants are conjunctions of parts that are stated, and commented,
on their own in the modules:

| Property | Parts |
| --- | --- |
| `GraphHeld` | `DependenciesHeld`, `RollupHeld`, `SupersessionHeld` |
| `ReceiptsSound` | `ReceiptsTruthful`: a local receipt names its own marked commit, a rejection left none; `AnswersDurable`: an answered client finds its own intent under its key |
| `EffectsSound` | `EffectAtMostOnce`, `EffectJournalTrue`, `EffectSessionKept`: the session an effect was prepared under is the current one or on record with its end |
| `EffectsInSession` | `CommittedInSession`: an effect recorded as committed took place while its session stood; `UnresolvedNotPassed`: no attempt follows a fenced session over unresolved effects, while one that was reopened over them may be followed |
| `PhasesAccounted` | `EffectsAtMostOnce`, `TerminalStates` |
| `BarrierKept` | `OneActiveBarrier`, `CommitInsideFence` |
| `SessionsFresh` | `HeldIsFresh`, `ScopeIsFresh` |
| `CommitAccounted` | `ReceiptProves`, `LandsOnce` |
| `RuntimeSound` | `SelectorSound` (`PublishedSurvives`, `FailedStaysInvisible`, `CommittedStays`; the last two up to a power failure that undoes a rename), `LaunchConsistent` |
| `BudgetKept` | `HeldStartsNothing`, `LaunchesBudgeted` |
| `LedgerSound` | `LedgerReloads`: a stored ledger validates when it is loaded again; `SeriesWithinWindow` |
| `HeadInStep` | `HistoryWithinAuthority`, `CleanWhenFree` |
| `RollbackSound` | `CompletedIsTrue`, `OnlyPlannedUndone` |
| `SeriesSound` | `SeriesWhole`, `OneComment`, `ReceiptNamesComment`: unless a mock wrote the receipt, in which case there is no comment at all |

Why the bounds are enough. Seven revisions let one task be claimed, bound,
reserved, given a result and finished or abandoned, and be claimed again by
another owner. A second execution does not finish within them: that the result of an
earlier one is no evidence for a later one is left to the theorem `OutcomeSafety`. Four
instants let a lease and a fence expire in either order, with
a renewal between. Every relation of the five-task
board needs two tasks, and its five revisions let each be claimed, accepted,
released and claimed again. A ledger of two attempts overflows with two series.
The code's windows are 3 to 16 with 64 attempts and 32 recoveries; the bounds keep the
proportion of the histories, so that a recovery may leave before the failures it closed
(`reopened`).
Two runs and a budget of one command make one run's record meet the other's preflight,
launch and resolution; nine revisions are both runs and a disposal between them. Four
outside changes let a candidate and its evidence be edited, put back, and the spec be
edited too; on a drift cycle, a path be dirty at the baseline, committed and edited
again. Two versions and the absence of a file are what a digest can tell apart.
Two writers and two tasks are all that a lost update, an overtaken export or a
restored scan involve, and the proofs remove the bound. Three replicas let two
others race the one that diverges. Two clients with one key in common meet as a
retry and as a conflict, and three commits are an intent's, a strict command's and
another clone's. One fault per behaviour suffices where recovery is what is asked
about: it may strike between any two steps, and the recovery itself is then
interrupted by interleaving, not by a second fault; the rollback journal, the locks
and the Git authority take several. Two attempts make a stale transition of the first meet the
row of the second. Six revisions of a rollback are what a failed restore, a failed
reconciliation and a further one take. Owners, processes and commands are
interchangeable in the symmetric runs: no definition tells them apart, and no
symmetric run checks a property that needs fairness.

Fairness is assumed in two specifications. In `FastPublication` the worker, the
service's writer thread and a client's own fallback keep taking steps while they can
(weak fairness): `serve_local` polls, a killed service is started again, and the
steps are sequential code that waits for nobody. The publisher gets none, since no
property needs the remote to answer. In `UpgradeEngine` the process that has the
engine's lock goes on, and an operator repeats the rollback command of a journal that
can be resumed; `VerifiedRollbackFinishes` needs both. `FenceRecoverable` and
`CapacityReturns` are stated as "the way out is enabled" and need none.

### Disagreements found

Two runs violate what the repository says.

| Run | What the code does |
| --- | --- |
| `RetryCircuit_slots` | a success with no failures on record drops other runs' live slots |
| `UpgradeEngine_refresh` | with the production rereaders, a Git commit effect that moved the head is never confirmed: the session's own recheck takes it for a foreign change, and the phase is journaled as ambiguous in safe mode. On SQLite the next phase's snapshot is refused instead |

The models also show these, which have no run of their own.

Command budget:

* a SQLite scan (`Scan`, `sqlite_storage.py:906`) advances a task's revision past its
  hold, after which disposal, every other mutation and the export are refused; on Git a
  hold refuses heartbeats, so the claim expires and neither disposal nor recovery
  validates (docs/EXTENDING.md:61-62 has the owner clear the hold).
  `HoldStaysDisposable` excludes the scan;
* disposing of a hold keeps the counters, so the next preflight records a hold again
  (docs/OPERATIONS.md:166-168); a changed policy makes an existing ledger unusable;
* `execution-finish` of a bound run does not carry the hold along as `update` does;
* a run whose resolution or record is refused because another one mutated the task
  leaves its child uncounted (`CompletionRefused`, `lost`).

Acceptance evidence:

* `accept` looks at assumptions without the board's tasks (`handoffctl.py:3183`), so a
  material dependency assumption refuses every acceptance (`Fresh`;
  docs/EXTENDING.md:48-52);
* `repair-predicate-ledger` of a ledger with two passing predicates leaves one that never
  validates again (`Repair`; docs/EXTENDING.md:104-112); accepting a predicate again for
  the same candidate, or reopening to an earlier one, is always refused, since the row
  that becomes history matches the ledger's candidate; an edited candidate or evidence
  file freezes its task;
* the classes in a spec's `required_evidence_classes` are never compared with those used;
* the delta misses a path that was uncommitted at the baseline and was put back to an
  unmoved HEAD (docs/PROJECT_GUIDE.md:149-152; `Differs` excludes it), and nothing looks
  at work after the delta; docs/PROJECT_GUIDE.md:156-162 rescopes after a delta, which
  the code refuses; a cycle of 32 records with an unexplained path can never complete;
* an observation assumption whose file is gone can be neither revalidated nor disposed of.

Task board, runs and authorities:

* a paused task whose revision a scan or an acceptance advanced is unblocked as if it
  had been released (`Unblock`, `handoffctl.py:2611`; docs/PROJECT_GUIDE.md:229-231
  excludes it);
* on Git, recover-execution of a fence whose claim has expired is refused by the
  validation that follows it, and abandon-execution refuses its result
  (`LeaseKept`, `handoffctl.py:1674`; `FenceRecoverable` fails with `Backend = "git"`,
  and `GitWedge` proves that the reservation of such an execution stays for ever);
* a slot resolution that is refused ends `run` before it journals the child's exit
  (`ResolveRefused`, `run_command.py:52`; docs/OPERATIONS.md:97-99 excludes it);
* exports that overtake each other leave older task files than the database with no
  crash and no report (`WriteTasks`, `handoffctl.py:2324`), although the views are caught;
* a second command that reaches its window overwrites the ledger's only hold
  (`NewHold`, `retry_circuit.py:449`): the first is then out of failures and not
  held, so neither a launch nor a recovery of it is admitted until durable progress
  changes the fingerprint;
* the oldest recovery leaves the history at the 33rd (`RecoverCircuit`,
  `retry_circuit.py:561`), possibly while failures it closed are among the 64 on record:
  they count again, and their command is out of failures without a hold, as above.
  `SeriesWithinWindow` is stated up to `reopened`;
* `git commit` killed at its 30 s deadline after it moved the ref (`CommitTimeout`,
  `handoffctl.py:3376`): the files are restored under a commit that contains the
  rejected change, which is why `HistoryWithinAuthority` is stated up to `timedOut`;
* `reconcile_sqlite` and `_rollback_commit` commit without
  `sync_replica_before_write` (`CommitUnsynced`, `handoffctl.py:2357`), so a clean
  replica that recorded `REPLICA_BEHIND` diverges, and one that recorded a divergence
  commits on top of it.

Rollback of a checkpoint:

* killed between the product revert and the journal, a rollback can never be
  reconciled: the head is neither the recorded one nor a recorded revert;
* the first error path of `cmd_rollback` records no revert commit, also when it
  skipped the product because an earlier attempt had made one (`RevertFails`,
  `forgotten`). A further reconciliation reverts everything up to that revert, work
  that had landed before it included: `OnlyPlannedUndone` excludes these operations;
* two commands may both pass `_rollback_target`; the loser's ambiguous record then
  follows the winner's completed one.

Issue series:

* a killed creation on Git leaves a manifest without its tasks, which later creations
  refuse (`SeriesWhole` is stated up to `torn`);
* a POST that lands after it was given up is a second comment (`late`); the
  publication lock is one per host; a Git receipt whose commit fails stays an
  uncommitted file;
* `publish --transport mock` stores the caller's comment identifier as a final receipt
  (`PublishOffline`, `issue_series_service.py:606-614`;
  tests/test_issue_series_handoffctl.py:175-185), which every later live publication
  takes for a published comment: the series then never gets one.

Upgrades:

* a process that dies between the commit of a released row and its intent's outcome
  leaves an intent that `recover_unknown` refuses for ever
  (`rollback_control_store.py:2462`; its docstring, 2843, says it fences every
  prepared outcome); so does an interrupted reconciliation of an ambiguous session
  whose revision is not 2 (1936-1943);
* a failing commit of a new attempt's creation over a released row fences the old,
  released session;
* begin_reopen does not look at prepared effects. Once a newer attempt has followed,
  recover_unknown refuses such an effect and prepare_authority_effect refuses every other
  one while it is unresolved; only a failing commit's fencing settles it
  (`UnresolvedNotPassed` excepts the reopened session);
* an effect whose session was reopened, fenced or replaced after its prepare still runs,
  with no lock, and may overwrite what others wrote meanwhile; it is refused only when its
  outcome is to be recorded (`RunEffect`, `outside`, `FinishRefused`);
* a control row can be released without a restore: control_complete_release believes the
  flags its caller passes (`ReleaseRow`; tests/test_lock_domain_scope.py:1218-1242), and
  cas_locked lacks the refusal of "released" that cas has (`CasRow`,
  `rollback_control_store.py:1257, 1272`);
* a writer takes no fence when a provisioning file is missing
  (`handoffctl.py:490-500`), although docs/UPGRADE_EXECUTION_REDESIGN.md:195-196 has a
  missing control store fail closed once the marker exists: `WritesFenced` is about
  writers of a provisioned project;
* the engine writes two kinds of journal that `_load` refuses: a rollback from safe
  mode, and a rejected rollback with outcome "failed" (`upgrade_engine.py:985, 1145`);
* Git board writes are not fenced at all: they are faults inside a held session in
  UpgradeEngine, and steps of their own in AuthorityCommit;
* a rejection inside `commit()` after staging is reported as rejected before the effect
  although index and work tree have changed; the Git capability commits the whole
  index, what a concurrent board command staged included; a restore by `reset --hard`
  may drop a later board commit;
* a reconciled publication is reported as committed without its directory being
  synchronised, unless a temporary had to be removed, so that a power failure may undo it
  (`CommittedStays` is stated up to `reverted`); staged files are not synchronised;
* a launch verifies a release's manifest, not the files it lists: altered files under the
  same manifest are launched, and imports follow the path wherever it leads by then
  (`LaunchConsistent` promises whole files and one directory only of releases that nobody
  changed outside the protocol).

## 4. Proofs

| Theorem | For every | Argument |
| --- | --- | --- |
| `TaskBoardProofs!Typing` | board, graph, backend | each action keeps each field's type |
| `ClaimSafety` | " | `ClaimsCoherent` is what `ValidBoard` demands of the board after a mutation; observations and the clock do not touch what it reads |
| `FenceSafety` | " | inductive with the types and the claim shape: every action that drops a claim requires `Unfenced` or clears the fence itself |
| `OutcomeSafety` | " | needs `FreshIds`: identifiers of results, fences and abandonments are below the task's revision, so a new execution never collides with an old one |
| `FenceAccounting` | " | an action property, from the same invariant |
| `GraphSafety` | " | `GraphStep`: what a mutation's validation demanded of dependencies, parents and successors survives every later mutation, the rollback of the very task excepted |
| `LiveWorkerSafety` | " | an action property: only its owner ends a claim, or a recovery that found the lease expired and a session record of this very revision |
| `ResumeSafety` | " | `PauseCurrent`: a paused task's newest session record is the pause that blocked it |
| `FenceWayOut` | " | the board that recover-execution or abandon-execution would leave is valid, part by part: `ValidBoard` of the board before, `GraphHeld` and the claim that the step ends |
| `GitWedge` | board, graph, on Git | `Wedged` (an expired claim over a recorded result) is kept by every action, because each that could end it must pass `LeaseKept` |
| `AuthorityProofs!SqliteLinearization` | number of writers and tasks | `FreshBase`: a writer expects no future revision, so an expectation still met means its loaded body is current |
| `ViewCurrency` | " | `StaleIsPending`: unless somebody reported a failure, the views are current or a writer is still exporting; the validation after an export catches one that was overtaken |
| `Linearization` | number of writers, tasks, kills, deadline or not | `SnapshotSound`: until the holder commits, its snapshot is what it found and the files are exactly one change later |
| `HeadStaysInStep` | " | `HeadReached`, `FileKnown`: the head is what the settled files once were, unless a commit was reported as failed; without kills a file is the head's or one that the marker names |
| `UpgradeSupportProofs!Exclusion` | processes and replaced lock files | the control lock that everybody takes is exclusive, and nobody goes on with a lock file that is not the named one |
| `Freshness`, `Fencing` | " | `Admitted`: what a process found when it took its last lock still holds, because whoever could change it needs that lock |
| `WaitOrder` | " | a process asks only for locks above those it holds |
| `CommitAccounting` | retries, crashes, replaced authorities, both backends | until the effect nothing has landed; admissions and repositories only get newer, so what is found unchanged after the effect was so during it; a board commit contains nothing of the payload |
| `RuntimeSafety` | releases, stagers, power failures | a selector file's content is written once; while a publication is under way the selector is the one it found or the one it put there; a directory that was replaced has a later inode, so one found again never went away; what is at the path of an untouched release is what a stager verified |
| `StateRepositoryProofs!Freshness` | number of reconciles | tickets are drawn in the order of the world's versions, so a ticket not superseded was drawn no earlier than any completed one, and its scan came after |
| `VerdictSafety`, `HistorySafety` | replicas, commits, lost pushes | what a replica fetched is a part of the remote's history, and histories only grow; a replica that is ready to commit has no divergence on record |
| `SeriesSafety` | processes, boards and posts, both backends | `CreationSound`: one creation works at a time over the manifest it wrote; `PublicationSound`: one publication holds the key from its look at the comments to the record of its outcome; `MockInv`: a mock's receipt is the first and final one, so nobody ever posted |
| `RollbackSafety` | operators, operations, commits and failures | `RecordSound`, `Settled`, `CommandSound`: a record names the tree its operation was planned for, and what a revert took out stays out, since later trees only add new work; operations whose record left a revert out are excepted |
| `TaskRecordsProofs!HoldSafety` | runs, policies, both backends | a mutation that keeps a standing hold is refused, so a hold has the task's revision until it is disposed of or an unvalidated scan passes it |
| `BudgetSafety` | " | `LaunchesCounted`: a child that was started is recorded, lost or still to be recorded, and runs admitted before the budget was used up are the only excess |
| `LedgerSafety` | runs, commands, fingerprints, windows, bounds of the histories, both backends | `SlotsFit`: a slot that no mutation followed has room for the failure of its run; `SeriesUniform`: the failures of a series asked for one window |
| `CapacityWayOut` | " | the ledger that a launch would leave, its elapsed slots removed, validates |
| `EvidenceSafety` | predicates, files, edits, repairs and rollbacks | `LedgerBound`: a ledger belongs to a bound spec, which stays bound, so that admission always validates it |
| `DriftSafety` | paths, commits and edits | `DeltaCovers`: a path whose content differs from the baseline's is in the delta, committed or not |
| `BarrierSessionProofs!Refinement` | processes, attempts, operations and faults | each step of the store is a step of `BarrierContract` or a stutter: `OneOwner`, `OwnerFindsRow`, `SnapshotPast` (a snapshot is the current row or an earlier one) |
| `SeenFollows` | " | from `Refinement`: each transition of the contract is a move of `SessionView` |
| `AttemptStaysOver` | " | from `Refinement`: attempts only get newer, and a finished row is left only for a newer attempt |
| `EffectsWithinSession` | " | `RunBehind`: a running effect's session is the current one or behind it, and a session once left never stands again, so one found standing at the finish stood when the effect ran |
| `EffectSoundness` | " | `RunRecorded`, `RunnersDiffer`, `AppliedRecorded`: who runs an effect has its record, and no two run the same one |
| `FastPublicationProofs!AppliedOnce` | keys, workers, clients and faults | a marker is written with the commit that it names, and recovery looks for it before it applies anything |
| `ReceiptSoundness` | " | a receipt is completed from a commit that is in the history |
| `PublicationSoundness` | " | a record is marked published only after the remote was seen to contain its commit, and the remote drops none |
| `ReceiptsOnlyAdvance` | " | who finishes or publishes a receipt holds the row as it is stored, so nothing recorded is overwritten |
| `UpgradeEngineProofs!PhaseAccounting` | operations, processes and faults, both backends | `EngineInv`, described below |
| `BarrierSafety` | " | a row is inserted only when none is active, and no transition leads back to an active one; between a commit's effect and its confirmation the session is found held by the same attempt, which an attempt that lost it never is again |
| `RecordsAdvance` | " | `JournalsGrow`, `RowsAdvance`: from `EngineInv`, a process writes the journal it read, longer by what it did |
| `EngineMeetsSession`, `SessionOnlyFollows` | " | each move of `SessionFollows` is one of `AcquireFence`, `ProvisionFence` and `LoseFence`, and these move it in no other way |

Composition. BarrierSession and UpgradeEngine are checked apart, since their product is
out of TLC's reach. `SeenFollows` says that the store moves what the engine sees along
`SessionFollows` only, `EngineMeetsSession` that the engine's specification has a step
for every such move while no rollback owns the lock (the store takes that lock for each
of them; a fencing counts as a fault, of which the proofs allow any number), and
`SessionOnlyFollows` that it assumes nothing else. So the engine's
theorems hold with the modelled store in place of its abstract session.

Assumptions: only the named `ASSUME`s on the constants, which TLC evaluates in the
runs. They say that sets are finite, or bounds numbers, where that is needed, and that
`None` is no other value; `GatedAssumption` is a bound of the runs and no proof uses it.
`SqliteAssumption` also asks for a task: `SomeTask` fills the request of an idle writer.
The strings that
FastPublication compares are proved about as members of a finite set of codes, `Codes`,
because the provers do not type string literals.

The inductive invariants are needed because none of the listed properties is
inductive: each depends on how a value another step will use was obtained.

* `AuthorityProofs`: `Invariance` and `TablesInvariance` relate what a writer loaded to
  what is stored when it writes.
* `UpgradeSupportProofs`: for each point at which a process can stop, the locks it holds
  are the named ones and what it was admitted on still holds; the journaled state of the
  one capability against the authority; the selector file and its directory, as seen and
  as durable.
* `StateRepositoryProofs`: `SyncInvariance` (what a replica fetched is a prefix of the
  remote), `SeriesInvariance` (what each process at each of its steps knows of the
  receipt and of the comments), `RollbackInvariance`.
* `TaskRecordsProofs`: `BudgetInv`, `CircuitInv` and `EvidenceInv`. Counting runs and
  failures uses the theorems on finite sets; that a bounded history keeps the newest
  entries in their order is `KeptEntries`.
* `BarrierSessionProofs`: for each process, what it read against the stored row and
  the stored intent, and that the two are written by one transaction.
* `FastPublicationProofs`: `HistoryInv`, `RowInv`, `ClientInv`, `WorkerInv` and
  `PublisherInv`: what each party holds (marker, request, remote answer) at each of its
  steps. FastReceipts and FastPublication share the receipts, so one invariant covers
  both.
* `UpgradeEngineProofs`: `Exclusive` (one process is between taking and leaving the
  lock), `AccountsFor` (the journal, the stored row, the copy and the counts of phases
  started and landed agree, with at most the phase in flight missing), `ForwardOK` and
  `BackwardOK` (what a process in the middle of an upgrade or a rollback remembers is
  what is stored), `HolderOK` and `RowsOK` (at most one active row).

Model-checked only: `FenceRecoverable` and `CapacityReturns` (they use `ENABLED`,
which TLAPS does not handle), `IntentsSettle` and `VerifiedRollbackFinishes`
(liveness under fairness). What the provers can say of them is proved: `FenceWayOut`
and `CapacityWayOut` take the successor that the way out would produce and show that it
satisfies the action, in every state of the inductive invariant;
`ReceiptsOnlyAdvance` and `RecordsAdvance` say that no step undoes the progress the two
liveness properties ask for. Every other property of a passing run is a theorem.

## 5. Not modelled

The Python runtime, direct edits of the state and network file systems (outside the
repository's own claims too); power loss except for the runtime selector, where the
code handles it. Rendering, privacy scans and command-line parsing keep no state. Not
modelled of the modelled parts: the autonomy record of a bound run, database migrations, the execution-envelope tables,
descriptor checks that only refuse, the correspondence and evidence modules of the
upgrade, which read and compare, and vendoring. A lock file that is exchanged and put
back, and a repository replaced and restored, are not distinguished from untouched
ones. The authenticity of a release is external.

The records of oracle gates, directives, roles and discussions are appended in one critical section of the
coordinator's lock each; what they add is schemas and pure functions, and TaskBoard
keeps the flag or summary that its guards read. The gate's bounded history is among
them: a gate that reaches its event or round limit unresolved can no longer be
completed (`oracle_lifecycle.py:355`). The observation cache of the fast path
belongs to one process and nothing decides on it. Backups are copies made and
verified under the locks of LockDomain.

## 6. Plan

Modelled and checked: everything in section 2. Proved: every safety property of the
passing runs that does not speak of `ENABLED`, the composition of the session store with
the upgrade engine, and what of the others the provers can reach (section 4). What is left:

1. the full type invariants of the modules whose proofs only carry the shapes they need;
2. SessionView for LockDomain too, whose writers read the same session.
