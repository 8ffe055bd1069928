---------------------------- MODULE BarrierSession ----------------------------
(***************************************************************************)
(* The durable barrier session of tools/rollback_control_store.py          *)
(* (SQLiteBarrierSessionStore) and the authority effects run behind it     *)
(* (tools/authority_mutation.py).                                          *)
(*                                                                         *)
(* Every transition is written twice: the session row together with a      *)
(* prepared intent in one commit, the intent's outcome in a second one.    *)
(* A process may die between the two, a commit may raise although it        *)
(* landed, and the snapshot a caller computed its transition from may be   *)
(* stale by the time it takes the operation lock.                          *)
(***************************************************************************)
EXTENDS Naturals, FiniteSets

CONSTANTS
    Attempts,     \* state revisions that name the attempts, a set of naturals
    Ops,          \* operation identities of children and effects
    None,         \* absent row, child or reopen target
    Procs,        \* processes that use the control store
    MaxRev,       \* bound on the revision of one session
    MaxFaults     \* bound on crashes and failing commits

ASSUME BarrierAssumption ==
    /\ Attempts \subseteq Nat \ {0}
    /\ MaxRev \in Nat /\ MaxFaults \in Nat
    /\ None \notin Ops

VARIABLES
    row,          \* table barrier_session: the project's one row, or None
    history,      \* table barrier_session_history: how an attempt ended, or None
    intents,      \* prepared rows of table barrier_session_intent; a settled
                  \* row is not read again by a transition or by recovery
    effects,      \* table authority_effect_intent
    proc,         \* what each process is in the middle of
    drifted,      \* the authority's revision is no longer the one the current
                  \* session acquired (authority_revision_at_acquire)
    applied,      \* how often the authority effect of an operation took place
    outside,      \* operations whose effect took place when the session it was
                  \* prepared under no longer stood
    faults

durable == <<row, history, intents, effects>>
happened == <<applied, outside>>
vars == <<durable, proc, drifted, happened, faults>>

Contract == INSTANCE BarrierContract WITH session <- row

Targets == Contract!Targets

Idle == [at |-> "idle"]

\* program points at which a process owns the operation lock
Owning == {"outcome", "fence", "refence", "recovering"}

LockFree == \A p \in Procs : proc[p].at \notin Owning

Goto(p, state) == proc' = [proc EXCEPT ![p] = state]

Unresolved == {e \in effects : e.outcome = "prepared"}

\* _mark_effect_intent_locked
Settled(chosen, outcome) ==
    (effects \ chosen) \union {[e EXCEPT !.outcome = outcome] : e \in chosen}

Init ==
    /\ row = None
    /\ history = [a \in Attempts |-> None]
    /\ intents = {}
    /\ effects = {}
    /\ proc = [p \in Procs |-> Idle]
    /\ drifted = FALSE
    /\ applied = [op \in Ops |-> 0]
    /\ outside = {}
    /\ faults = 0

-----------------------------------------------------------------------------
(* _cas_locked: the guarded write of a row and its prepared intent.          *)

Intent(expected, new) ==
    [att |-> new.att, expected |-> expected, proposed |-> new.rev,
     status |-> new.status]

\* CAS(0) over a finished session by a newer attempt
Replaces(expected, new) ==
    /\ expected = 0 /\ row # None
    /\ row.status = "released" /\ new.status = "held"
    /\ new.att > row.att

\* STATUS_TRANSITIONS
Transitions(status) ==
    CASE status = "held"      -> {"held", "releasing", "ambiguous"}
      [] status = "releasing" -> {"releasing", "released", "ambiguous"}
      [] status = "released"  -> {"released"}
      [] OTHER                -> {}

CasAdmits_AnyAttempt(expected, new) ==
    \/ row = None /\ expected = 0
    \/ Replaces(expected, new)
    \/ /\ row # None
       /\ row.rev = expected
       /\ new.status \in Transitions(row.status)
       /\ new.rev = expected + 1
CasAdmits(expected, new) ==
    \/ row = None /\ expected = 0
    \/ Replaces(expected, new)
    \/ /\ row # None
       /\ row.rev = expected /\ row.att = new.att
       /\ new.status \in Transitions(row.status)
       /\ new.rev = expected + 1

\* the session a new attempt replaces is archived in the same commit
Archived(new) ==
    IF row # None /\ row.att # new.att
    THEN [history EXCEPT ![row.att] = [status |-> row.status, rev |-> row.rev]]
    ELSE history

\* The first commit.  It may raise although it landed, or without landing; the
\* caller then owns the lock until it has fenced the uncertainty.
Write(p, expected, new, outcome) ==
    LET landed ==
            /\ row' = new
            /\ intents' = intents \union {Intent(expected, new)}
            /\ drifted' = (drifted /\ new.rev # 1)
            /\ history' = Archived(new)
            /\ UNCHANGED effects
        next(point) == [at |-> point, intent |-> Intent(expected, new),
                        new |-> new, outcome |-> outcome]
    IN  /\ new.rev <= MaxRev
        /\ \/ landed /\ Goto(p, next("outcome")) /\ UNCHANGED faults
           \/ /\ faults < MaxFaults /\ faults' = faults + 1
              /\ landed \/ UNCHANGED <<durable, drifted>>
              /\ Goto(p, next("fence"))
        /\ UNCHANGED happened

-----------------------------------------------------------------------------
(* Transitions of a session.                                                 *)

\* create / create_locked: the identity carries the authority revision just read
Create(p, a) ==
    /\ LockFree /\ proc[p].at = "idle"
    /\ LET new == Contract!Fresh(a, "held", 1)
       IN  CasAdmits(0, new) /\ Write(p, 0, new, "committed")

ProvisionReleased(p, a) ==
    /\ LockFree /\ proc[p].at = "idle"
    /\ row = None
    /\ Write(p, 0, Contract!Fresh(a, "released", 1), "committed")

Snapshot(p) ==
    /\ LockFree /\ proc[p].at = "idle"
    /\ row # None
    /\ Goto(p, [at |-> "snapped", seen |-> row])
    /\ UNCHANGED <<durable, drifted, happened, faults>>

\* cas: the authority is reread under the lock, then the row must still be the
\* one the transition was computed from
Cas(p, new) ==
    LET seen == proc[p].seen
    IN  /\ LockFree
        /\ ~drifted
        /\ CasAdmits(seen.rev, new)
        /\ Write(p, seen.rev, new, "committed")

BindChild(p, t, op) ==
    /\ proc[p].at = "snapped"
    /\ Contract!CanBind(proc[p].seen, t, op)
    /\ Cas(p, Contract!Bound(proc[p].seen, t, op))

BeginReopen(p, t) ==
    /\ proc[p].at = "snapped"
    /\ Contract!CanBeginReopen(proc[p].seen, t)
    /\ Cas(p, Contract!Reopening(proc[p].seen, t))

CompleteReopen(p) ==
    /\ proc[p].at = "snapped"
    /\ Contract!CanCompleteReopen(proc[p].seen)
    /\ Cas(p, Contract!Advance(proc[p].seen, "released"))

MarkAmbiguous(p) ==
    /\ proc[p].at = "snapped"
    /\ proc[p].seen.status \in {"held", "releasing"}
    /\ Cas(p, Contract!Advance(proc[p].seen, "ambiguous"))

\* the transition is refused and nothing is written
GiveUp(p) ==
    /\ proc[p].at = "snapped"
    /\ Goto(p, Idle)
    /\ UNCHANGED <<durable, drifted, happened, faults>>

\* reconcile_ambiguous: only a newer fence follows, once nothing is prepared
ReconcileAmbiguous(p, a) ==
    /\ LockFree /\ proc[p].at = "idle"
    /\ row # None /\ row.status = "ambiguous"
    /\ a > row.att
    /\ intents = {} /\ Unresolved = {}
    /\ Write(p, row.rev, Contract!Fresh(a, "held", 1), "reconciled")

-----------------------------------------------------------------------------
(* The second commit, and what follows a commit that raised.                 *)

PublishOutcome(p) ==
    /\ proc[p].at = "outcome"
    /\ intents' = intents \ {proc[p].intent}
    /\ Goto(p, Idle)
    /\ UNCHANGED <<row, history, effects, drifted, happened, faults>>

\* the outcome is not recorded, or its commit raises: only the commit of a cas
\* fences the uncertainty, a reconciliation just reports it
PublishFails(p) ==
    /\ proc[p].at = "outcome"
    /\ faults < MaxFaults /\ faults' = faults + 1
    /\ \/ UNCHANGED intents
       \/ intents' = intents \ {proc[p].intent}
    /\ \/ Goto(p, Idle)
       \/ proc[p].outcome = "committed" /\ Goto(p, [at |-> "refence"])
    /\ UNCHANGED <<row, history, effects, drifted, happened>>

\* _mark_ambiguous_after_commit_failure: whatever row is found becomes ambiguous
FenceWrite(p) ==
    /\ proc[p].at = "fence"
    /\ row' = IF row = None
              THEN [proc[p].new EXCEPT !.status = "ambiguous",
                                       !.rev = proc[p].intent.expected + 1]
              ELSE Contract!Advance(row, "ambiguous")
    /\ Goto(p, Idle)
    /\ UNCHANGED <<history, intents, effects, drifted, happened, faults>>

\* _mark_recovery_ambiguous_after_commit_failure: the row of an active session
\* and every prepared intent become ambiguous
FenceRecovery(p) ==
    /\ proc[p].at = "refence"
    /\ row' = IF row.status \in {"held", "releasing"}
              THEN Contract!Advance(row, "ambiguous") ELSE row
    /\ intents' = {}
    /\ effects' = Settled(Unresolved, "ambiguous")
    /\ Goto(p, Idle)
    /\ UNCHANGED <<history, drifted, happened, faults>>

Crash(p) ==
    /\ proc[p].at \notin {"idle", "snapped"}
    /\ faults < MaxFaults /\ faults' = faults + 1
    /\ Goto(p, Idle)
    /\ UNCHANGED <<durable, drifted, happened>>

-----------------------------------------------------------------------------
(* Authority effects: DurableBoundAuthorityMutation over the effect journal.  *)

\* no operation is ever recorded twice, whatever became of it
Unrecorded_InAttempt(op) == \A e \in effects : e.op = op => e.att # row.att
Unrecorded(op) == \A e \in effects : e.op # op

\* prepare_authority_effect, reached through a live binding, which wants both
\* children bound; when its commit raises, the effect is not run
PrepareEffect(p, t, op) ==
    LET intent == [op |-> op, att |-> row.att, rev |-> row.rev,
                   outcome |-> "prepared"]
    IN  /\ LockFree /\ proc[p].at = "idle"
        /\ row # None /\ row.status = "held" /\ row.rbk # None
        /\ Contract!Child(row, t) = op
        /\ Unresolved = {}
        /\ Unrecorded(op)
        /\ \/ /\ effects' = effects \union {intent}
              /\ Goto(p, [at |-> "effect", intent |-> intent])
              /\ UNCHANGED faults
           \/ /\ faults < MaxFaults /\ faults' = faults + 1
              /\ effects' \in {effects, effects \union {intent}}
              /\ UNCHANGED proc
        /\ UNCHANGED <<row, history, intents, drifted, happened>>

\* what finish_authority_effect is told after each way the effect can end
OutcomeOf(result) ==
    CASE result = "receipt"  -> "committed"
      [] result = "rejected" -> "rejected"
      [] result = "raised"   -> "ambiguous"

\* the session an effect was prepared under still stands, unchanged
Stands(intent) ==
    /\ row # None /\ row.status = "held"
    /\ row.att = intent.att /\ row.rev = intent.rev

\* the external effect, a commit or a restore, runs with no lock held: it returns a
\* verified receipt, is rejected before it begins, or raises with its outcome unknown
RunEffect(p, result) ==
    LET op == proc[p].intent.op
        done == [applied EXCEPT ![op] = @ + 1]
    IN  /\ proc[p].at = "effect"
        /\ \/ result = "receipt" /\ applied' = done
           \/ result = "rejected" /\ UNCHANGED applied
           \/ result = "raised" /\ applied' \in {applied, done}
        /\ outside' = IF applied' # applied /\ ~ Stands(proc[p].intent)
                      THEN outside \union {op} ELSE outside
        /\ drifted' \in {drifted, drifted \/ applied' # applied}
        /\ Goto(p, [at |-> "ran", intent |-> proc[p].intent, outcome |-> OutcomeOf(result)])
        /\ UNCHANGED <<durable, faults>>

\* _effect_intent_matches
StillBound_Attempt(intent) == row # None /\ row.att = intent.att /\ intent \in effects
StillBound(intent) == Stands(intent) /\ intent \in effects

FinishEffect(p) ==
    LET o == proc[p].outcome
        done == /\ effects' = Settled({proc[p].intent}, o)
                /\ row' = IF o = "ambiguous" THEN Contract!Advance(row, o) ELSE row
    IN  /\ LockFree /\ proc[p].at = "ran"
        /\ StillBound(proc[p].intent)
        /\ \/ done /\ Goto(p, Idle) /\ UNCHANGED faults
           \/ /\ faults < MaxFaults /\ faults' = faults + 1
              /\ done \/ UNCHANGED <<effects, row>>
              /\ Goto(p, [at |-> "refence"])
        /\ UNCHANGED <<history, intents, drifted, happened>>

\* the session moved on or was fenced while the effect ran
FinishRefused(p) ==
    /\ LockFree /\ proc[p].at = "ran"
    /\ ~StillBound(proc[p].intent)
    /\ Goto(p, Idle)
    /\ UNCHANGED <<durable, drifted, happened, faults>>

-----------------------------------------------------------------------------
(* recover_unknown: prepared effects first, then prepared session intents.    *)

EffectMatches(e) == e.att = row.att /\ e.rev \in {row.rev, row.rev - 1}

\* a commit of recovery lands, or raises and is fenced
Recovering(p, next, done) ==
    \/ done /\ Goto(p, next) /\ UNCHANGED faults
    \/ /\ faults < MaxFaults /\ faults' = faults + 1
       /\ done \/ UNCHANGED <<row, intents, effects>>
       /\ Goto(p, [at |-> "refence"])

RecoverEffects(p) ==
    LET pending == Unresolved
        done == /\ effects' = Settled(pending, "ambiguous")
                /\ row' = IF row.status = "held"
                          THEN Contract!Advance(row, "ambiguous") ELSE row
                /\ UNCHANGED intents
    IN  /\ LockFree /\ proc[p].at = "idle"
        /\ pending # {} /\ row # None
        /\ \A e \in pending : EffectMatches(e)
        /\ Recovering(p, Idle, done)
        /\ UNCHANGED <<history, drifted, happened>>

\* _is_interrupted_reconciliation
Reconciliation(i) ==
    /\ row.status = "held" /\ i.status = "held"
    /\ i.proposed = row.rev /\ i.expected = row.rev + 1

\* _prepared_intent_matches
IntentMatches(i) ==
    /\ i.att = row.att
    /\ \/ i.proposed = row.rev /\ i.expected = row.rev - 1 /\ i.status = row.status
       \/ /\ row.status = "ambiguous" /\ i.status \in {"held", "releasing"}
          /\ i.proposed = row.rev - 1 /\ i.expected = i.proposed - 1
       \/ Reconciliation(i)

\* _reconciliation_history_matches
PrecededBy(i) ==
    \E a \in Attempts :
        /\ history[a] # None /\ history[a].rev = i.expected
        /\ history[a].status = "ambiguous" /\ a < row.att

RecoveryAdmitted(pending) ==
    /\ row # None
    /\ \A i \in pending : IntentMatches(i)

RecoverReconciled(p) ==
    LET pending == intents
    IN  /\ LockFree /\ proc[p].at = "idle"
        /\ Unresolved = {} /\ pending # {}
        /\ RecoveryAdmitted(pending)
        /\ \A i \in pending : Reconciliation(i) /\ PrecededBy(i)
        /\ Recovering(p, Idle, intents' = {}
                                /\ UNCHANGED <<row, effects>>)
        /\ UNCHANGED <<history, drifted, happened>>

\* the row is fenced in one commit, the intents are settled in the next
RecoverRow(p) ==
    LET pending == intents
    IN  /\ LockFree /\ proc[p].at = "idle"
        /\ Unresolved = {} /\ pending # {}
        /\ RecoveryAdmitted(pending)
        /\ ~ \A i \in pending : Reconciliation(i)
        /\ row.status \in {"held", "releasing", "ambiguous"}
        /\ Recovering(p, [at |-> "recovering"],
                      /\ row' = IF row.status = "ambiguous" THEN row
                                ELSE Contract!Advance(row, "ambiguous")
                      /\ UNCHANGED <<intents, effects>>)
        /\ UNCHANGED <<history, drifted, happened>>

RecoverIntents(p) ==
    /\ proc[p].at = "recovering"
    /\ Recovering(p, Idle, intents' = {}
                            /\ UNCHANGED <<row, effects>>)
    /\ UNCHANGED <<history, drifted, happened>>

-----------------------------------------------------------------------------

\* the authority changes for reasons of its own
AuthorityMoves ==
    /\ row # None /\ ~drifted
    /\ drifted' = TRUE
    /\ UNCHANGED <<durable, proc, happened, faults>>

Step(p) ==
    \/ \E a \in Attempts : Create(p, a) \/ ProvisionReleased(p, a)
    \/ \E a \in Attempts : ReconcileAmbiguous(p, a)
    \/ Snapshot(p) \/ GiveUp(p)
    \/ \E t \in Targets, op \in Ops : BindChild(p, t, op) \/ PrepareEffect(p, t, op)
    \/ \E t \in Targets : BeginReopen(p, t)
    \/ CompleteReopen(p) \/ MarkAmbiguous(p)
    \/ PublishOutcome(p) \/ PublishFails(p) \/ FenceWrite(p) \/ FenceRecovery(p)
    \/ \E result \in {"receipt", "rejected", "raised"} : RunEffect(p, result)
    \/ FinishEffect(p) \/ FinishRefused(p)
    \/ RecoverEffects(p) \/ RecoverReconciled(p) \/ RecoverRow(p) \/ RecoverIntents(p)
    \/ Crash(p)

Next == (\E p \in Procs : Step(p)) \/ AuthorityMoves

Spec == Init /\ [][Next]_vars

-----------------------------------------------------------------------------
(* Properties.                                                               *)

Rows == [att : Attempts, status : Contract!Statuses, rev : Nat,
         fwd : Ops \union {None}, rbk : Ops \union {None},
         target : Targets \union {None}]

IntentRows == [att : Attempts, expected : Nat, proposed : Nat,
               status : Contract!Statuses]

EffectRows == [op : Ops, att : Attempts, rev : Nat,
               outcome : {"prepared", "committed", "rejected", "ambiguous"}]

\* how an attempt ended, as the history records it
Endings == [status : Contract!Statuses, rev : Nat]

\* a missing row is told apart from every row
ASSUME NoneAssumption == None \notin Rows /\ None \notin Endings

\* Every table holds well-formed records and one row per project, and at most
\* one process is inside the operation lock.
TypeOK ==
    /\ row \in Rows \union {None}
    /\ \A a \in Attempts : history[a] \in Endings \union {None}
    /\ intents \subseteq IntentRows
    /\ effects \subseteq EffectRows
    /\ \A p, q \in Procs :
           proc[p].at \in Owning /\ proc[q].at \in Owning => p = q
    /\ drifted \in BOOLEAN /\ faults \in Nat

\* The durable session does what the contract says, through every crash,
\* failing commit, stale snapshot and recovery: the row only ever takes the
\* contract's transitions, an ambiguous session is never quietly reopened, and
\* a later attempt is always a newer one.
RefinesContract == Contract!Spec

\* The authority effect of one operation takes place at most once: not again
\* after a crash between prepare and finish, a lost outcome, a recovery, or
\* under the fresh session that replaced an ambiguous one.
EffectAtMostOnce == \A op \in Ops : applied[op] <= 1

\* What the effect journal records as settled is what happened: a committed
\* effect took place and a rejected one did not.
EffectJournalTrue ==
    \A e \in effects : /\ e.outcome = "committed" => applied[e.op] = 1
                       /\ e.outcome = "rejected" => applied[e.op] = 0

\* The session an effect was prepared under is never lost: it is the current one,
\* or the history tells how it ended, finished or fenced.
EffectSessionKept ==
    \A e \in effects :
        \/ e.att = row.att
        \/ /\ history[e.att] # None
           /\ history[e.att].status \in {"released", "ambiguous"}

\* An operation's effect happens at most once, its journal tells the truth about
\* it, and the session it was prepared under is on record
\* (prepare_authority_effect, finish_authority_effect, recover_unknown).
EffectsSound == EffectAtMostOnce /\ EffectJournalTrue /\ EffectSessionKept

\* An effect runs with no lock held, and the session may be reopened, fenced or
\* replaced before it runs, while it runs or before its outcome is recorded: an
\* effect recorded as committed took place while the session that it was prepared
\* under stood.
CommittedInSession ==
    \A e \in effects : e.outcome = "committed" => e.op \notin outside

\* An effect without an outcome belongs to the current session or to one that was
\* reopened over it, which begin_reopen does; no new attempt follows a fenced session
\* whose effects are unresolved (reconcile_ambiguous).
UnresolvedNotPassed ==
    \A e \in Unresolved :
        e.att = row.att \/ (history[e.att] # None /\ history[e.att].status = "released")

\* What effects and sessions owe each other (prepare_authority_effect,
\* finish_authority_effect, reconcile_ambiguous).
EffectsInSession == CommittedInSession /\ UnresolvedNotPassed

=============================================================================
