-------------------------- MODULE TaskBoardProofs --------------------------
(***************************************************************************)
(* Theorems about TaskBoard, for every set of tasks, owners and workers,   *)
(* every dependency graph and either authority backend.                    *)
(***************************************************************************)
EXTENDS TaskBoard, TLAPS

-----------------------------------------------------------------------------
(* Type correctness.                                                       *)

\* The imported board is well typed.
LEMMA InitTyped == Init => TypeOK
  BY ConstantsAssumption
  DEF Init, TypeOK, Session, Statuses

\* A step an owner asks for keeps the board well typed.
LEMMA OwnerStepTyped ==
  ASSUME TypeOK, NEW t \in Tasks, NEW o \in Owners, OwnerStep(t, o)
  PROVE  TypeOK'
  <1> USE ConstantsAssumption DEF Set, Mutation, world, claimVars, bindVars,
          execVars, evidence, history
  <1>1. ASSUME NEW w \in Workers \cup {None}, NEW lease \in Leases, Claim(t, o, w, lease)
        PROVE  TypeOK'
    <2>1. "in_progress" \in Statuses /\ clock + lease \in Nat
      BY DEF TypeOK, Statuses
    <2>2. (IF w = None THEN None ELSE [pid |-> w, boot |-> boot]) \in Identity \cup {None}
      <3>1. boot \in Nat
        BY DEF TypeOK
      <3> QED
        BY <3>1 DEF Identity
    <2> QED
      BY <1>1, <2>1, <2>2 DEF TypeOK, Claim
  <1>2. ASSUME NEW lease \in Leases, Heartbeat(t, o, lease)
        PROVE  TypeOK'
    BY <1>2 DEF TypeOK, Heartbeat
  <1>3. CASE Update(t, o)
    BY <1>3 DEF TypeOK, Update, Session
  <1>4. ASSUME NEW to \in ReleaseStatuses, Release(t, o, to)
        PROVE  TypeOK'
    BY <1>4 DEF TypeOK, Release, DropClaim
  <1>5. CASE Pause(t, o)
    BY <1>5 DEF TypeOK, Pause, DropClaim, Session, Statuses
  <1>6. ASSUME NEW b \in Branches, NEW w \in Worktrees, BindWorktree(t, o, b, w)
        PROVE  TypeOK'
    BY <1>6 DEF TypeOK, BindWorktree
  <1>7. CASE BindEnvelope(t, o)
    BY <1>7 DEF TypeOK, BindEnvelope
  <1>13. CASE ReplaceEnvelope(t, o)
    BY <1>13 DEF TypeOK, ReplaceEnvelope
  <1>8. CASE Accept(t, o)
    BY <1>8 DEF TypeOK, Accept
  <1>9. CASE Checkpoint(t, o)
    BY <1>9 DEF TypeOK, Checkpoint, Snapshot
  <1>10. ASSUME NEW length \in Leases, ExecutionStart(t, o, length)
         PROVE  TypeOK'
    BY <1>10 DEF TypeOK, ExecutionStart, Fence
  <1>11. ASSUME NEW id \in 1 .. MaxRevision, ExecutionResult(t, o, id)
         PROVE  TypeOK'
    BY <1>11 DEF TypeOK, ExecutionResult, Receipt
  <1>12. ASSUME NEW id \in 1 .. MaxRevision, ExecutionFinish(t, o, id)
         PROVE  TypeOK'
    BY <1>12 DEF TypeOK, ExecutionFinish, ClearFence
  <1> QED
    BY <1>1, <1>2, <1>3, <1>4, <1>5, <1>6, <1>7, <1>8, <1>9, <1>10, <1>11,
       <1>12, <1>13
    DEF OwnerStep

\* A step an operator asks for keeps the board well typed.
LEMMA OperatorStepTyped ==
  ASSUME TypeOK, NEW t \in Tasks, OperatorStep(t)
  PROVE  TypeOK'
  <1> USE ConstantsAssumption DEF Set, Mutation, world, claimVars, bindVars,
          execVars, evidence, history
  <1>1. CASE Promote(t)
    BY <1>1 DEF TypeOK, Promote, Reopen, Statuses
  <1>2. CASE Resume(t)
    BY <1>2 DEF TypeOK, Resume, Reopen, Statuses
  <1>3. CASE Unblock(t)
    BY <1>3 DEF TypeOK, Unblock, Reopen, Statuses
  <1>4. CASE RepairLegacyBinding(t)
    BY <1>4 DEF TypeOK, RepairLegacyBinding
  <1>5. ASSUME NEW legacy \in BOOLEAN, RecoverExpired(t, legacy)
        PROVE  TypeOK'
    BY <1>5 DEF TypeOK, RecoverExpired, DropClaim, Statuses
  <1>6. CASE RecoverExecution(t)
    BY <1>6 DEF TypeOK, RecoverExecution, ClearFence
  <1>7. ASSUME NEW legacy \in BOOLEAN, AbandonExecution(t, legacy)
        PROVE  TypeOK'
    BY <1>7 DEF TypeOK, AbandonExecution, AuditAbandonment, ClearFence, DropClaim, Statuses, Fence
  <1>8. ASSUME NEW snapshot \in checkpoints[t], Rollback(t, snapshot)
        PROVE  TypeOK'
    BY <1>8 DEF TypeOK, Rollback, DropClaim, Statuses, Snapshot
  <1>9. ASSUME NEW to \in {"unresolved", "complete"}, GateEvent(t, to)
        PROVE  TypeOK'
    BY <1>9 DEF TypeOK, GateEvent
  <1> QED
    BY <1>1, <1>2, <1>3, <1>4, <1>5, <1>6, <1>7, <1>8, <1>9 DEF OperatorStep

\* Every step of the system, and every stutter, keeps the board well typed.
LEMMA StepTyped == TypeOK /\ [Next]_vars => TypeOK'
  <1> SUFFICES ASSUME TypeOK, [Next]_vars PROVE TypeOK'
    OBVIOUS
  <1> USE ConstantsAssumption
  <1>1. ASSUME NEW t \in Tasks, NEW o \in Owners, OwnerStep(t, o)
        PROVE  TypeOK'
    BY <1>1, OwnerStepTyped
  <1>2. ASSUME NEW t \in Tasks, OperatorStep(t)
        PROVE  TypeOK'
    BY <1>2, OperatorStepTyped
  <1>3. ASSUME NEW S \in SUBSET Tasks, Observe(S)
        PROVE  TypeOK'
    BY <1>3 DEF TypeOK, Observe, claimVars, bindVars, execVars, evidence, history, world
  <1>4. CASE Tick
    BY <1>4 DEF TypeOK, Tick, board, claimVars, bindVars, execVars, evidence, history
  <1>5. ASSUME NEW w \in Workers, WorkerExit(w)
        PROVE  TypeOK'
    BY <1>5 DEF TypeOK, WorkerExit, board, claimVars, bindVars, execVars, evidence, history
  <1>6. CASE Reboot
    BY <1>6 DEF TypeOK, Reboot, board, claimVars, bindVars, execVars, evidence, history
  <1>7. CASE UNCHANGED vars
    BY <1>7 DEF TypeOK, vars
  <1> QED
    BY <1>1, <1>2, <1>3, <1>4, <1>5, <1>6, <1>7 DEF Next

\* Every reachable board is well typed, whatever interleaving of owners,
\* operators, scans, process exits and reboots led to it.
THEOREM Typing == Spec => []TypeOK
  BY InitTyped, StepTyped, PTL DEF Spec

-----------------------------------------------------------------------------
(* The inductive invariant.  ClaimsCoherent alone is inductive; the fence  *)
(* needs it, because what keeps a fenced task claimed is that every step   *)
(* which ends a claim either refuses a fence or clears it, and OneOutcome  *)
(* needs FreshIds, because a new execution must not reuse an identifier    *)
(* that is already in the audit.                                           *)

Inv == TypeOK /\ ClaimsCoherent /\ FenceWithinClaim /\ OneOutcome /\ FreshIds

\* What every mutation establishes on the whole board.
LEMMA MutationValidates ==
  ASSUME NEW t \in Tasks, Mutation(t)
  PROVE  UniqueActive' /\ ClaimShape'
  BY DEF Mutation, ValidBoard

\* The imported board satisfies the inductive invariant: nothing runs yet.
LEMMA InitInv == Init => Inv
  <1> SUFFICES ASSUME Init PROVE Inv
    OBVIOUS
  <1>1. TypeOK
    BY InitTyped
  <1>2. ClaimsCoherent
    BY ConstantsAssumption
    DEF Init, ClaimsCoherent, UniqueActive, Distinct, Active
  <1>3. FenceWithinClaim /\ OneOutcome /\ FreshIds
    BY DEF Init, FenceWithinClaim, OneOutcome, FreshIds
  <1> QED BY <1>1, <1>2, <1>3 DEF Inv

\* No command an owner issues breaks the inductive invariant: each keeps or
\* clears a reservation together with the claim it rests on.
LEMMA OwnerStepInv ==
  ASSUME Inv, NEW t \in Tasks, NEW o \in Owners, OwnerStep(t, o)
  PROVE  Inv'
  <1>1. TypeOK'
    BY OwnerStepTyped DEF Inv
  <1> DEFINE Rest == /\ \A s \in Tasks : ~ Active(s) => process[s] = None
                     /\ FenceWithinClaim
                     /\ OneOutcome
                     /\ FreshIds
  <1>2. Mutation(t) /\ Rest'
    <2> USE ConstantsAssumption DEF Inv, TypeOK, Set, claimVars, bindVars,
            execVars, evidence, history, Active, Unfenced
    <2> USE DEF ClaimsCoherent, FenceWithinClaim, OneOutcome, FreshIds, Fence, Receipt
    <2>1. ASSUME NEW w \in Workers \cup {None}, NEW lease \in Leases, Claim(t, o, w, lease)
          PROVE  Mutation(t) /\ Rest'
      BY <2>1 DEF Claim, Mutation
    <2>2. ASSUME NEW lease \in Leases, Heartbeat(t, o, lease)
          PROVE  Mutation(t) /\ Rest'
      BY <2>2 DEF Heartbeat, Mutation
    <2>3. CASE Update(t, o)
      BY <2>3 DEF Update, Mutation
    <2>4. ASSUME NEW to \in ReleaseStatuses, Release(t, o, to)
          PROVE  Mutation(t) /\ Rest'
      BY <2>4 DEF Release, DropClaim, Mutation
    <2>5. CASE Pause(t, o)
      BY <2>5 DEF Pause, DropClaim, Mutation
    <2>6. ASSUME NEW b \in Branches, NEW w \in Worktrees, BindWorktree(t, o, b, w)
          PROVE  Mutation(t) /\ Rest'
      BY <2>6 DEF BindWorktree, Mutation
    <2>7. CASE BindEnvelope(t, o)
      BY <2>7 DEF BindEnvelope, Mutation
    <2>13. CASE ReplaceEnvelope(t, o)
      BY <2>13 DEF ReplaceEnvelope, Mutation
    <2>8. CASE Accept(t, o)
      BY <2>8 DEF Accept, Mutation
    <2>9. CASE Checkpoint(t, o)
      BY <2>9 DEF Checkpoint, Mutation
    <2>10. ASSUME NEW length \in Leases, ExecutionStart(t, o, length)
           PROVE  Mutation(t) /\ Rest'
      BY <2>10 DEF ExecutionStart, BindingOwner, Mutation
    <2>11. ASSUME NEW id \in 1 .. MaxRevision, ExecutionResult(t, o, id)
           PROVE  Mutation(t) /\ Rest'
      BY <2>11 DEF ExecutionResult, Mutation
    <2>12. ASSUME NEW id \in 1 .. MaxRevision, ExecutionFinish(t, o, id)
           PROVE  Mutation(t) /\ Rest'
      BY <2>12 DEF ExecutionFinish, ClearFence, Mutation
    <2> QED
      BY <2>1, <2>2, <2>3, <2>4, <2>5, <2>6, <2>7, <2>8, <2>9, <2>10, <2>11, <2>12,
         <2>13
      DEF OwnerStep
  <1>3. UniqueActive' /\ ClaimShape'
    BY <1>2, MutationValidates
  <1> QED
    BY <1>1, <1>2, <1>3 DEF Inv, ClaimsCoherent, ClaimShape, TypeOK

\* No operator command breaks the inductive invariant: the recoveries drop a
\* claim only when no reservation is left on it.
LEMMA OperatorStepInv ==
  ASSUME Inv, NEW t \in Tasks, OperatorStep(t)
  PROVE  Inv'
  <1>1. TypeOK'
    BY OperatorStepTyped DEF Inv
  <1> DEFINE Rest == /\ \A s \in Tasks : ~ Active(s) => process[s] = None
                     /\ FenceWithinClaim
                     /\ OneOutcome
                     /\ FreshIds
  <1>2. Mutation(t) /\ Rest'
    <2> USE ConstantsAssumption DEF Inv, TypeOK, Set, claimVars, bindVars,
            execVars, evidence, history, Active, Unfenced
    <2> USE DEF ClaimsCoherent, FenceWithinClaim, OneOutcome, FreshIds, Fence, Receipt
    <2>1. CASE Promote(t)
      BY <2>1 DEF Promote, Reopen, Mutation
    <2>2. CASE Resume(t)
      BY <2>2 DEF Resume, Reopen, Mutation
    <2>3. CASE Unblock(t)
      BY <2>3 DEF Unblock, Reopen, Mutation
    <2>4. CASE RepairLegacyBinding(t)
      BY <2>4 DEF RepairLegacyBinding, Mutation
    <2>5. ASSUME NEW legacy \in BOOLEAN, RecoverExpired(t, legacy)
          PROVE  Mutation(t) /\ Rest'
      BY <2>5 DEF RecoverExpired, DropClaim, Mutation
    <2>6. CASE RecoverExecution(t)
      BY <2>6 DEF RecoverExecution, ClearFence, Mutation
    <2>7. ASSUME NEW legacy \in BOOLEAN, AbandonExecution(t, legacy)
          PROVE  Mutation(t) /\ Rest'
      BY <2>7 DEF AbandonExecution, AuditAbandonment, ClearFence, DropClaim, ResultMatches, Mutation
    <2>8. ASSUME NEW snapshot \in checkpoints[t], Rollback(t, snapshot)
          PROVE  Mutation(t) /\ Rest'
      BY <2>8 DEF Rollback, DropClaim, Mutation
    <2>9. ASSUME NEW to \in {"unresolved", "complete"}, GateEvent(t, to)
          PROVE  Mutation(t) /\ Rest'
      BY <2>9 DEF GateEvent, Mutation
    <2> QED
      BY <2>1, <2>2, <2>3, <2>4, <2>5, <2>6, <2>7, <2>8, <2>9 DEF OperatorStep
  <1>3. UniqueActive' /\ ClaimShape'
    BY <1>2, MutationValidates
  <1> QED
    BY <1>1, <1>2, <1>3 DEF Inv, ClaimsCoherent, ClaimShape, TypeOK

\* Scans, the clock, process exits and reboots leave claims and fences alone.
LEMMA EnvironmentStepInv ==
  ASSUME Inv, TypeOK',
         UNCHANGED <<status, owner, expires, process, branch, worktree, envelope,
                     fence, result, abandoned>>,
         \A t \in Tasks : revision'[t] >= revision[t]
  PROVE  Inv'
  <1>1. ClaimsCoherent' /\ FenceWithinClaim' /\ OneOutcome'
    BY DEF Inv, ClaimsCoherent, FenceWithinClaim, OneOutcome, UniqueActive, Distinct, Active
  <1>2. FreshIds'
    BY DEF Inv, FreshIds, TypeOK, Fence, Receipt
  <1> QED BY <1>1, <1>2 DEF Inv

\* The inductive invariant is kept by every step and every stutter.
LEMMA StepInv == Inv /\ [Next]_vars => Inv'
  <1> SUFFICES ASSUME Inv, [Next]_vars PROVE Inv'
    OBVIOUS
  <1>0. TypeOK'
    BY StepTyped DEF Inv
  <1>1. ASSUME NEW t \in Tasks, NEW o \in Owners, OwnerStep(t, o)
        PROVE  Inv'
    BY <1>1, OwnerStepInv
  <1>2. ASSUME NEW t \in Tasks, OperatorStep(t)
        PROVE  Inv'
    BY <1>2, OperatorStepInv
  <1>3. ASSUME NEW S \in SUBSET Tasks, Observe(S)
        PROVE  Inv'
    <2>1. \A t \in Tasks : revision'[t] >= revision[t]
      BY <1>3 DEF Observe, Inv, TypeOK
    <2> QED
      BY <1>0, <1>3, <2>1, EnvironmentStepInv
      DEF Observe, claimVars, bindVars, execVars
  <1>4. ASSUME Tick \/ Reboot \/ (\E w \in Workers : WorkerExit(w)) \/ UNCHANGED vars
        PROVE  Inv'
    <2>1. UNCHANGED <<status, owner, expires, process, branch, worktree, envelope,
                      fence, result, abandoned, revision>>
      BY <1>4 DEF Tick, Reboot, WorkerExit, vars, board, claimVars, bindVars, execVars
    <2>2. \A t \in Tasks : revision'[t] >= revision[t]
      BY <2>1 DEF Inv, TypeOK
    <2> QED BY <1>0, <2>1, <2>2, EnvironmentStepInv
  <1> QED
    BY <1>1, <1>2, <1>3, <1>4 DEF Next

\* The inductive invariant holds on every reachable board.
THEOREM Invariance == Spec => []Inv
  BY InitInv, StepInv, PTL DEF Spec

\* No interleaving produces an incoherent claim: two active tasks never share
\* an owner, a branch or a worktree, and a task that is not in progress keeps
\* nothing of a former claim.
THEOREM ClaimSafety == Spec => []ClaimsCoherent
  <1>1. Inv => ClaimsCoherent
    BY DEF Inv
  <1> QED BY <1>1, Invariance, PTL

\* A bound execution is always covered by its owner's claim, up to its own
\* deadline: no heartbeat, release, pause, recovery or scan gets in between.
THEOREM FenceSafety == Spec => []FenceWithinClaim
  <1>1. Inv => FenceWithinClaim
    BY DEF Inv
  <1> QED BY <1>1, Invariance, PTL

\* A completed execution is never also recorded as abandoned.
THEOREM OutcomeSafety == Spec => []OneOutcome
  <1>1. Inv => OneOutcome
    BY DEF Inv
  <1> QED BY <1>1, Invariance, PTL

-----------------------------------------------------------------------------
(* What a step may never do to a reservation.                              *)

\* Every way a reservation can change: nothing is overwritten, and what
\* disappears leaves its receipt or its audit record behind.
FenceStep(t) ==
    fence[t] # None /\ fence'[t] # fence[t] =>
        /\ fence'[t] = None
        /\ \/ result[t] = [id |-> fence[t].id, owner |-> fence[t].owner]
           \/ fence[t].id \in abandoned'[t] /\ ~ FenceLive(t)

\* Only execution-finish, recover-execution and abandon-execution touch an
\* existing reservation, and each has its receipt or its audit record.
LEMMA StepAccountsForFences ==
  ASSUME TypeOK, [Next]_vars
  PROVE  \A s \in Tasks : FenceStep(s)
  <1> USE DEF TypeOK, FenceStep, Set, Unfenced, execVars, ClearFence
  <1>1. ASSUME NEW t \in Tasks, NEW o \in Owners, OwnerStep(t, o)
        PROVE  \A s \in Tasks : FenceStep(s)
    <2>1. ASSUME UNCHANGED fence
          PROVE  \A s \in Tasks : FenceStep(s)
      BY <2>1
    <2>2. ASSUME NEW length \in Leases, ExecutionStart(t, o, length)
          PROVE  \A s \in Tasks : FenceStep(s)
      BY <2>2 DEF ExecutionStart
    <2>3. ASSUME NEW id \in 1 .. MaxRevision, ExecutionFinish(t, o, id)
          PROVE  \A s \in Tasks : FenceStep(s)
      BY <2>3 DEF ExecutionFinish, ResultMatches, Receipt, Fence
    <2> QED
      BY <1>1, <2>1, <2>2, <2>3
      DEF OwnerStep, Claim, Heartbeat, Update, Release, Pause, BindWorktree,
          BindEnvelope, ReplaceEnvelope, Accept, Checkpoint, ExecutionResult
  <1>2. ASSUME NEW t \in Tasks, OperatorStep(t)
        PROVE  \A s \in Tasks : FenceStep(s)
    <2>1. ASSUME UNCHANGED fence
          PROVE  \A s \in Tasks : FenceStep(s)
      BY <2>1
    <2>2. CASE RecoverExecution(t)
      BY <2>2 DEF RecoverExecution, ResultMatches, Receipt, Fence
    <2>3. ASSUME NEW legacy \in BOOLEAN, AbandonExecution(t, legacy)
          PROVE  \A s \in Tasks : FenceStep(s)
      BY <2>3 DEF AbandonExecution, AuditAbandonment, Fence
    <2> QED
      BY <1>2, <2>1, <2>2, <2>3
      DEF OperatorStep, Promote, Resume, Unblock, Reopen, RepairLegacyBinding,
          RecoverExpired, Rollback, GateEvent
  <1>3. ASSUME NEW S \in SUBSET Tasks, Observe(S)
        PROVE  \A s \in Tasks : FenceStep(s)
    BY <1>3 DEF Observe
  <1>4. ASSUME Tick \/ Reboot \/ (\E w \in Workers : WorkerExit(w)) \/ UNCHANGED vars
        PROVE  \A s \in Tasks : FenceStep(s)
    BY <1>4 DEF Tick, Reboot, WorkerExit, vars, board
  <1> QED
    BY <1>1, <1>2, <1>3, <1>4 DEF Next

\* No step of the system drops a reservation silently or replaces it.
THEOREM FenceAccounting == Spec => FenceAccounted
  <1>1. TypeOK /\ [Next]_vars =>
          [\A t \in Tasks :
             fence[t] # None /\ fence'[t] # fence[t] =>
                /\ fence'[t] = None
                /\ \/ result[t] = [id |-> fence[t].id, owner |-> fence[t].owner]
                   \/ fence[t].id \in abandoned'[t] /\ ~ FenceLive(t)]_vars
    BY StepAccountsForFences DEF FenceStep
  <1> QED
    BY <1>1, Typing, PTL DEF Spec, FenceAccounted

-----------------------------------------------------------------------------
(* The relations between tasks.                                            *)

\* What every step leaves of the board's graph: a closed task is reopened only from
\* a checkpoint, work starts on satisfied dependencies, a parent closes over closed
\* children, and checkpoints are kept.
GraphStep ==
    /\ \A s \in Tasks : status[s] \in TerminalChildStatuses /\ status'[s] # status[s]
                        => checkpoints[s] # {}
    /\ \A s \in Tasks : status'[s] = "in_progress" /\ ~ Active(s) => DependenciesSatisfied(s)
    /\ \A s \in Tasks : status'[s] = "done" /\ status[s] # "done" => ChildrenTerminal(s)
    /\ \A s \in Tasks : checkpoints[s] \subseteq checkpoints'[s]
    /\ SupersessionSound'

\* Only the end of a claim, a reopening and a rollback take a task out of its status,
\* and of these only a rollback applies to a closed task.
LEMMA StatusStep ==
  ASSUME TypeOK, NEW t \in Tasks, NEW to, status' = Set(status, t, to),
         to = "in_progress" => DependenciesSatisfied(t) \/ Active(t),
         to = "done" => ChildrenTerminal(t),
         status[t] \in TerminalChildStatuses => checkpoints[t] # {},
         UNCHANGED checkpoints, Mutation(t)
  PROVE  GraphStep
  <1>1. status'[t] = to /\ \A s \in Tasks \ {t} : status'[s] = status[s]
    BY DEF TypeOK, Set
  <1>2. SupersessionSound'
    BY DEF Mutation, ValidBoard
  <1> QED
    BY <1>1, <1>2 DEF GraphStep, Active

\* A mutation that keeps every status keeps the graph.
LEMMA SteadyStep ==
  ASSUME UNCHANGED status, \A s \in Tasks : checkpoints[s] \subseteq checkpoints'[s],
         SupersessionSound'
  PROVE  GraphStep
  BY DEF GraphStep, Active

\* A command an owner issues moves only its own active or open task.
LEMMA OwnerGraphStep ==
  ASSUME Inv, NEW t \in Tasks, NEW o \in Owners, OwnerStep(t, o)
  PROVE  GraphStep
  <1>0. TypeOK /\ o # None
    BY ConstantsAssumption DEF Inv
  <1>1. ASSUME owner[t] = o PROVE Active(t) /\ status[t] \notin TerminalChildStatuses
    BY <1>0, <1>1 DEF Inv, ClaimsCoherent, Active, TerminalChildStatuses
  <1>2. ASSUME NEW w \in Workers \cup {None}, NEW lease \in Leases, Claim(t, o, w, lease)
        PROVE  GraphStep
    BY <1>0, <1>2, StatusStep DEF Claim, history, TerminalChildStatuses
  <1>3. ASSUME NEW to \in ReleaseStatuses, Release(t, o, to)
        PROVE  GraphStep
    BY <1>0, <1>1, <1>3, StatusStep DEF Release, DropClaim
  <1>4. CASE Pause(t, o)
    BY <1>0, <1>1, <1>4, StatusStep DEF Pause, DropClaim
  <1>5. CASE Checkpoint(t, o)
    <2>1. \A s \in Tasks : checkpoints[s] \subseteq checkpoints'[s]
      BY <1>0, <1>5 DEF Checkpoint, Set, TypeOK
    <2> QED
      BY <1>5, <2>1, SteadyStep DEF Checkpoint, claimVars, Mutation, ValidBoard
  <1>6. ASSUME UNCHANGED <<status, checkpoints>>, Mutation(t)
        PROVE  GraphStep
    BY <1>6, SteadyStep DEF Mutation, ValidBoard
  <1> QED
    BY <1>2, <1>3, <1>4, <1>5, <1>6
    DEF OwnerStep, Heartbeat, Update, BindWorktree, BindEnvelope, ReplaceEnvelope, Accept,
        ExecutionStart, ExecutionResult, ExecutionFinish, claimVars, history

\* An operator reopens what waits, what was abandoned, or what has a checkpoint.
LEMMA OperatorGraphStep ==
  ASSUME Inv, NEW t \in Tasks, OperatorStep(t)
  PROVE  GraphStep
  <1>0. TypeOK
    BY DEF Inv
  <1>1. ASSUME status' = Set(status, t, "open"), UNCHANGED checkpoints, Mutation(t),
               status[t] \in TerminalChildStatuses => checkpoints[t] # {}
        PROVE  GraphStep
    BY <1>0, <1>1, StatusStep
  <1>2. CASE Promote(t) \/ Resume(t) \/ Unblock(t)
    BY <1>1, <1>2 DEF Promote, Resume, Unblock, Reopen, history, TerminalChildStatuses
  <1>3. ASSUME NEW legacy \in BOOLEAN, RecoverExpired(t, legacy) \/ AbandonExecution(t, legacy)
        PROVE  GraphStep
    <2>1. Active(t)
      BY <1>3 DEF RecoverExpired, AbandonExecution, Inv, FenceWithinClaim
    <2> QED
      BY <1>1, <1>3, <2>1
      DEF RecoverExpired, AbandonExecution, DropClaim, history, Active, TerminalChildStatuses
  <1>4. ASSUME NEW snapshot \in checkpoints[t], Rollback(t, snapshot)
        PROVE  GraphStep
    BY <1>1, <1>4 DEF Rollback, DropClaim, history
  <1>5. ASSUME UNCHANGED <<status, checkpoints>>, Mutation(t)
        PROVE  GraphStep
    BY <1>5, SteadyStep DEF Mutation, ValidBoard
  <1> QED
    BY <1>2, <1>3, <1>4, <1>5
    DEF OperatorStep, RepairLegacyBinding, RecoverExecution, GateEvent, claimVars, history

\* A satisfied dependency stays satisfied through every step, unless it is itself
\* reopened from a checkpoint: a successor it relies on cannot be.
LEMMA StaysSatisfied ==
  ASSUME GraphStep, NEW d \in Tasks, DependencySatisfied(d)
  PROVE  DependencySatisfied(d)' \/ checkpoints[d] # {}
  <1>1. CASE SupersededBy[d] # None
    <2> DEFINE s == SupersededBy[d]
    <2>1. status'[d] = "superseded" /\ Satisfied(status', s) /\ s \in Tasks
      BY <1>1, ConstantsAssumption DEF GraphStep, SupersessionSound, DependencySatisfied
    <2>2. ASSUME NEW seen \in SUBSET Tasks, d \in seen,
                 \A x \in seen : status'[x] = "superseded" /\ SupersededBy[x] # None
                                 => SupersededBy[x] \in seen
          PROVE  \E x \in seen : status'[x] = "done"
      <3>1. s \in seen
        BY <1>1, <2>1, <2>2
      <3> HIDE DEF s
      <3> QED
        BY <2>1, <2>2, <3>1 DEF Satisfied
    <2>3. Satisfied(status', d)
      BY <2>1, <2>2 DEF Satisfied
    <2> QED
      BY <2>3 DEF DependencySatisfied
  <1>2. CASE SupersededBy[d] = None
    <2>1. status[d] = "done"
      <3>1. CASE status[d] = "superseded"
        <4>1. {d} \in SUBSET Tasks /\ d \in {d}
          OBVIOUS
        <4>2. \E x \in {d} : status[x] = "done"
          BY <1>2, <3>1, <4>1 DEF DependencySatisfied, Satisfied
        <4> QED
          BY <4>2
      <3> QED
        BY <3>1 DEF DependencySatisfied, Satisfied
    <2>2. status'[d] = "done" \/ checkpoints[d] # {}
      BY <2>1 DEF GraphStep, TerminalChildStatuses
    <2> QED
      BY <2>2 DEF DependencySatisfied, Satisfied
  <1> QED
    BY <1>1, <1>2

\* The relations survive a step of that kind.
LEMMA GraphStepHolds ==
  ASSUME GraphHeld, GraphStep
  PROVE  GraphHeld'
  <1>1. DependenciesHeld'
    <2> SUFFICES ASSUME NEW t \in Tasks, status'[t] = "in_progress", NEW d \in DependsOn[t]
                 PROVE  DependencySatisfied(d)' \/ checkpoints'[d] # {}
      BY DEF DependenciesHeld, Active
    <2>1. d \in Tasks
      BY ConstantsAssumption
    <2>2. DependencySatisfied(d) \/ checkpoints[d] # {}
      BY DEF GraphHeld, DependenciesHeld, GraphStep, DependenciesSatisfied
    <2>3. checkpoints[d] # {} => checkpoints'[d] # {}
      BY <2>1 DEF GraphStep
    <2> QED
      BY <2>1, <2>2, <2>3, StaysSatisfied
  <1>2. RollupHeld'
    <2> SUFFICES ASSUME NEW t \in Tasks, status'[t] = "done", InitialStatus[t] # "done",
                        NEW c \in Children(t)
                 PROVE  status'[c] \in TerminalChildStatuses \/ checkpoints'[c] # {}
      BY DEF RollupHeld
    <2>1. c \in Tasks
      BY DEF Children
    <2>2. status[c] \in TerminalChildStatuses \/ checkpoints[c] # {}
      BY DEF GraphHeld, RollupHeld, GraphStep, ChildrenTerminal
    <2>3. checkpoints[c] # {} => checkpoints'[c] # {}
      BY <2>1 DEF GraphStep
    <2> QED
      BY <2>1, <2>2, <2>3 DEF GraphStep
  <1>3. SupersessionHeld'
    BY DEF GraphStep, SupersessionHeld
  <1> QED
    BY <1>1, <1>2, <1>3 DEF GraphHeld

\* For every dependency, parent and successor graph and every order of commands, work
\* starts on satisfied dependencies, parents close over closed children and no
\* supersession loses its done successor; a rollback is the only exception, for the
\* very task that is rolled back.
THEOREM GraphSafety == Spec => []GraphHeld
  <1>1. Init => GraphHeld
    <2> SUFFICES ASSUME Init PROVE GraphHeld
      OBVIOUS
    <2>1. \A t \in Tasks : ~ Active(t)
      BY ConstantsAssumption DEF Init, Active
    <2>2. SupersessionSound
      BY ImportAssumption DEF Init, SupersessionSound, DependencySatisfied
    <2>3. RollupHeld
      BY DEF Init, RollupHeld
    <2> QED
      BY <2>1, <2>2, <2>3 DEF GraphHeld, DependenciesHeld, SupersessionHeld
  <1>2. Inv /\ GraphHeld /\ [Next]_vars => GraphHeld'
    <2> SUFFICES ASSUME Inv, GraphHeld, [Next]_vars PROVE GraphHeld'
      OBVIOUS
    <2>1. CASE \E t \in Tasks, o \in Owners : OwnerStep(t, o)
      BY <2>1, OwnerGraphStep, GraphStepHolds
    <2>2. CASE \E t \in Tasks : OperatorStep(t)
      BY <2>2, OperatorGraphStep, GraphStepHolds
    <2>3. CASE UNCHANGED <<status, checkpoints>>
      BY <2>3
      DEF GraphHeld, DependenciesHeld, RollupHeld, SupersessionHeld, SupersessionSound,
          DependencySatisfied, Active
    <2> QED
      BY <2>1, <2>2, <2>3
      DEF Next, Observe, Tick, WorkerExit, Reboot, vars, board, claimVars, history
  <1> QED
    BY <1>1, <1>2, Invariance, PTL DEF Spec

-----------------------------------------------------------------------------
(* What a step may never do to a claim.                                    *)

\* How the claim of a task whose worker is alive can end.
ClaimEnd(t) ==
    /\ Active(t) /\ owner'[t] # owner[t]
    /\ process[t] # None /\ process[t].boot = boot /\ process[t].pid \in alive
    => \/ \E to \in ReleaseStatuses : Release(t, owner[t], to)
       \/ Pause(t, owner[t])
       \/ ~ ClaimLive(t) /\ SessionAtRevision(t)

\* A step that gives no active task another owner ends no claim.
LEMMA OwnersKept ==
  ASSUME \A s \in Tasks : Active(s) => owner'[s] = owner[s]
  PROVE  \A s \in Tasks : ClaimEnd(s)
  BY DEF ClaimEnd

\* Only release, pause and the two recoveries take an owner away, and the recoveries
\* want the worker's absence or its session record.
LEMMA StepEndsClaims ==
  ASSUME Inv, [Next]_vars
  PROVE  \A s \in Tasks : ClaimEnd(s)
  <1>0. /\ owner \in [Tasks -> Owners \cup {None}] /\ None \notin Owners
        /\ \A t \in Tasks : ~ Active(t) => owner[t] = None
    BY ConstantsAssumption DEF Inv, TypeOK, ClaimsCoherent
  <1>1. ASSUME NEW t \in Tasks, NEW v, owner' = Set(owner, t, v), ClaimEnd(t)
        PROVE  \A s \in Tasks : ClaimEnd(s)
    <2>1. \A s \in Tasks \ {t} : owner'[s] = owner[s]
      BY <1>0, <1>1 DEF Set
    <2>2. ASSUME NEW s \in Tasks, s # t PROVE ClaimEnd(s)
      BY <2>1, <2>2 DEF ClaimEnd
    <2> QED
      BY <1>1, <2>2
  <1>2. ASSUME NEW t \in Tasks, NEW v, owner' = Set(owner, t, v), ~ Active(t)
        PROVE  \A s \in Tasks : ClaimEnd(s)
    BY <1>1, <1>2 DEF ClaimEnd
  <1>3. ASSUME NEW t \in Tasks, NEW o \in Owners,
               \/ \E to \in ReleaseStatuses : Release(t, o, to)
               \/ Pause(t, o)
        PROVE  \A s \in Tasks : ClaimEnd(s)
    <2>1. owner' = Set(owner, t, None) /\ owner[t] = o
      BY <1>3 DEF Release, Pause, DropClaim
    <2>2. ClaimEnd(t)
      BY <1>3, <2>1 DEF ClaimEnd
    <2> QED
      BY <1>1, <2>1, <2>2
  <1>4. ASSUME NEW t \in Tasks, NEW legacy \in BOOLEAN,
               RecoverExpired(t, legacy) \/ AbandonExecution(t, legacy)
        PROVE  \A s \in Tasks : ClaimEnd(s)
    <2>1. owner' = Set(owner, t, None)
      BY <1>4 DEF RecoverExpired, AbandonExecution, DropClaim
    <2>2. ClaimEnd(t)
      BY <1>4
      DEF RecoverExpired, AbandonExecution, LegacyAcknowledged, WorkerAbsent, ClaimEnd
    <2> QED
      BY <1>1, <2>1, <2>2
  <1>5. ASSUME NEW t \in Tasks, NEW o \in Owners, NEW w, NEW lease, Claim(t, o, w, lease)
        PROVE  \A s \in Tasks : ClaimEnd(s)
    BY <1>2, <1>5 DEF Claim, Active
  <1>6. ASSUME NEW t \in Tasks, NEW snapshot, Rollback(t, snapshot)
        PROVE  \A s \in Tasks : ClaimEnd(s)
    <2>1. ~ Active(t) /\ owner' = Set(owner, t, None)
      BY <1>6 DEF Rollback, DropClaim, Inv, ClaimsCoherent
    <2> QED
      BY <1>2, <2>1
  <1>7. CASE UNCHANGED owner
    BY <1>7, OwnersKept
  <1>8. ASSUME NEW t \in Tasks, NEW o \in Owners, OwnerStep(t, o)
        PROVE  \A s \in Tasks : ClaimEnd(s)
    BY <1>3, <1>5, <1>7, <1>8
    DEF OwnerStep, Heartbeat, Update, BindWorktree, BindEnvelope, ReplaceEnvelope, Accept,
        Checkpoint, ExecutionStart, ExecutionResult, ExecutionFinish, claimVars
  <1>9. ASSUME NEW t \in Tasks, OperatorStep(t)
        PROVE  \A s \in Tasks : ClaimEnd(s)
    BY <1>4, <1>6, <1>7, <1>9
    DEF OperatorStep, Promote, Resume, Unblock, Reopen, RepairLegacyBinding,
        RecoverExecution, GateEvent, claimVars
  <1> QED
    BY <1>7, <1>8, <1>9
    DEF Next, Observe, Tick, WorkerExit, Reboot, vars, board, claimVars

\* While the worker of a claim lives, only its owner ends it, or a recovery that found
\* the lease expired and a session record of this very revision.
THEOREM LiveWorkerSafety == Spec => LiveWorkerKeepsClaim
  <1>1. Inv /\ [Next]_vars =>
          [\A t \in Tasks :
             /\ Active(t) /\ owner'[t] # owner[t]
             /\ process[t] # None /\ process[t].boot = boot /\ process[t].pid \in alive
             => \/ \E to \in ReleaseStatuses : Release(t, owner[t], to)
                \/ Pause(t, owner[t])
                \/ ~ ClaimLive(t) /\ SessionAtRevision(t)]_vars
    BY StepEndsClaims DEF ClaimEnd
  <1> QED
    BY <1>1, Invariance, PTL DEF Spec, LiveWorkerKeepsClaim

-----------------------------------------------------------------------------
(* What a resume finds.                                                    *)

\* No session record is newer than its task, and a blocked task with a pause record
\* of its current revision was blocked by that pause.
PauseCurrent ==
    \A t \in Tasks :
        /\ session[t].at <= revision[t]
        /\ status[t] = "blocked" /\ SessionAtRevision(t) /\ session[t].trigger = "pause"
           => blockedBy[t] = "pause"

\* A task that moves on leaves its session record behind.
LEMMA PauseStep ==
  ASSUME TypeOK, TypeOK', PauseCurrent, NEW t \in Tasks,
         \A s \in Tasks \ {t} : /\ revision'[s] = revision[s] /\ status'[s] = status[s]
                                /\ session'[s] = session[s] /\ blockedBy'[s] = blockedBy[s],
         revision'[t] = revision[t] + 1,
         \/ session'[t] = session[t]
         \/ session'[t].at = revision'[t] /\ session'[t].trigger = "update"
         \/ session'[t].at = revision'[t] /\ blockedBy'[t] = "pause"
  PROVE  PauseCurrent'
  <1>1. /\ revision[t] \in Nat /\ session[t].at \in Nat /\ session[t].at <= revision[t]
        /\ revision'[t] \in Nat
    BY DEF TypeOK, Session, PauseCurrent
  <1>2. ASSUME NEW s \in Tasks, s # t
        PROVE  /\ session'[s].at <= revision'[s]
               /\ status'[s] = "blocked" /\ SessionAtRevision(s)' /\ session'[s].trigger = "pause"
                  => blockedBy'[s] = "pause"
    BY <1>2 DEF PauseCurrent, SessionAtRevision
  <1>3. /\ session'[t].at <= revision'[t]
        /\ status'[t] = "blocked" /\ SessionAtRevision(t)' /\ session'[t].trigger = "pause"
           => blockedBy'[t] = "pause"
    <2>1. CASE session'[t] = session[t]
      <3>1. session'[t].at < revision'[t]
        BY <1>1, <2>1
      <3> QED
        BY <1>1, <2>1, <3>1 DEF SessionAtRevision
    <2>2. CASE session'[t].at = revision'[t] /\ session'[t].trigger = "update"
      BY <1>1, <2>2
    <2>3. CASE session'[t].at = revision'[t] /\ blockedBy'[t] = "pause"
      BY <1>1, <2>3
    <2> QED
      BY <2>1, <2>2, <2>3
  <1> QED
    BY <1>2, <1>3 DEF PauseCurrent

\* Every step keeps pause records current.
LEMMA StepPause ==
  ASSUME TypeOK, PauseCurrent, [Next]_vars
  PROVE  PauseCurrent'
  <1>0. TypeOK'
    BY StepTyped
  <1>1. ASSUME NEW t \in Tasks, Mutation(t)
        PROVE  /\ revision'[t] = revision[t] + 1
               /\ \A s \in Tasks \ {t} : revision'[s] = revision[s]
    BY <1>1 DEF Mutation, TypeOK
  <1>2. ASSUME NEW t \in Tasks, Mutation(t), UNCHANGED session,
               \E st : status' = Set(status, t, st) \/ UNCHANGED status,
               UNCHANGED blockedBy \/ blockedBy' = Set(blockedBy, t, "release")
        PROVE  PauseCurrent'
    <2>1. \A s \in Tasks \ {t} : /\ status'[s] = status[s] /\ session'[s] = session[s]
                                 /\ blockedBy'[s] = blockedBy[s]
      BY <1>2 DEF TypeOK, Set
    <2> QED
      BY <1>0, <1>1, <1>2, <2>1, PauseStep
  <1>3. ASSUME NEW t \in Tasks, NEW o \in Owners, Update(t, o)
        PROVE  PauseCurrent'
    <2> DEFINE r == [at |-> revision[t] + 1, trigger |-> "update"]
    <2>1. /\ session' = Set(session, t, r) /\ UNCHANGED <<status, blockedBy>>
          /\ r.at = revision[t] + 1 /\ r.trigger = "update" /\ Mutation(t)
      BY <1>3 DEF Update, claimVars
    <2> HIDE DEF r
    <2>2. session'[t] = r /\ \A s \in Tasks \ {t} : session'[s] = session[s]
      BY <2>1 DEF TypeOK, Set
    <2> QED
      BY <1>0, <1>1, <2>1, <2>2, PauseStep
  <1>4. ASSUME NEW t \in Tasks, NEW o \in Owners, Pause(t, o)
        PROVE  PauseCurrent'
    <2> DEFINE r == [at |-> revision[t] + 1, trigger |-> "pause"]
    <2>1. /\ session' = Set(session, t, r) /\ status' = Set(status, t, "blocked")
          /\ blockedBy' = Set(blockedBy, t, "pause")
          /\ r.at = revision[t] + 1 /\ Mutation(t)
      BY <1>4 DEF Pause, DropClaim
    <2> HIDE DEF r
    <2>2. session'[t] = r /\ blockedBy'[t] = "pause"
          /\ \A s \in Tasks \ {t} : /\ session'[s] = session[s] /\ status'[s] = status[s]
                                    /\ blockedBy'[s] = blockedBy[s]
      BY <2>1 DEF TypeOK, Set
    <2> QED
      BY <1>0, <1>1, <2>1, <2>2, PauseStep
  <1>5. ASSUME NEW t \in Tasks, NEW o \in Owners, OwnerStep(t, o)
        PROVE  PauseCurrent'
    BY <1>2, <1>3, <1>4, <1>5
    DEF OwnerStep, Claim, Heartbeat, Release, DropClaim, BindWorktree, BindEnvelope,
        ReplaceEnvelope, Accept, Checkpoint, ExecutionStart, ExecutionResult,
        ExecutionFinish, claimVars, history
  <1>6. ASSUME NEW t \in Tasks, OperatorStep(t)
        PROVE  PauseCurrent'
    BY <1>2, <1>6
    DEF OperatorStep, Promote, Resume, Unblock, Reopen, RepairLegacyBinding, RecoverExpired,
        RecoverExecution, AbandonExecution, Rollback, GateEvent, DropClaim, claimVars, history
  <1>7. ASSUME NEW S \in SUBSET Tasks, Observe(S)
        PROVE  PauseCurrent'
    <2>1. /\ UNCHANGED <<status, session, blockedBy>>
          /\ \A s \in Tasks : revision'[s] \in {revision[s], revision[s] + 1}
      BY <1>7 DEF Observe, claimVars, history
    <2>2. \A s \in Tasks : revision[s] \in Nat /\ session[s].at \in Nat
      BY DEF TypeOK, Session
    <2> QED
      BY <2>1, <2>2 DEF PauseCurrent, SessionAtRevision
  <1>8. CASE UNCHANGED <<status, session, blockedBy, revision>>
    BY <1>8 DEF PauseCurrent, SessionAtRevision
  <1> QED
    BY <1>5, <1>6, <1>7, <1>8
    DEF Next, Tick, WorkerExit, Reboot, vars, board, claimVars, history

\* A task is resumed only from the pause that blocked it last, however often it was
\* paused, resumed and released in between.
THEOREM ResumeSafety == Spec => ResumeFromLastPause
  <1>1. Init => PauseCurrent
    BY DEF Init, PauseCurrent, SessionAtRevision
  <1>2. TypeOK /\ PauseCurrent /\ [Next]_vars => PauseCurrent'
    BY StepPause
  <1>3. PauseCurrent => [\A t \in Tasks : Resume(t) => blockedBy[t] = "pause"]_vars
    BY DEF PauseCurrent, Resume
  <1> QED
    BY <1>1, <1>2, <1>3, Typing, PTL DEF Spec, ResumeFromLastPause

-----------------------------------------------------------------------------
(* The way out of an expired reservation.                                  *)

\* The board recover-execution writes.  It gives every variable its next value, so
\* such a step exists from every board; what is to be shown is that it is admitted.
RecoveredBoard(t) ==
    /\ ClearFence(t)
    /\ revision' = [revision EXCEPT ![t] = @ + 1]
    /\ UNCHANGED <<claimVars, bindVars, result, abandoned, evidence, history, world>>

\* The board abandon-execution writes, likewise.
AbandonedBoard(t) ==
    /\ AuditAbandonment(t)
    /\ ClearFence(t)
    /\ DropClaim(t, "open")
    /\ revision' = [revision EXCEPT ![t] = @ + 1]
    /\ UNCHANGED <<bindVars, result, evidence, history, world>>

\* Ending the claim of an active task satisfies no dependency and breaks none: an
\* active task is neither done nor superseded.
LEMMA ReopenKeepsSatisfied ==
  ASSUME TypeOK, NEW t \in Tasks, Active(t), status' = Set(status, t, "open"),
         NEW d \in Tasks, Satisfied(status, d)
  PROVE  Satisfied(status', d)
  <1>1. /\ status[t] # "done" /\ status[t] # "superseded"
        /\ status'[t] # "done" /\ status'[t] # "superseded"
        /\ \A s \in Tasks \ {t} : status'[s] = status[s]
    BY DEF TypeOK, Set, Active
  <1>2. \A s \in Tasks : /\ status'[s] = "done" <=> status[s] = "done"
                         /\ status'[s] = "superseded" <=> status[s] = "superseded"
    BY <1>1
  <1> QED
    BY <1>2 DEF Satisfied

\* A board that only lost a reservation passes the validation its predecessor passed.
LEMMA SameClaimsValid ==
  ASSUME Inv, GraphHeld, UNCHANGED <<status, owner, expires, branch, worktree>>
  PROVE  ValidBoard'
  <1>1. ClaimShape' /\ UniqueActive'
    BY DEF Inv, ClaimsCoherent, TypeOK, ClaimShape, UniqueActive, Distinct, Active
  <1>2. SupersessionSound'
    BY DEF GraphHeld, SupersessionHeld, SupersessionSound, DependencySatisfied
  <1> QED
    BY <1>1, <1>2 DEF ValidBoard

\* So does one on which an active task went back to open.
LEMMA DroppedClaimValid ==
  ASSUME Inv, GraphHeld, NEW t \in Tasks, Active(t), DropClaim(t, "open"),
         UNCHANGED <<branch, worktree>>
  PROVE  ValidBoard'
  <1>0. TypeOK
    BY DEF Inv
  <1>1. /\ status'[t] = "open" /\ owner'[t] = None /\ expires'[t] = 0
        /\ \A s \in Tasks \ {t} : status'[s] = status[s] /\ owner'[s] = owner[s]
                                  /\ expires'[s] = expires[s]
    BY <1>0 DEF DropClaim, Set, TypeOK
  <1>2. ClaimShape'
    BY <1>0, <1>1 DEF Inv, ClaimsCoherent, ClaimShape, Active, TypeOK
  <1>3. \A s \in Tasks : Active(s)' => Active(s) /\ s # t
    BY <1>1 DEF Active
  <1>4. UniqueActive'
    BY <1>1, <1>3 DEF Inv, ClaimsCoherent, UniqueActive, Distinct
  <1>5. SupersessionSound'
    <2> SUFFICES ASSUME NEW s \in Tasks, SupersededBy[s] # None
                 PROVE  /\ status'[s] = "superseded" /\ SupersededBy[s] # s
                        /\ Satisfied(status', SupersededBy[s])
      BY DEF SupersessionSound, DependencySatisfied
    <2>1. /\ status[s] = "superseded" /\ SupersededBy[s] # s
          /\ Satisfied(status, SupersededBy[s])
      BY DEF GraphHeld, SupersessionHeld, SupersessionSound, DependencySatisfied
    <2>2. SupersededBy[s] \in Tasks
      BY ConstantsAssumption
    <2>3. status' = Set(status, t, "open")
      BY DEF DropClaim
    <2>4. Satisfied(status', SupersededBy[s])
      BY <1>0, <2>1, <2>2, <2>3, ReopenKeepsSatisfied
    <2> QED
      BY <1>1, <2>1, <2>4 DEF Active
  <1> QED
    BY <1>2, <1>4, <1>5 DEF ValidBoard

\* On every reachable board (Invariance, GraphSafety), an expired reservation whose
\* worker has exited is cleared: by recover-execution when its result is on record, by
\* abandon-execution when it is not.  On Git a result on record helps only while the
\* claim's lease runs.  This is FenceRecoverable for every board and graph, with the
\* step written out that is claimed to be possible.
THEOREM FenceWayOut ==
  ASSUME Inv, GraphHeld, NEW t \in Tasks,
         fence[t] # None, ~ FenceLive(t), WorkerAbsent(t),
         Cardinality(abandoned[t]) < MaxAbandonments, revision[t] < MaxRevision,
         Backend = "git" /\ ResultMatches(t) => ClaimLive(t)
  PROVE  /\ ResultMatches(t) /\ RecoveredBoard(t) => RecoverExecution(t)
         /\ ~ ResultMatches(t) /\ AbandonedBoard(t) => AbandonExecution(t, FALSE)
  <1>0. TypeOK /\ Active(t)
    BY DEF Inv, FenceWithinClaim
  <1>1. ASSUME ResultMatches(t), RecoveredBoard(t)
        PROVE  RecoverExecution(t)
    <2>1. ValidBoard'
      BY <1>1, SameClaimsValid DEF RecoveredBoard, claimVars, bindVars
    <2>2. LeaseKept(t)
      BY <1>1 DEF LeaseKept, RecoveredBoard, claimVars, ClaimLive
    <2> QED
      BY <1>1, <2>1, <2>2 DEF RecoveredBoard, RecoverExecution, Mutation
  <1>2. ASSUME ~ ResultMatches(t), AbandonedBoard(t)
        PROVE  AbandonExecution(t, FALSE)
    <2>1. ValidBoard'
      BY <1>0, <1>2, DroppedClaimValid DEF AbandonedBoard, bindVars
    <2>2. LeaseKept(t)
      BY <1>0, <1>2 DEF LeaseKept, AbandonedBoard, DropClaim, Set, TypeOK
    <2>3. fence[t].id \notin abandoned[t]
      BY DEF Inv, OneOutcome
    <2> QED
      BY <1>2, <2>1, <2>2, <2>3 DEF AbandonedBoard, AbandonExecution, Mutation
  <1> QED
    BY <1>1, <1>2

\* A reservation with its result on record whose claim's lease ran out, on Git.
Wedged(t) ==
    /\ Backend = "git"
    /\ fence[t] # None /\ ResultMatches(t)
    /\ Active(t) /\ ~ ClaimLive(t)

\* No command and nothing that happens around the coordinator takes a task out of it:
\* whatever leaves the task in progress is refused for its expired lease, and what
\* would end or renew the claim is refused for the reservation.
LEMMA WedgedStep ==
  ASSUME Inv, NEW t \in Tasks, Wedged(t), [Next]_vars
  PROVE  Wedged(t)'
  <1>0. TypeOK /\ owner[t] # None /\ expires[t] <= clock
    BY ConstantsAssumption DEF Inv, TypeOK, Wedged, ClaimsCoherent, ClaimLive
  <1>1. ASSUME status'[t] = status[t], expires'[t] = expires[t], fence'[t] = fence[t],
               result'[t] = result[t], clock' \in Nat, clock' >= clock
        PROVE  Wedged(t)'
    BY <1>0, <1>1 DEF Wedged, ResultMatches, Active, ClaimLive, TypeOK
  <1>2. ASSUME NEW s \in Tasks, s # t, NEW o \in Owners, OwnerStep(s, o)
        PROVE  Wedged(t)'
    <2>1. /\ status'[t] = status[t] /\ expires'[t] = expires[t] /\ fence'[t] = fence[t]
          /\ result'[t] = result[t] /\ clock' = clock
      BY <1>0, <1>2
      DEF OwnerStep, Claim, Heartbeat, Update, Release, Pause, BindWorktree, BindEnvelope,
          ReplaceEnvelope, Accept, Checkpoint, ExecutionStart, ExecutionResult,
          ExecutionFinish, ClearFence, DropClaim, Set, Mutation, TypeOK, claimVars, execVars,
          world
    <2> QED
      BY <1>0, <1>1, <2>1 DEF TypeOK
  <1>3. ASSUME NEW s \in Tasks, s # t, OperatorStep(s)
        PROVE  Wedged(t)'
    <2>1. /\ status'[t] = status[t] /\ expires'[t] = expires[t] /\ fence'[t] = fence[t]
          /\ result'[t] = result[t] /\ clock' = clock
      BY <1>0, <1>3
      DEF OperatorStep, Promote, Resume, Unblock, Reopen, RepairLegacyBinding, RecoverExpired,
          RecoverExecution, AbandonExecution, Rollback, GateEvent, ClearFence, DropClaim, Set,
          Mutation, TypeOK, claimVars, execVars, world
    <2> QED
      BY <1>0, <1>1, <2>1 DEF TypeOK
  <1>4. ~ \E o \in Owners : OwnerStep(t, o)
    <2> SUFFICES ASSUME NEW o \in Owners, OwnerStep(t, o) PROVE FALSE
      OBVIOUS
    <2>1. ~ Unfenced(t) /\ status[t] = "in_progress"
      BY DEF Wedged, Unfenced, Active
    <2>2. ASSUME Mutation(t), UNCHANGED <<status, expires>> PROVE FALSE
      BY <1>0, <2>1, <2>2 DEF Mutation, LeaseKept, Wedged, TypeOK
    <2> QED
      BY <2>1, <2>2
      DEF OwnerStep, Claim, Heartbeat, Update, Release, Pause, BindWorktree, BindEnvelope,
          ReplaceEnvelope, Accept, Checkpoint, ExecutionStart, ExecutionResult,
          ExecutionFinish, claimVars
  <1>5. ~ OperatorStep(t)
    <2> SUFFICES ASSUME OperatorStep(t) PROVE FALSE
      OBVIOUS
    <2>1. ~ Unfenced(t) /\ status[t] = "in_progress" /\ ResultMatches(t)
      BY DEF Wedged, Unfenced, Active
    <2>2. ASSUME Mutation(t), UNCHANGED <<status, expires>> PROVE FALSE
      BY <1>0, <2>1, <2>2 DEF Mutation, LeaseKept, Wedged, TypeOK
    <2> QED
      BY <1>0, <2>1, <2>2
      DEF OperatorStep, Promote, Resume, Unblock, Reopen, RepairLegacyBinding, RecoverExpired,
          RecoverExecution, AbandonExecution, Rollback, GateEvent, claimVars
  <1>6. CASE \/ \E S \in SUBSET Tasks : Observe(S)
             \/ Tick \/ (\E w \in Workers : WorkerExit(w)) \/ Reboot \/ UNCHANGED vars
    BY <1>0, <1>1, <1>6
    DEF Observe, Tick, WorkerExit, Reboot, vars, board, claimVars, execVars, world, TypeOK
  <1> QED
    BY <1>2, <1>3, <1>4, <1>5, <1>6 DEF Next

\* On Git the reservation of a completed execution stays for ever once the lease of its
\* claim has run out: neither recover-execution nor the command that was still to finish
\* it gets past the validation (handoffctl.py:1674), for every board and every order of
\* commands.
THEOREM GitWedge ==
  ASSUME NEW t \in Tasks
  PROVE  Spec => [](Wedged(t) => []Wedged(t))
  <1>1. Inv /\ Wedged(t) /\ [Next]_vars => Wedged(t)'
    BY WedgedStep
  <1> QED
    BY <1>1, Invariance, PTL DEF Spec

=============================================================================
