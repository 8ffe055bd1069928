-------------------------- MODULE RollbackJournal --------------------------
(***************************************************************************)
(* The rollback of one checkpoint: the journal of its operations           *)
(* (tools/rollback_records.py) and the command that reverts the product's  *)
(* commits and restores the task (cmd_rollback in tools/handoffctl.py).    *)
(*                                                                         *)
(* The coordinator lock covers each reading and each append of the         *)
(* journal, never the revert; other people commit to the product meanwhile *)
(* and a second rollback of the same checkpoint may run.  The product's    *)
(* history is a sequence of trees, a tree being the set of commits of work *)
(* whose changes it contains; the first one is the checkpoint's.           *)
(***************************************************************************)
EXTENDS Naturals, Sequences

CONSTANTS
    Procs,
    MaxHistory,    \* bound on the commits of the product
    MaxOps,        \* bound on the operations
    MaxRevision,   \* bound on the records of one operation
    None

VARIABLES
    product,       \* the product's history
    unclean,       \* the product's checkout holds a half-done revert
    journal,       \* the checkpoint's latest record, or None
    planned,       \* history: the tree each operation was planned for
    undone,        \* history: the work each operation has reverted
    restored,      \* history: the operations that restored the task
    forgotten,     \* history: the operations whose revert a record left out
    command        \* each rollback command

history == <<planned, undone, restored, forgotten>>
vars == <<product, unclean, journal, history, command>>

Current == Len(product)
Tree(commit) == product[commit]

Record(status, op, current, rollback, revision) ==
    [status |-> status, op |-> op, current |-> current,
     rollback |-> rollback, revision |-> revision]
Idle == [at |-> "idle"]

Init ==
    /\ product = <<{}>> /\ unclean = FALSE
    /\ journal = None
    /\ planned = <<>> /\ undone = <<>> /\ restored = {} /\ forgotten = {}
    /\ command = [p \in Procs |-> Idle]

At(p, point) == command[p].at = point
Goto(p, state) == command' = [command EXCEPT ![p] = state]
End(p) == Goto(p, Idle)

-----------------------------------------------------------------------------
(* Reading the target and starting the operation.                            *)

Targetable(previous, reconcile) ==
    previous # None =>
        /\ previous.status # "rollback_completed"
        /\ previous.status \in {"restore_started", "ambiguous"} => reconcile

\* The previous record and the product's head are read under the lock, and
\* used after it is released.
Target(p, reconcile) ==
    /\ At(p, "idle")
    /\ Targetable(journal, reconcile)
    /\ ~ unclean
    /\ Goto(p, [at |-> "targeted", previous |-> journal, current |-> Current,
                reconcile |-> reconcile])
    /\ UNCHANGED <<product, unclean, journal, history>>

\* A reconciliation continues at the recorded head only: the revert's when
\* one was recorded, the one the operation started from otherwise.
SameHead(previous, current) ==
    current = IF previous.rollback # None THEN previous.rollback ELSE previous.current

SkipProduct_Always(previous) == TRUE
SkipProduct(previous) == previous.rollback # None

Started(p, record, skip) ==
    Goto(p, [at |-> "started", record |-> record, skip |-> skip])

StartReconcile(p) ==
    /\ At(p, "targeted")
    /\ LET previous == command[p].previous
           started == Record("restore_started", previous.op, command[p].current,
                             previous.rollback, previous.revision + 1)
       IN /\ command[p].reconcile /\ previous # None
          /\ SameHead(previous, command[p].current)
          /\ previous.revision < MaxRevision
          /\ journal' = started
          /\ Started(p, started, SkipProduct(previous))
    /\ UNCHANGED <<product, unclean, history>>

\* The operation is planned and started within one critical section; when it
\* does not get to the second record, the planned one stays.
StartFresh(p, survives) ==
    /\ At(p, "targeted")
    /\ ~ (command[p].reconcile /\ command[p].previous # None)
    /\ Len(planned) < MaxOps
    /\ LET op == Len(planned) + 1
           current == command[p].current
           started == Record("restore_started", op, current, None, 2)
       IN /\ journal' = IF survives THEN started ELSE Record("planned", op, current, None, 1)
          /\ IF survives THEN Started(p, started, FALSE) ELSE End(p)
          /\ planned' = Append(planned, Tree(current))
          /\ undone' = Append(undone, {})
    /\ UNCHANGED <<product, unclean, restored, forgotten>>

-----------------------------------------------------------------------------
(* The product, the task, and the record of the outcome.                     *)

\* Reverting the commits since the checkpoint takes their work out of the
\* head's tree; git refuses when they are not all in it and when nothing is
\* left to commit.
Revertible(current) ==
    ~ unclean /\ Tree(current) # {} /\ Tree(current) \subseteq Tree(Current)

Reverted(p, rollback) ==
    Goto(p, [at |-> "reverted", record |-> command[p].record, rollback |-> rollback])

Revert(p) ==
    /\ At(p, "started") /\ ~ command[p].skip
    /\ LET current == command[p].record.current
       IN IF current = 1
          THEN Reverted(p, current) /\ UNCHANGED <<product, undone>>
          ELSE /\ Revertible(current)
               /\ product' = Append(product, Tree(Current) \ Tree(current))
               /\ undone' = [undone EXCEPT ![command[p].record.op] = @ \union Tree(current)]
               /\ Reverted(p, Current + 1)
    /\ UNCHANGED <<unclean, journal, planned, restored, forgotten>>

Skip(p) ==
    /\ At(p, "started") /\ command[p].skip
    /\ Reverted(p, command[p].record.rollback)
    /\ UNCHANGED <<product, unclean, journal, history>>

Outcome(p, status, rollback) ==
    journal' = Record(status, command[p].record.op, command[p].record.current,
                      rollback, command[p].record.revision + 1)

\* The revert fails, or the policy changed: the record names no revert, also
\* when an earlier attempt had made one.
RevertFails(p, leftovers) ==
    /\ At(p, "started")
    /\ Outcome(p, "ambiguous", None)
    /\ unclean' = (unclean \/ (leftovers /\ ~ command[p].skip))
    /\ forgotten' = IF command[p].record.rollback # None
                    THEN forgotten \union {command[p].record.op} ELSE forgotten
    /\ End(p)
    /\ UNCHANGED <<product, planned, undone, restored>>

RestoreTask(p) ==
    /\ At(p, "reverted")
    /\ restored' = restored \union {command[p].record.op}
    /\ Goto(p, [command[p] EXCEPT !.at = "restored"])
    /\ UNCHANGED <<product, unclean, journal, planned, undone, forgotten>>

\* The mutation of the task is refused, or fails after it was committed.
RestoreFails(p) ==
    /\ command[p].at \in {"reverted", "restored"}
    /\ Outcome(p, "ambiguous", command[p].rollback)
    /\ End(p)
    /\ UNCHANGED <<product, unclean, history>>

Complete(p) ==
    /\ At(p, "restored")
    /\ Outcome(p, "rollback_completed", command[p].rollback)
    /\ End(p)
    /\ UNCHANGED <<product, unclean, history>>

-----------------------------------------------------------------------------
(* The surroundings.                                                         *)

\* A command stops anywhere, in the middle of a revert too: refused, killed,
\* or unable to append its record.
Stop(p, leftovers) ==
    /\ ~ At(p, "idle")
    /\ leftovers => At(p, "started") /\ ~ command[p].skip
    /\ unclean' = (unclean \/ leftovers)
    /\ End(p)
    /\ UNCHANGED <<product, journal, history>>

Work ==
    /\ ~ unclean /\ Current < MaxHistory
    /\ product' = Append(product, Tree(Current) \union {Current + 1})
    /\ UNCHANGED <<unclean, journal, history, command>>

CleanUp ==
    /\ unclean /\ unclean' = FALSE
    /\ UNCHANGED <<product, journal, history, command>>

Next ==
    \/ Work \/ CleanUp
    \/ \E p \in Procs :
          \/ StartReconcile(p) \/ Revert(p) \/ Skip(p)
          \/ RestoreTask(p) \/ RestoreFails(p) \/ Complete(p)
          \/ \E flag \in BOOLEAN :
                Target(p, flag) \/ StartFresh(p, flag) \/ RevertFails(p, flag) \/ Stop(p, flag)

Spec == Init /\ [][Next]_vars

-----------------------------------------------------------------------------
(* Properties.                                                               *)

\* A rollback is recorded as completed only when the work it was planned to
\* undo is out of the product and the task was restored, also after failures
\* and reconciliations (cmd_rollback, the rollback_completed record).
CompletedIsTrue ==
    (journal # None /\ journal.status = "rollback_completed") =>
        /\ journal.op \in restored /\ journal.rollback # None
        /\ Tree(Current) \intersect planned[journal.op] = {}
        /\ Tree(journal.rollback) \intersect planned[journal.op] = {}

\* A rollback undoes only work that was in the product when it was planned,
\* however often it is reconciled, unless a record left its revert out
\* (_start_rollback, "reconcile product head changed").
OnlyPlannedUndone ==
    \A op \in DOMAIN planned : undone[op] \subseteq planned[op] \/ op \in forgotten

\* A rollback does what its record says, and nothing else (cmd_rollback).
RollbackSound == CompletedIsTrue /\ OnlyPlannedUndone

=============================================================================
