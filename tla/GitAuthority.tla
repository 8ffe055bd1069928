---------------------------- MODULE GitAuthority ----------------------------
(***************************************************************************)
(* A lifecycle mutation or a reconciliation under the Git backend:         *)
(* handoffctl._mutate_fenced, persist_git_mutation, commit, restore_paths  *)
(* and apply_git_reconciliation.                                           *)
(*                                                                         *)
(* The task files of the state checkout are the authority; Git's head is   *)
(* their durable history.  A writer holds the repository lock from its     *)
(* read to its commit, and puts the files back when anything raises before *)
(* it believes the commit was made.                                        *)
(***************************************************************************)
EXTENDS Naturals, Sequences, SequencesExt

CONSTANTS
    Writers,          \* concurrent handoffctl processes
    Tasks,
    Entries,          \* notes
    MaxRevision,      \* bound on a task's revision
    MaxCrashes,       \* bound on killed processes
    None

ASSUME GitAssumption ==
    /\ MaxRevision \in Nat /\ MaxCrashes \in Nat
    /\ None \notin Writers \cup Entries

VARIABLES
    treeRev, treeBody,      \* the task files
    headRev, headBody,      \* the files of the head commit
    pendingRev,             \* the contents (their revision) of each file a
                            \* reconciliation left uncommitted; 0: none
    lock,                   \* the repository-common lock
    stage,                  \* how far the holder of the lock is
    touched, entry,         \* what the holder changes
    beforeRev, beforeBody,  \* its restore snapshot
    crashes,                \* history variable: number of killed holders
    timedOut                \* history variable: a commit was made that its
                            \* writer believes failed

tree   == <<treeRev, treeBody>>
head   == <<headRev, headBody>>
before == <<beforeRev, beforeBody>>
vars   == <<treeRev, treeBody, headRev, headBody, pendingRev, lock, stage,
            touched, entry, beforeRev, beforeBody, crashes, timedOut>>

Stages == {"free", "loaded", "written", "committed"}

\* Files, head and snapshot are total over the tasks, and a lock holder is at
\* a known stage.
TypeOK ==
    /\ treeRev \in [Tasks -> Nat] /\ treeBody \in [Tasks -> Seq(Entries)]
    /\ headRev \in [Tasks -> Nat] /\ headBody \in [Tasks -> Seq(Entries)]
    /\ beforeRev \in [Tasks -> Nat] /\ beforeBody \in [Tasks -> Seq(Entries)]
    /\ pendingRev \in [Tasks -> Nat]
    /\ lock \in Writers \cup {None}
    /\ stage \in Stages
    /\ touched \subseteq Tasks
    /\ entry \in Entries \cup {None}
    /\ crashes \in Nat /\ timedOut \in BOOLEAN

Init ==
    /\ treeRev = [t \in Tasks |-> 1] /\ treeBody = [t \in Tasks |-> <<>>]
    /\ headRev = treeRev /\ headBody = treeBody
    /\ beforeRev = treeRev /\ beforeBody = treeBody
    /\ pendingRev = [t \in Tasks |-> 0] /\ lock = None /\ stage = "free"
    /\ touched = {} /\ entry = None /\ crashes = 0 /\ timedOut = FALSE

\* A scan has no note; a lifecycle command changes one task.
Scanning == entry = None

Unlock == lock' = None /\ stage' = "free" /\ touched' = {} /\ entry' = None

\* What restore_paths would put back.
TakeSnapshot_Once == UNCHANGED before
TakeSnapshot == beforeRev' = treeRev /\ beforeBody' = treeBody

\* The holder reads the files under the lock, so the revision its caller
\* expects is compared with the current one.
Begin(w, S, e) ==
    /\ lock = None
    /\ lock' = w /\ stage' = "loaded"
    /\ touched' = S /\ entry' = e
    /\ TakeSnapshot
    /\ UNCHANGED <<tree, head, pendingRev, crashes, timedOut>>

BeginMutation(w, t, e) == Begin(w, {t}, e)

\* pending_observation_paths refuses a pending file whose contents are neither
\* the ones its hash recorded nor those of the head commit.
AsHead(t) == treeRev[t] = headRev[t] /\ treeBody[t] = headBody[t]
PendingIntact ==
    \A t \in Tasks : pendingRev[t] \in {0, treeRev[t]} \/ AsHead(t)

BeginReconcile(w, S) == PendingIntact /\ Begin(w, S, None)

Refuse ==
    /\ stage = "loaded"
    /\ Unlock
    /\ UNCHANGED <<tree, head, pendingRev, before, crashes, timedOut>>

Write ==
    /\ stage = "loaded"
    /\ \A t \in touched : treeRev[t] < MaxRevision
    /\ treeRev' = [t \in Tasks |-> IF t \in touched THEN treeRev[t] + 1 ELSE treeRev[t]]
    /\ treeBody' = [t \in Tasks |-> IF t \in touched /\ ~ Scanning
                                    THEN Append(treeBody[t], entry) ELSE treeBody[t]]
    /\ stage' = "written"
    /\ UNCHANGED <<head, pendingRev, lock, touched, entry, before, crashes, timedOut>>

\* restore_paths, after a failed validation or a failed commit.
PutBack_Skipped == UNCHANGED tree
PutBack == treeRev' = beforeRev /\ treeBody' = beforeBody

Restore ==
    /\ stage = "written"
    /\ PutBack
    /\ Unlock
    /\ UNCHANGED <<head, pendingRev, before, crashes, timedOut>>

\* The paths a commit covers; a scan also takes what earlier scans left and
\* nobody committed since.
Remaining == {t \in Tasks : pendingRev[t] = beforeRev[t]}
Covered == IF Scanning THEN touched \cup Remaining ELSE touched

HeadMoved ==
    /\ headRev' = [t \in Tasks |-> IF t \in Covered THEN treeRev[t] ELSE headRev[t]]
    /\ headBody' = [t \in Tasks |-> IF t \in Covered THEN treeBody[t] ELSE headBody[t]]

Commit ==
    /\ stage = "written"
    /\ HeadMoved
    /\ stage' = "committed"
    /\ UNCHANGED <<tree, pendingRev, lock, touched, entry, before, crashes, timedOut>>

\* reconcile without --commit publishes the files and remembers their paths.
LeavePending ==
    /\ stage = "written" /\ Scanning
    /\ pendingRev' = [t \in Tasks |-> IF t \in Covered THEN treeRev[t] ELSE 0]
    /\ Unlock
    /\ UNCHANGED <<tree, head, before, crashes, timedOut>>

\* A scan that committed everything clears the marker after its commit.
MarkerCleared == pendingRev' = IF Scanning THEN [t \in Tasks |-> 0] ELSE pendingRev

\* A failed push changes nothing that was committed.
Finish ==
    /\ stage = "committed"
    /\ MarkerCleared
    /\ Unlock
    /\ UNCHANGED <<tree, head, before, crashes, timedOut>>

\* git commit is killed at its deadline after it moved the ref: the writer
\* sees a failed commit and restores the files.
CommitTimeout ==
    /\ stage = "written"
    /\ HeadMoved
    /\ PutBack
    /\ timedOut' = TRUE
    /\ Unlock
    /\ UNCHANGED <<pendingRev, before, crashes>>

\* The holder is killed: the lock goes, the files stay as they are.
Crash ==
    /\ lock # None
    /\ crashes < MaxCrashes
    /\ crashes' = crashes + 1
    /\ Unlock
    /\ UNCHANGED <<tree, head, pendingRev, before, timedOut>>

Next ==
    \/ \E w \in Writers, t \in Tasks, e \in Entries : BeginMutation(w, t, e)
    \/ \E w \in Writers, S \in SUBSET Tasks : BeginReconcile(w, S)
    \/ Refuse \/ Write \/ Restore
    \/ Commit \/ LeavePending \/ Finish \/ CommitTimeout
    \/ Crash

Spec == Init /\ [][Next]_vars

-----------------------------------------------------------------------------
(* Properties.  Operators named X_Y are plausible mistakes in X, against   *)
(* which the properties are tried; no action uses them.                    *)

\* What callers may rely on: the files, or the snapshot while the holder may
\* still put it back.  A crash in between makes the written change effective.
SettledRev  == IF stage = "written" THEN beforeRev ELSE treeRev
SettledBody == IF stage = "written" THEN beforeBody ELSE treeBody

Log == INSTANCE RevisionLog WITH rev <- SettledRev, body <- SettledBody

\* The Git authority is a revision log too: mutations, scans, restored
\* failures and crashes at any point advance each task by one revision per
\* effective change and lose no note (_mutate_fenced, restore_paths).
Linearized == Log!Spec

\* formal/handoffctl/README.md, 219-220: detected pre-commit exceptions restore
\* every touched path.  As long as no writer and no git commit was killed,
\* whenever the lock is free each file is that of the head commit or exactly
\* what the pending marker recorded: reconcile is never refused for
\* content it wrote itself.
CleanWhenFree ==
    lock = None /\ crashes = 0 /\ ~ timedOut =>
        \A t \in Tasks : AsHead(t) \/ pendingRev[t] = treeRev[t]

\* formal/handoffctl/README.md, 31-32: a rejected command leaves the
\* authoritative revision unchanged.  Writers may be killed at any point: the
\* durable history never runs ahead of the files, a committed revision is one
\* the authority has reached, with the same notes.  Only a commit that git made
\* and reported as failed breaks this.
HistoryWithinAuthority ==
    ~ timedOut => \A t \in Tasks :
        /\ headRev[t] <= treeRev[t]
        /\ IsPrefix(headBody[t], treeBody[t])
        /\ headRev[t] = treeRev[t] => headBody[t] = treeBody[t]

\* Files, marker and head commit stay in step (persist_git_mutation).
HeadInStep == HistoryWithinAuthority /\ CleanWhenFree

=============================================================================
