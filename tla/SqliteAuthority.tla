-------------------------- MODULE SqliteAuthority --------------------------
(***************************************************************************)
(* A lifecycle mutation under the SQLite backend: handoffctl.mutate_sqlite *)
(* over sqlite_storage.mutate, and the export of the Markdown projections  *)
(* that follows it.                                                        *)
(*                                                                         *)
(* A writer loads the board outside any transaction, computes the new body *)
(* from that load inside the transaction that compares the revision, and   *)
(* after its commit loads the board again, still without the lock, to      *)
(* write it over the task files and the generated views under the          *)
(* repository lock.                                                        *)
(***************************************************************************)
EXTENDS Naturals, Sequences

CONSTANTS
    Writers,      \* concurrent handoffctl processes
    Tasks,
    MaxRevision,  \* bound on a task's revision
    None

\* A visible change alters what CURRENT.md renders (status, owner, summary,
\* next action); a quiet one (a heartbeat, a note) does not.
Changes == {"visible", "quiet"}

\* What the constants stand for.
SqliteConstants ==
    Tasks # {} /\ MaxRevision \in Nat /\ None \notin Writers

VARIABLES
    rev, body, visible,        \* the committed tables
    fileRev, view,             \* task files and CURRENT.md
    lock,                      \* the repository-common lock
    pc, task, entry,           \* each writer's progress and request
    expected, loaded,          \* its expected revision and loaded body
    snapRev, snapVisible,      \* the board it is about to export
    degraded                   \* a crash or a reported export failure occurred

db       == <<rev, body, visible>>
files    == <<fileRev, view>>
request  == <<task, entry, expected, loaded>>
snapshot == <<snapRev, snapVisible>>
vars == <<rev, body, visible, fileRev, view, lock, pc, task, entry, expected,
          loaded, snapRev, snapVisible, degraded>>

Steps == {"idle", "loaded", "committed", "snapped", "locked", "written", "rendered"}

\* The tables, files and per-process state have the shapes the schema and the
\* code give them.
TypeOK ==
    /\ rev \in [Tasks -> Nat] /\ body \in [Tasks -> Seq(Changes)]
    /\ visible \in [Tasks -> Nat]
    /\ fileRev \in [Tasks -> Nat] /\ view \in [Tasks -> Nat]
    /\ lock \in Writers \cup {None}
    /\ pc \in [Writers -> Steps]
    /\ task \in [Writers -> Tasks] /\ entry \in [Writers -> Changes]
    /\ expected \in [Writers -> Nat] /\ loaded \in [Writers -> Seq(Changes)]
    /\ snapRev \in [Writers -> [Tasks -> Nat]]
    /\ snapVisible \in [Writers -> [Tasks -> Nat]]
    /\ degraded \in BOOLEAN

SomeTask    == CHOOSE t \in Tasks : TRUE
NoRevisions == [t \in Tasks |-> 0]

Init ==
    /\ rev = [t \in Tasks |-> 1] /\ body = [t \in Tasks |-> <<>>]
    /\ visible = [t \in Tasks |-> 0]
    /\ fileRev = rev /\ view = visible
    /\ lock = None
    /\ pc = [w \in Writers |-> "idle"]
    /\ task = [w \in Writers |-> SomeTask]
    /\ entry = [w \in Writers |-> "quiet"]
    /\ expected = [w \in Writers |-> 0] /\ loaded = [w \in Writers |-> <<>>]
    /\ snapRev = [w \in Writers |-> NoRevisions]
    /\ snapVisible = [w \in Writers |-> NoRevisions]
    /\ degraded = FALSE

Goto(w, step) == pc' = [pc EXCEPT ![w] = step]

\* Local values that are no longer used.
ForgetRequest(w) ==
    /\ task' = [task EXCEPT ![w] = SomeTask]
    /\ entry' = [entry EXCEPT ![w] = "quiet"]
    /\ expected' = [expected EXCEPT ![w] = 0]
    /\ loaded' = [loaded EXCEPT ![w] = <<>>]
ForgetSnapshot(w) ==
    /\ snapRev' = [snapRev EXCEPT ![w] = NoRevisions]
    /\ snapVisible' = [snapVisible EXCEPT ![w] = NoRevisions]

-----------------------------------------------------------------------------
(* The transaction.                                                        *)

\* The caller names no revision, or one it has read: never a future one.
Load(w, t, e, q) ==
    /\ pc[w] = "idle"
    /\ q \in 1 .. rev[t]
    /\ task' = [task EXCEPT ![w] = t] /\ entry' = [entry EXCEPT ![w] = e]
    /\ expected' = [expected EXCEPT ![w] = q]
    /\ loaded' = [loaded EXCEPT ![w] = body[t]]
    /\ Goto(w, "loaded")
    /\ UNCHANGED <<db, files, lock, snapshot, degraded>>

\* The revision compared inside BEGIN IMMEDIATE.
Fenced_NotStale(w) == rev[task[w]] >= expected[w]
Fenced(w) == rev[task[w]] = expected[w]

\* The body comes from the load that preceded the transaction.
Commit(w) ==
    /\ pc[w] = "loaded"
    /\ Fenced(w)
    /\ rev[task[w]] < MaxRevision
    /\ rev' = [rev EXCEPT ![task[w]] = @ + 1]
    /\ body' = [body EXCEPT ![task[w]] = Append(loaded[w], entry[w])]
    /\ visible' = IF entry[w] = "visible" THEN [visible EXCEPT ![task[w]] = @ + 1]
                  ELSE visible
    /\ Goto(w, "committed") /\ ForgetRequest(w)
    /\ UNCHANGED <<files, lock, snapshot, degraded>>

\* A stale revision, a refused transition or an invalid board.
Refuse(w) ==
    /\ pc[w] = "loaded"
    /\ Goto(w, "idle") /\ ForgetRequest(w)
    /\ UNCHANGED <<db, files, lock, snapshot, degraded>>

\* Reconciliation records changed worktrees in one transaction and exports.
Observe(w, S) ==
    /\ pc[w] = "idle"
    /\ \A t \in S : rev[t] < MaxRevision
    /\ rev' = [t \in Tasks |-> IF t \in S THEN rev[t] + 1 ELSE rev[t]]
    /\ Goto(w, "committed")
    /\ UNCHANGED <<body, visible, files, lock, request, snapshot, degraded>>

-----------------------------------------------------------------------------
(* The export.                                                             *)

Snapshot(w) ==
    /\ pc[w] = "committed"
    /\ snapRev' = [snapRev EXCEPT ![w] = rev]
    /\ snapVisible' = [snapVisible EXCEPT ![w] = visible]
    /\ Goto(w, "snapped")
    /\ UNCHANGED <<db, files, lock, request, degraded>>

Lock(w) ==
    /\ pc[w] = "snapped" /\ lock = None
    /\ lock' = w
    /\ Goto(w, "locked")
    /\ UNCHANGED <<db, files, request, snapshot, degraded>>

LockTimeout(w) ==
    /\ pc[w] = "snapped" /\ lock # None
    /\ degraded' = TRUE
    /\ Goto(w, "idle") /\ ForgetSnapshot(w)
    /\ UNCHANGED <<db, files, lock, request>>

WriteTasks(w) ==
    /\ pc[w] = "locked"
    /\ fileRev' = snapRev[w]
    /\ Goto(w, "written")
    /\ UNCHANGED <<db, view, lock, request, snapshot, degraded>>

WriteViews(w) ==
    /\ pc[w] = "written"
    /\ view' = snapVisible[w]
    /\ Goto(w, "rendered")
    /\ UNCHANGED <<db, fileRev, lock, request, snapshot, degraded>>

\* validate renders the views again, from the tables as they are now.
ViewsMatch_Unread == TRUE
ViewsMatch == view = visible

Validate(w) ==
    /\ pc[w] = "rendered"
    /\ degraded' = (degraded \/ ~ ViewsMatch)
    /\ lock' = None
    /\ Goto(w, "idle") /\ ForgetSnapshot(w)
    /\ UNCHANGED <<db, files, request>>

\* A killed process loses its lock and nothing it committed.
Crash(w) ==
    /\ pc[w] # "idle"
    /\ lock' = IF lock = w THEN None ELSE lock
    /\ degraded' = TRUE
    /\ Goto(w, "idle") /\ ForgetRequest(w) /\ ForgetSnapshot(w)
    /\ UNCHANGED <<db, files>>

Step(w) ==
    \/ \E t \in Tasks, e \in Changes : \E q \in 1 .. rev[t] : Load(w, t, e, q)
    \/ Commit(w) \/ Refuse(w)
    \/ \E S \in SUBSET Tasks : Observe(w, S)
    \/ Snapshot(w) \/ Lock(w) \/ LockTimeout(w)
    \/ WriteTasks(w) \/ WriteViews(w) \/ Validate(w)
    \/ Crash(w)

Next == \E w \in Writers : Step(w)

Spec == Init /\ [][Next]_vars

-----------------------------------------------------------------------------
(* Properties.  Operators named X_Y are plausible mistakes in X, against   *)
(* which the properties are tried; no action uses them.                    *)

Log == INSTANCE RevisionLog WITH Entries <- Changes

\* The database is a revision log although each body is computed from a read
\* outside the transaction: no interleaving of writers and scans loses a note
\* or advances a task by anything but one (mutate_sqlite, sqlite mutate).
Linearized == Log!Spec

\* Why: no writer expects a revision from the future, so one whose expectation
\* is still met holds the current body.
FreshBase ==
    \A w \in Writers : pc[w] = "loaded" =>
        /\ expected[w] <= rev[task[w]]
        /\ expected[w] = rev[task[w]] => loaded[w] = body[task[w]]

Quiescent == \A w \in Writers : pc[w] = "idle"

\* When all writers are done and none crashed or reported a failed export, the
\* generated views show the committed board: exports that overtake each other
\* are caught by the validation that follows them (write_sqlite_projections).
ViewsCurrent == Quiescent /\ ~ degraded => view = visible

=============================================================================
