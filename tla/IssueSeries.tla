---------------------------- MODULE IssueSeries ----------------------------
(***************************************************************************)
(* One issue series: its creation from a planned manifest, and the         *)
(* optional publication of a comment on the hosted issue                   *)
(* (tools/issue_series_service.py, the issue-series part of                *)
(* tools/sqlite_storage.py).                                               *)
(*                                                                         *)
(* The coordinator lock covers a whole creation and each reading or        *)
(* writing of the publication receipt, never a call to the hosting         *)
(* service; those are serialised by a lock of their own.  A call whose     *)
(* answer is lost may have landed, may land later, or never.               *)
(***************************************************************************)
EXTENDS Naturals

CONSTANTS
    Procs,
    MaxBoard,     \* bound on other changes of the board
    MaxPosts,     \* bound on calls that post a comment
    None

VARIABLES
    backend,      \* "git" or "sqlite"
    board,        \* the digest of the task graph
    manifest,     \* whether the series' manifest exists
    tasks,        \* how many of its tasks exist: "none", "some" or "all"
    receipt,      \* the durable publication receipt, or None
    comments,     \* the marked comments on the issue
    flying,       \* calls that were given up and have not landed
    posts,        \* calls made, which number the comments
    proc,         \* each command
    torn,         \* history: a creation was killed
    late,         \* history: a call landed after it was given up
    mocked        \* history: the receipt names the comment of a mock

series == <<board, manifest, tasks, torn>>
hosted == <<comments, flying, posts, late, mocked>>
vars == <<backend, series, receipt, hosted, proc>>

Final == {"published", "already_published"}
Outcome(status, comment) == [status |-> status, comment |-> comment]
Idle == [at |-> "idle"]

Init ==
    /\ backend \in {"git", "sqlite"}
    /\ board = 0 /\ manifest = FALSE /\ tasks = "none" /\ torn = FALSE
    /\ receipt = None
    /\ comments = {} /\ flying = {} /\ posts = 0 /\ late = FALSE /\ mocked = FALSE
    /\ proc = [p \in Procs |-> Idle]

At(p, point) == proc[p].at = point
Goto(p, point) == proc' = [proc EXCEPT ![p].at = point]
End(p) == proc' = [proc EXCEPT ![p] = Idle]

\* the coordinator lock, and the lock of the publication key
Unlocked == \A p \in Procs : ~ At(p, "creating")
KeyFree_Unserialised == TRUE
KeyFree == \A p \in Procs : proc[p].at \notin {"locked", "prepared", "clear", "answered"}

-----------------------------------------------------------------------------
(* issue-series plan and create.                                             *)

BoardChanges ==
    /\ Unlocked /\ board < MaxBoard
    /\ board' = board + 1
    /\ UNCHANGED <<backend, manifest, tasks, torn, receipt, hosted, proc>>

\* the receipt of a plan carries the digest of the graph it was checked against
Plan(p) ==
    /\ proc[p] = Idle /\ tasks = "none"
    /\ proc' = [proc EXCEPT ![p] = [at |-> "planned", digest |-> board]]
    /\ UNCHANGED <<backend, series, receipt, hosted>>

Creatable(p) ==
    /\ At(p, "planned") /\ Unlocked
    /\ tasks = "none" /\ ~ manifest
    /\ proc[p].digest = board

\* one transaction
CreateSqlite(p) ==
    /\ backend = "sqlite" /\ Creatable(p)
    /\ manifest' = TRUE /\ tasks' = "all"
    /\ End(p)
    /\ UNCHANGED <<backend, board, torn, receipt, hosted>>

\* the manifest and one task after the other are written, then committed
CreateGit(p) ==
    /\ backend = "git" /\ Creatable(p)
    /\ manifest' = TRUE
    /\ Goto(p, "creating")
    /\ UNCHANGED <<backend, board, tasks, torn, receipt, hosted>>

WriteTask(p) ==
    /\ At(p, "creating") /\ tasks # "all"
    /\ tasks' = IF tasks = "none" THEN "some" ELSE "all"
    /\ UNCHANGED <<backend, board, manifest, torn, receipt, hosted, proc>>

CommitSeries(p) ==
    /\ At(p, "creating") /\ tasks = "all"
    /\ End(p)
    /\ UNCHANGED <<backend, series, receipt, hosted>>

\* any error before the commit: restore_paths
Restored == manifest' = FALSE /\ tasks' = "none"

CreateFails(p) ==
    /\ At(p, "creating")
    /\ Restored
    /\ End(p)
    /\ UNCHANGED <<backend, board, torn, receipt, hosted>>

-----------------------------------------------------------------------------
(* issue-series publish.                                                     *)

\* _issue_series_receipt: the local series, with all of its members
Local == Unlocked /\ manifest /\ tasks = "all"

\* record: an existing receipt is only replayed
Record(outcome) == receipt' = IF receipt = None THEN outcome ELSE receipt

\* resolve: an outcome that is not final is replaced
Resolvable == receipt # None /\ receipt.status \notin Final

\* the dry-run and mock transports make no call, but a mock's published outcome carries
\* the comment identifier the caller gave it, and is as durable as a real one
Offline ==
    {Outcome(status, 0) : status \in {"dry_run", "deferred", "ambiguous"}}
        \cup {Outcome(status, c) : status \in Final, c \in 1..MaxPosts}

PublishOffline(p, outcome) ==
    /\ proc[p] = Idle /\ Local
    /\ Record(outcome)
    /\ mocked' = (mocked \/ (receipt = None /\ outcome.comment # 0))
    /\ UNCHANGED <<backend, series, comments, flying, posts, late, proc>>

\* the reservation of a live publication
Reserve(p) ==
    /\ proc[p] = Idle /\ Local
    /\ receipt # None => receipt.status \notin Final
    /\ Record(Outcome("ambiguous", 0))
    /\ proc' = [proc EXCEPT ![p] = [at |-> "reserved", out |-> Outcome("ambiguous", 0)]]
    /\ UNCHANGED <<backend, series, hosted>>

LockKey(p) ==
    /\ At(p, "reserved") /\ KeyFree
    /\ Goto(p, "locked")
    /\ UNCHANGED <<backend, series, receipt, hosted>>

\* the receipt is read again; what is not final becomes ambiguous before a call
PrepareCall(p) ==
    /\ At(p, "locked") /\ Local
    /\ IF Resolvable
       THEN receipt' = Outcome("ambiguous", 0) /\ Goto(p, "prepared")
       ELSE UNCHANGED receipt /\ End(p)
    /\ UNCHANGED <<backend, series, hosted>>

Answer(p, outcome) ==
    proc' = [proc EXCEPT ![p].at = "answered", ![p].out = outcome]

\* _live_existing_issue_series_comment: none, one or several marked comments
Found(p) ==
    \/ comments = {} /\ Goto(p, "clear")
    \/ \E c \in comments : comments = {c} /\ Answer(p, Outcome("already_published", c))
    \/ (\E c, other \in comments : c # other) /\ Answer(p, Outcome("ambiguous", 0))

LookUp(p) ==
    /\ At(p, "prepared")
    /\ Found(p)
    /\ UNCHANGED <<backend, series, receipt, hosted>>

\* a refusal or failure of either call before anything was posted
CallFails(p) ==
    /\ proc[p].at \in {"prepared", "clear"}
    /\ Answer(p, Outcome("deferred", 0))
    /\ UNCHANGED <<backend, series, receipt, hosted>>

Post(p) ==
    /\ At(p, "clear") /\ posts < MaxPosts
    /\ posts' = posts + 1
    /\ comments' = comments \cup {posts + 1}
    /\ Answer(p, Outcome("published", posts + 1))
    /\ UNCHANGED <<backend, series, receipt, flying, late, mocked>>

\* a timeout, an error or an answer without an identifier: _live_publication_failure
Unanswered == Outcome("deferred", 0)

PostUnanswered(p) ==
    /\ At(p, "clear") /\ posts < MaxPosts
    /\ posts' = posts + 1
    /\ \/ comments' = comments \cup {posts + 1} /\ UNCHANGED flying
       \/ flying' = flying \cup {posts + 1} /\ UNCHANGED comments
    /\ \E outcome \in {Unanswered, Outcome("ambiguous", 0)} : Answer(p, outcome)
    /\ UNCHANGED <<backend, series, receipt, late, mocked>>

Land(c) ==
    /\ c \in flying
    /\ flying' = flying \ {c}
    /\ comments' = comments \cup {c}
    /\ late' = TRUE
    /\ UNCHANGED <<backend, series, receipt, posts, mocked, proc>>

Resolve(p) ==
    /\ At(p, "answered") /\ Local
    /\ receipt' = IF Resolvable THEN proc[p].out ELSE receipt
    /\ End(p)
    /\ UNCHANGED <<backend, series, hosted>>

-----------------------------------------------------------------------------

\* a command is killed, or gives up waiting or after writing its receipt
Kill(p) ==
    /\ proc[p] # Idle
    /\ torn' = (torn \/ At(p, "creating"))
    /\ End(p)
    /\ UNCHANGED <<backend, board, manifest, tasks, receipt, hosted>>

Step(p) ==
    \/ Plan(p) \/ CreateSqlite(p) \/ CreateGit(p) \/ WriteTask(p)
    \/ CommitSeries(p) \/ CreateFails(p)
    \/ \E outcome \in Offline : PublishOffline(p, outcome)
    \/ Reserve(p) \/ LockKey(p) \/ PrepareCall(p) \/ LookUp(p) \/ CallFails(p)
    \/ Post(p) \/ PostUnanswered(p) \/ Resolve(p) \/ Kill(p)

Next ==
    \/ BoardChanges
    \/ \E p \in Procs : Step(p)
    \/ \E c \in 1..MaxPosts : Land(c)

Spec == Init /\ [][Next]_vars

-----------------------------------------------------------------------------
(* Properties.  Operators named X_Y are plausible mistakes in X, against   *)
(* which the properties are tried; no action uses them.                    *)

\* Retries, kills and lost answers of any number of publish commands leave one
\* comment on the issue, unless a call landed after it was given up: the look-up
\* for the marker is the only defence against the latter
\* (_live_existing_issue_series_comment, issue_series_publication_locked).
OneComment == late \/ \A c, other \in comments : c = other

\* A receipt that names a comment names one that is on the issue, unless a mock wrote it;
\* and a series with a mock's receipt never gets a comment, nor a call that could still
\* leave one: the receipt is final, and taken for a real one by every later publish
\* (_live_issue_series_publication, _git_resolve_issue_series_publication).
ReceiptNamesComment ==
    IF mocked THEN comments = {} /\ flying = {}
    ELSE receipt # None /\ receipt.comment # 0 => receipt.comment \in comments

\* A series exists with its manifest and all of its tasks or not at all, also
\* when its creation fails half way; only a kill on the Git backend tears it
\* (create_git_issue_series, create_issue_series).
SeriesWhole == Unlocked /\ ~ torn => (manifest <=> tasks = "all") /\ tasks # "some"

\* A series is created whole and leaves one comment, the one its receipt names, or none
\* when a mock published it (cmd_issue_series_create, cmd_issue_series_publish).
SeriesSound == SeriesWhole /\ OneComment /\ ReceiptNamesComment

=============================================================================
