--------------------------- MODULE AuthorityCommit ---------------------------
(***************************************************************************)
(* The one-use capability by which an upgrade changes its authority: the   *)
(* Git commit of tools/git_authority_mutation.py, the SQLite transaction   *)
(* of tools/sqlite_authority_mutation.py, and the journal entry that       *)
(* tools/authority_mutation.py keeps around either of them.                *)
(*                                                                         *)
(* No lock is held between the checks and the effect.  Meanwhile the       *)
(* session may be lost, the repository or database replaced, and, on Git,  *)
(* an ordinary board command may write, stage and commit.                  *)
(***************************************************************************)
EXTENDS Naturals, Sequences

CONSTANTS
    MaxAdmission,  \* bound on changes of the admitted session
    MaxNode,       \* bound on replacements of the authority
    MaxCommits     \* bound on commits of one authority

VARIABLES
    backend,       \* "git" or "sqlite"
    admission,     \* the admission a reread returns, newer after every change
    node,          \* the repository or database at the authority's path
    history,       \* of every such node: what each commit contains
    files,         \* Git: how far the payload and the board's files have come
    intent,        \* the authority effect journal
    cap,           \* the process that holds the capability
    landed         \* history: under which admission and in which node it landed

vars == <<backend, admission, node, history, files, intent, cap, landed>>

Clean == [payload |-> "clean", board |-> "clean"]
Idle == [at |-> "idle"]

Init ==
    /\ backend \in {"git", "sqlite"}
    /\ admission = 0 /\ node = 0
    /\ history = [n \in 0..MaxNode |-> <<>>]
    /\ files = Clean
    /\ intent = "none"
    /\ cap = Idle
    /\ landed = {}

At(point) == cap.at = point
Goto(point) == cap' = [cap EXCEPT !.at = point]
Done(outcome) == cap' = [cap EXCEPT !.at = "done", !.out = outcome]

Staged == {f \in DOMAIN files : files[f] = "index"}
Unstaged == {f \in DOMAIN files : files[f] = "tree"}
Tip == Len(history[node])

-----------------------------------------------------------------------------
(* The journal around the effect.                                            *)

\* An effect is prepared while none is unresolved; an ambiguous one has fenced the
\* session.  A rejected one is tried again as a new operation.
Bindable == intent \in {"none", "rejected"}

Bind ==
    /\ cap = Idle /\ Bindable
    /\ cap' = [at |-> "bound", admission |-> admission, node |-> node, head |-> Tip,
               opened |-> node, after |-> 0, out |-> "none"]
    /\ UNCHANGED <<backend, admission, node, history, files, intent, landed>>

\* _prepare: the session still has the admission's tokens
Prepare ==
    /\ At("bound")
    /\ IF admission = cap.admission
       THEN intent' = "prepared" /\ Goto("prepared")
       ELSE cap' = Idle /\ UNCHANGED intent
    /\ UNCHANGED <<backend, admission, node, history, files, landed>>

\* DurableBoundAuthorityMutation.execute: the outcome is published against the
\* session, or the intent stays prepared
Finish ==
    /\ At("done")
    /\ intent' \in {cap.out, "prepared"}
    /\ cap' = Idle
    /\ UNCHANGED <<backend, admission, node, history, files, landed>>

Crash ==
    /\ cap # Idle
    /\ cap' = Idle
    /\ UNCHANGED <<backend, admission, node, history, files, intent, landed>>

\* recovery of an intent nobody works on any more
Recover ==
    /\ cap = Idle /\ intent = "prepared"
    /\ intent' = "ambiguous"
    /\ UNCHANGED <<backend, admission, node, history, files, cap, landed>>

-----------------------------------------------------------------------------
(* Checks common to both backends.                                           *)

\* _assert_repository_identity and _assert_filesystem_identity
SameRepository == node = cap.node
SameDatabase == node = cap.node
Same == IF backend = "git" THEN SameRepository ELSE SameDatabase

\* _assert_admission_current: CommitAdmissionBundle.matches
Admitted == admission = cap.admission

Checked(from, holds, to) ==
    /\ At(from)
    /\ IF holds THEN Goto(to) ELSE Done("rejected")
    /\ UNCHANGED <<backend, admission, node, history, files, intent, landed>>

\* _assert_before_clean, or the first identity check of SQLite
Before ==
    /\ Same
    /\ backend = "git" => Tip = cap.head /\ files = Clean

AssertBefore == Checked("prepared", Before, "clean")
AssertAdmission == Checked("clean", Admitted, "ready")

\* the effect was invoked and did not return a verified result
Doubt ==
    /\ Done("ambiguous")
    /\ UNCHANGED <<backend, admission, node, history, files, intent, landed>>

\* The commit of `content` to repository n.
Land(n, content) ==
    /\ Len(history[n]) < MaxCommits
    /\ history' = [history EXCEPT ![n] = Append(@, content)]
    /\ landed' = IF "payload" \in content THEN landed \cup {[node |-> n, under |-> admission]}
                                          ELSE landed

-----------------------------------------------------------------------------
(* GitCommitCapability.stage_and_commit.                                     *)

\* The target file is replaced, then added to the index; whatever fails from
\* here on has changed the work tree.
ReplaceTarget ==
    /\ At("ready") /\ backend = "git"
    /\ files' = [files EXCEPT !.payload = "tree"]
    /\ Goto("replaced")
    /\ UNCHANGED <<backend, admission, node, history, intent, landed>>

AddTarget ==
    /\ At("replaced")
    /\ files' = [files EXCEPT !.payload = IF @ = "tree" THEN "index" ELSE @]
    /\ Goto("added")
    /\ UNCHANGED <<backend, admission, node, history, intent, landed>>

StagingFails == At("replaced") /\ Doubt

\* _assert_before: nothing unstaged, something staged
ExactIndex == Same /\ Tip = cap.head /\ Unstaged = {} /\ Staged # {}

AssertIndex == Checked("added", ExactIndex, "staged")
AssertStagedAdmission == Checked("staged", Admitted, "committing")

GitCommit ==
    /\ At("committing") /\ backend = "git"
    /\ Staged # {}
    /\ Land(node, Staged)
    /\ files' = [f \in DOMAIN files |-> IF f \in Staged THEN "clean" ELSE files[f]]
    /\ cap' = [cap EXCEPT !.at = "returned", !.after = Tip + 1]
    /\ UNCHANGED <<backend, admission, node, intent>>

\* _decode_commit_result: a timeout or a nonzero exit proves nothing
Decoded_Exit == "rejected"
Decoded == "ambiguous"

GitCommitFails ==
    /\ At("committing") /\ backend = "git"
    /\ \/ /\ Staged # {} /\ Land(node, Staged)
          /\ files' = [f \in DOMAIN files |-> IF f \in Staged THEN "clean" ELSE files[f]]
       \/ UNCHANGED <<history, landed, files>>
    /\ Done(Decoded)
    /\ UNCHANGED <<backend, admission, node, intent>>

-----------------------------------------------------------------------------
(* SQLiteCommitCapability.commit.                                            *)

Connect ==
    /\ At("ready") /\ backend = "sqlite"
    /\ cap' = [cap EXCEPT !.at = "connected", !.opened = node]
    /\ UNCHANGED <<backend, admission, node, history, files, intent, landed>>

\* the identity is checked again before BEGIN IMMEDIATE
Reopened == Same

BeginTransaction == Checked("connected", Reopened, "begun")

CommitTransaction ==
    /\ At("begun")
    /\ Land(cap.opened, {"payload"})
    /\ cap' = [cap EXCEPT !.at = "returned", !.after = Len(history[cap.opened]) + 1]
    /\ UNCHANGED <<backend, admission, node, files, intent>>

\* _classify_oserror, _classify_sqlite_error: an error after BEGIN
TransactionFails ==
    /\ At("begun")
    /\ Land(cap.opened, {"payload"}) \/ UNCHANGED <<history, landed>>
    /\ Done("ambiguous")
    /\ UNCHANGED <<backend, admission, node, files, intent>>

-----------------------------------------------------------------------------
(* After the effect.                                                         *)

\* the postcondition of Git, the integrity checks of SQLite
Postcondition ==
    IF backend = "git" THEN Tip = cap.after /\ files = Clean ELSE Same

\* an admission that changed cannot receive a receipt
Confirmed == Admitted

Confirm ==
    /\ At("returned")
    /\ \/ Confirmed /\ Same /\ Goto("confirmed")
       \/ ~ (Confirmed /\ Same) /\ Done("ambiguous")
    /\ UNCHANGED <<backend, admission, node, history, files, intent, landed>>

VerifyCommit ==
    /\ At("confirmed")
    /\ Done(IF Postcondition THEN "committed" ELSE "ambiguous")
    /\ UNCHANGED <<backend, admission, node, history, files, intent, landed>>

-----------------------------------------------------------------------------
(* The others.                                                               *)

ChangeAdmission ==
    /\ admission < MaxAdmission
    /\ admission' = admission + 1
    /\ UNCHANGED <<backend, node, history, files, intent, cap, landed>>

Replace ==
    /\ node < MaxNode
    /\ node' = node + 1
    /\ files' = Clean
    /\ UNCHANGED <<backend, admission, history, intent, cap, landed>>

\* A board command writes its files and adds them, on Git at any time.
BoardWrite(to) ==
    /\ backend = "git"
    /\ files.board = (IF to = "tree" THEN "clean" ELSE "tree")
    /\ files' = [files EXCEPT !.board = to]
    /\ UNCHANGED <<backend, admission, node, history, intent, cap, landed>>

\* commit --only: nothing but the board's own files
BoardCommit ==
    /\ backend = "git" /\ files.board = "index"
    /\ Land(node, {"board"})
    /\ files' = [files EXCEPT !.board = "clean"]
    /\ UNCHANGED <<backend, admission, node, intent, cap>>

\* on SQLite the fence admits a board write once the session is not held
BoardTransaction ==
    /\ backend = "sqlite" /\ cap # Idle /\ ~ Admitted
    /\ Land(node, {"board"})
    /\ UNCHANGED <<backend, admission, node, files, intent, cap>>

Next ==
    \/ Bind \/ Prepare \/ Finish \/ Crash \/ Recover
    \/ AssertBefore \/ AssertAdmission
    \/ ReplaceTarget \/ AddTarget \/ StagingFails \/ AssertIndex \/ AssertStagedAdmission
    \/ GitCommit \/ GitCommitFails
    \/ Connect \/ BeginTransaction \/ CommitTransaction \/ TransactionFails
    \/ Confirm \/ VerifyCommit
    \/ ChangeAdmission \/ Replace \/ BoardCommit \/ BoardTransaction
    \/ \E to \in {"tree", "index"} : BoardWrite(to)

Spec == Init /\ [][Next]_vars

-----------------------------------------------------------------------------
(* Properties.  Operators named X_Y are plausible mistakes in X, against   *)
(* which the properties are tried; no action uses them.                    *)

Landings == {c \in (0..MaxNode) \X (1..MaxCommits) :
                 c[2] \in DOMAIN history[c[1]] /\ "payload" \in history[c[1]][c[2]]}

Receipt == cap # Idle /\ cap.out = "committed"

\* A receipt is issued only for an effect that landed in the authority the
\* capability was bound to, under the admission it was bound to, in the commit
\* the receipt names: whatever was replaced, lost or committed by others between
\* the checks, the effect and the receipt (GitCommitResult, SQLiteCommitResult).
ReceiptProves ==
    Receipt => /\ landed = {[node |-> cap.node, under |-> cap.admission]}
               /\ "payload" \in history[cap.node][cap.after]

\* Over all retries, crashes and recoveries the payload lands at most once, and
\* an effect journaled as rejected, which may be tried again, did not land
\* (AuthorityMutationRejectedError).
LandsOnce ==
    /\ \A c, d \in Landings : c = d
    /\ intent = "rejected" => Landings = {}

\* The effect is accounted for: a receipt proves it, and nothing but a rejection
\* denies it (authority_mutation.execute).
CommitAccounted == ReceiptProves /\ LandsOnce
=============================================================================
