-------------------------- MODULE RuntimeSelection --------------------------
(***************************************************************************)
(* Staging a runtime release (tools/runtime_store.py), publishing the      *)
(* runtime selector and resolving an uncertain publication                 *)
(* (tools/upgrade_authority.py), and dispatching a read-only command to    *)
(* the selected release (tools/runtime_bootstrap.py).                      *)
(*                                                                         *)
(* An admitted publication holds the coordinator lock, as does the         *)
(* reconciliation; staging and dispatching hold nothing that excludes      *)
(* them.  Power may fail: a rename is durable once its directory was       *)
(* synchronised.  Every file created or replaced is a new inode, and a     *)
(* directory that was replaced does not come back.                         *)
(***************************************************************************)
EXTENDS Naturals

CONSTANTS
    Releases,
    First,        \* the release selected and staged at the start
    Stagers,      \* processes that stage releases
    MaxNodes,     \* bound on files and directories created
    MaxLosses,    \* bound on power failures and changes outside the protocol
    None

VARIABLES
    selector,     \* the selector at its path: inode and active release
    durable,      \* the selector a power failure may bring back
    content,      \* history: what each inode selects
    temporaries,  \* abandoned selector temporaries
    publisher,    \* the process that holds the lock to publish
    last,         \* what is known of the last publication
    reverted,     \* history: whether a power failure undid a rename
    dirs,         \* the directory at each release's path
    touched,      \* history: releases whose directory was changed outside the protocol
    stage,        \* progress of each stager
    dispatch,     \* progress of a dispatched command
    nodes,        \* inodes used
    losses

selection == <<selector, durable, content, temporaries, publisher, last, reverted>>
vars == <<selection, dirs, touched, stage, dispatch, nodes, losses>>

\* What a release's directory holds: the release; its manifest, but not all the files of
\* the manifest's inventory; or something else.
Trees == {"whole", "altered", "foreign"}

Idle == [at |-> "idle"]

Init ==
    /\ selector = [ino |-> 0, active |-> First] /\ durable = selector
    /\ content = [i \in 0..MaxNodes |-> IF i = 0 THEN First ELSE None]
    /\ temporaries = {}
    /\ publisher = Idle
    /\ last = [out |-> "none"]
    /\ reverted = FALSE
    /\ dirs = [r \in Releases |-> IF r = First THEN [node |-> 0, tree |-> "whole"] ELSE None]
    /\ touched = {}
    /\ stage = [s \in Stagers |-> Idle]
    /\ dispatch = Idle
    /\ nodes = 0 /\ losses = 0

Fresh == nodes < MaxNodes /\ nodes' = nodes + 1
Loss == losses < MaxLosses /\ losses' = losses + 1

-----------------------------------------------------------------------------
(* commit_runtime_selector, inside commit_runtime_selector_admitted.         *)

\* the coordinator lock
LockFree == publisher = Idle

\* the pair of releases differs; a temporary is written and synchronised
StartPublish(r) ==
    /\ publisher = Idle
    /\ r # selector.active
    /\ Fresh
    /\ content' = [content EXCEPT ![nodes + 1] = r]
    /\ publisher' = [at |-> "written", release |-> r, ino |-> nodes + 1]
    /\ last' = [out |-> "unknown", release |-> r, before |-> selector.active]
    /\ UNCHANGED <<selector, durable, temporaries, reverted, dirs, touched, stage, dispatch,
                   losses>>

Rename ==
    /\ publisher.at = "written"
    /\ selector' = [ino |-> publisher.ino, active |-> publisher.release]
    /\ publisher' = [publisher EXCEPT !.at = "renamed"]
    /\ UNCHANGED <<durable, content, temporaries, last, reverted, dirs, touched, stage,
                   dispatch, nodes, losses>>

\* the published inode is checked and the parent directory synchronised
Synchronised_Not == durable
Synchronised == selector

SyncParent ==
    /\ publisher.at = "renamed"
    /\ durable' = Synchronised
    /\ publisher' = Idle
    /\ last' = [last EXCEPT !.out = "published"]
    /\ UNCHANGED <<selector, content, temporaries, reverted, dirs, touched, stage,
                   dispatch, nodes, losses>>

\* an error is a failure before the rename and ambiguous after it
PublishFails ==
    /\ publisher # Idle
    /\ last' = [last EXCEPT !.out = IF publisher.at = "renamed" THEN "ambiguous" ELSE "failed"]
    /\ publisher' = Idle
    /\ UNCHANGED <<selector, durable, content, temporaries, reverted, dirs, touched, stage,
                   dispatch, nodes, losses>>

PublisherDies ==
    /\ publisher # Idle
    /\ temporaries' = IF publisher.at = "written" THEN temporaries \cup {publisher.ino}
                                                  ELSE temporaries
    /\ publisher' = Idle
    /\ UNCHANGED <<selector, durable, content, last, reverted, dirs, touched, stage,
                   dispatch, nodes, losses>>

\* _cleanup_selector_temporaries: the directory is synchronised if one was removed
Cleanup ==
    /\ temporaries' = {}
    /\ durable' = IF temporaries = {} THEN durable ELSE selector

\* reconcile_runtime_selector, reconcile_selector_publication: exactly the old or
\* the new selector is accepted
Verdict ==
    IF selector.active = last.release THEN "committed"
    ELSE IF selector.active = last.before THEN "not-committed" ELSE last.out

Reconcile ==
    /\ LockFree
    /\ last.out \in {"unknown", "ambiguous"}
    /\ Cleanup
    /\ last' = [last EXCEPT !.out = Verdict]
    /\ UNCHANGED <<selector, content, publisher, reverted, dirs, touched, stage,
                   dispatch, nodes, losses>>

\* every process dies; a rename that was not synchronised may be undone
PowerFails ==
    /\ Loss
    /\ selector' \in {selector, durable}
    /\ durable' = selector'
    /\ reverted' = (reverted \/ selector' # selector)
    /\ temporaries' = IF publisher # Idle /\ publisher.at = "written"
                      THEN temporaries \cup {publisher.ino} ELSE temporaries
    /\ publisher' = Idle
    /\ stage' = [s \in Stagers |-> Idle]
    /\ dispatch' = Idle
    /\ UNCHANGED <<content, last, dirs, touched, nodes>>

-----------------------------------------------------------------------------
(* stage_runtime_release.                                                    *)

\* the path is free; the source, which may change meanwhile, is copied to a private
\* temporary as it comes, and the manifest written beside it
StartStage(s, r) ==
    /\ stage[s] = Idle
    /\ dirs[r] = None
    /\ \E tree \in {"whole", "altered"} :
          stage' = [stage EXCEPT ![s] = [at |-> "copied", release |-> r, tree |-> tree]]
    /\ UNCHANGED <<selection, dirs, touched, dispatch, nodes, losses>>

\* verify_runtime_release: manifest identity and the complete inventory
Trusted(s) == stage[s].tree = "whole"

VerifyStage(s) ==
    /\ stage[s].at = "copied"
    /\ stage' = [stage EXCEPT ![s] = IF Trusted(s) THEN [@ EXCEPT !.at = "verified"] ELSE Idle]
    /\ UNCHANGED <<selection, dirs, touched, dispatch, nodes, losses>>

\* under _publication_lock the existence check is repeated
Absent(r) == dirs[r] = None

Put(r, node, tree) == dirs' = [dirs EXCEPT ![r] = [node |-> node, tree |-> tree]]

PublishStage(s) ==
    LET r == stage[s].release IN
    /\ stage[s].at = "verified"
    /\ \/ Absent(r) /\ Fresh /\ Put(r, nodes + 1, stage[s].tree)
       \/ ~ Absent(r) /\ UNCHANGED <<dirs, nodes>>
    /\ stage' = [stage EXCEPT ![s] = Idle]
    /\ UNCHANGED <<selection, touched, dispatch, losses>>

\* something outside the protocol puts another directory at a release's path
ReplaceDir(r) ==
    /\ dirs[r] # None
    /\ Fresh /\ Loss
    /\ \E tree \in Trees : Put(r, nodes + 1, tree)
    /\ touched' = touched \cup {r}
    /\ UNCHANGED <<selection, stage, dispatch>>

\* ... or changes the files of the one that is there
AlterDir(r) ==
    /\ dirs[r] # None
    /\ Loss
    /\ \E tree \in Trees \ {dirs[r].tree} : Put(r, dirs[r].node, tree)
    /\ touched' = touched \cup {r}
    /\ UNCHANGED <<selection, stage, dispatch, nodes>>

-----------------------------------------------------------------------------
(* run_selected_runtime.                                                     *)

At(point) == dispatch.at = point
Goto(point) == dispatch' = [dispatch EXCEPT !.at = point]
Quiet == UNCHANGED <<selection, dirs, touched, stage, nodes, losses>>

\* _selector_identity, and then read_runtime_selector: two readings
CaptureSelector ==
    /\ dispatch = Idle
    /\ dispatch' = [at |-> "captured", ino |-> selector.ino, active |-> None,
                    dir |-> None, seen |-> None, imports |-> None]
    /\ Quiet

ReadSelector ==
    /\ At("captured")
    /\ dispatch' = [dispatch EXCEPT !.at = "read", !.active = selector.active]
    /\ Quiet

\* the release's directory is opened, and retained by its descriptor
OpenRelease ==
    /\ At("read")
    /\ dirs[dispatch.active] # None
    /\ dispatch' = [dispatch EXCEPT !.at = "opened", !.dir = dirs[dispatch.active].node]
    /\ Quiet

\* read_runtime_manifest, verify_authenticity, verify_runtime_manifest: the manifest, and
\* nothing else, of the directory then at the path (`seen`, a history field) is verified
ManifestVerified == dirs[dispatch.active].tree # "foreign"

VerifyRelease ==
    /\ At("opened")
    /\ ManifestVerified
    /\ dispatch' = [dispatch EXCEPT !.at = "verified", !.seen = dirs[dispatch.active].node]
    /\ Quiet

\* revalidate, _require_selector_unchanged; for a dispatch, revalidate_manifest too
SelectorUnchanged == selector = [ino |-> dispatch.ino, active |-> dispatch.active]
DirectoryRetained == dirs[dispatch.active].node = dispatch.dir
Bound == DirectoryRetained /\ SelectorUnchanged
Valid == Bound /\ ManifestVerified

Resolve == At("verified") /\ Bound /\ Goto("resolved") /\ Quiet
Admit == At("resolved") /\ Valid /\ Goto("admitted") /\ Quiet

\* prepare_runtime_dispatch: validated before and after the entrypoint is opened
PrepareDispatch == At("admitted") /\ Valid /\ Goto("entrypoint") /\ Quiet
BindEntrypoint == At("entrypoint") /\ Valid /\ Goto("bound") /\ Quiet

\* the entrypoint is read from the retained directory, what it imports from whatever is
\* at the release's path by then (PYTHONPATH)
Launch ==
    /\ At("bound")
    /\ dispatch' = [dispatch EXCEPT !.at = "launched", !.imports = dirs[dispatch.active].node]
    /\ Quiet

\* any refusal, error or kill, or the end of the command
EndDispatch ==
    /\ dispatch # Idle
    /\ dispatch' = Idle
    /\ Quiet

Dispatch ==
    \/ CaptureSelector \/ ReadSelector \/ OpenRelease \/ VerifyRelease \/ Resolve
    \/ Admit \/ PrepareDispatch \/ BindEntrypoint \/ Launch \/ EndDispatch

Next ==
    \/ Rename \/ SyncParent \/ PublishFails \/ PublisherDies \/ Reconcile \/ PowerFails
    \/ \E r \in Releases : StartPublish(r) \/ ReplaceDir(r) \/ AlterDir(r)
    \/ \E s \in Stagers :
          \/ \E r \in Releases : StartStage(s, r)
          \/ VerifyStage(s) \/ PublishStage(s)
    \/ Dispatch

Spec == Init /\ [][Next]_vars

-----------------------------------------------------------------------------
(* Properties.  Operators named X_Y are plausible mistakes in X, against   *)
(* which the properties are tried; no action uses them.                    *)

\* A publication that reported success survives every later power failure
\* (commit_runtime_selector synchronises the directory before it returns).
PublishedSurvives == last.out = "published" => selector.active = last.release

\* A publication that is known to have failed stays invisible: neither the
\* publisher itself nor a late rename ever brings it back, unless a power failure
\* undid an earlier, uncertain one (reconcile_runtime_selector).
FailedStaysInvisible ==
    last.out \in {"failed", "not-committed"} => reverted \/ selector.active = last.before

\* A publication a reconciliation called committed stays selected until a power failure
\* undoes a rename: the reconciliation itself synchronises nothing, unless it removed a
\* temporary (reconcile_runtime_selector).
CommittedStays ==
    last.out = "committed" => reverted \/ selector.active = last.release

\* What is reported of a publication is what a launch will find: for ever when it is
\* reported published, and until a power failure undoes a rename when it is reported
\* failed or reconciled (commit_runtime_selector, reconcile_runtime_selector).
SelectorSound == PublishedSurvives /\ FailedStaysInvisible /\ CommittedStays

\* A launched command's release is the one named by the very selector file whose
\* identity was captured, and its entrypoint comes from a directory whose own manifest
\* was verified, although selector, directory and manifest are read by path one after
\* the other and may be replaced in between.  The other files are not verified again:
\* that they are whole, and that the imports come from the same directory, holds of a
\* release nobody changed outside the protocol (resolve_selected_runtime_bound,
\* prepare_runtime_dispatch).
LaunchConsistent ==
    dispatch # Idle /\ At("launched") =>
        /\ content[dispatch.ino] = dispatch.active
        /\ dispatch.seen = dispatch.dir
        /\ dispatch.active \notin touched =>
              dispatch.imports = dispatch.dir
              /\ dirs[dispatch.active] = [node |-> dispatch.dir, tree |-> "whole"]

\* What is published is what is reported and what is launched
\* (commit_runtime_selector, resolve_selected_runtime_bound).
RuntimeSound == SelectorSound /\ LaunchConsistent

=============================================================================
