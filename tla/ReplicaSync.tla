---------------------------- MODULE ReplicaSync ----------------------------
(***************************************************************************)
(* Replication of the state repository: sync_replica_before_write and      *)
(* push_replica on several configured replicas of one remote.              *)
(*                                                                         *)
(* Lifecycle commands and the Git reconciliation synchronise before they   *)
(* write; the SQLite reconciliation and the rollback journal commit        *)
(* without that.                                                           *)
(*                                                                         *)
(* No replica ever merges, so a history is the sequence of its commits and *)
(* an ancestor is a prefix.  Each replica works under its own repository   *)
(* lock; what it fetched can be overtaken by the others.                   *)
(***************************************************************************)
EXTENDS Naturals, Sequences, SequencesExt

CONSTANTS
    Replicas,
    MaxCommits,   \* bound on commits made
    None

Codes == {"REPLICA_DIVERGED", "REPLICA_BEHIND", "REPLICA_BEHIND_DIRTY"}

VARIABLES
    remote,       \* history of origin/main
    local,        \* history of each replica's main
    fetched,      \* the remote head each replica fetched last
    dirty,        \* whether a checkout has uncommitted content
    blocked,      \* the replica-blocked marker
    pc,           \* what each replica's writer is doing
    commits       \* number of commits made, which names the next one

vars == <<remote, local, fetched, dirty, blocked, pc, commits>>

Steps == {"idle", "fetched", "ready", "committed", "pushing"}

\* Histories are sequences of commits, markers carry a known code.
TypeOK ==
    /\ remote \in Seq(Nat) /\ local \in [Replicas -> Seq(Nat)]
    /\ fetched \in [Replicas -> Seq(Nat)]
    /\ dirty \in [Replicas -> BOOLEAN]
    /\ blocked \in [Replicas -> Codes \cup {None}]
    /\ pc \in [Replicas -> Steps]
    /\ commits \in Nat

Init ==
    /\ remote = <<>> /\ local = [r \in Replicas |-> <<>>]
    /\ fetched = [r \in Replicas |-> <<>>]
    /\ dirty = [r \in Replicas |-> FALSE]
    /\ blocked = [r \in Replicas |-> None]
    /\ pc = [r \in Replicas |-> "idle"]
    /\ commits = 0

Goto(r, step) == pc' = [pc EXCEPT ![r] = step]

\* record_replica_block and clear_replica_block.
Block(r, code) == blocked' = [blocked EXCEPT ![r] = code]
Unblock(r) == blocked' = [blocked EXCEPT ![r] = None]

\* is_ancestor, on the head a replica fetched.
Ahead(r)    == IsPrefix(fetched[r], local[r])
Behind(r)   == IsPrefix(local[r], fetched[r])
Diverged(r) == ~ Ahead(r) /\ ~ Behind(r)

\* replica_heads.
Fetch(r, to) ==
    /\ fetched' = [fetched EXCEPT ![r] = remote]
    /\ Goto(r, to)
    /\ UNCHANGED <<remote, local, dirty, blocked, commits>>

-----------------------------------------------------------------------------
(* sync_replica_before_write.                                              *)

FetchBeforeWrite(r) == pc[r] = "idle" /\ Fetch(r, "fetched")

SyncCurrent(r) ==
    /\ pc[r] = "fetched" /\ Ahead(r)
    /\ Unblock(r) /\ Goto(r, "ready")
    /\ UNCHANGED <<remote, local, fetched, dirty, commits>>

SyncDiverged(r) ==
    /\ pc[r] = "fetched" /\ Diverged(r)
    /\ Block(r, "REPLICA_DIVERGED") /\ Goto(r, "idle")
    /\ UNCHANGED <<remote, local, fetched, dirty, commits>>

SyncDirty(r) ==
    /\ pc[r] = "fetched" /\ Behind(r) /\ ~ Ahead(r) /\ dirty[r]
    /\ Block(r, "REPLICA_BEHIND_DIRTY") /\ Goto(r, "idle")
    /\ UNCHANGED <<remote, local, fetched, dirty, commits>>

FastForward_Reset(r) ==
    /\ pc[r] = "fetched" /\ ~ Ahead(r) /\ ~ dirty[r]
    /\ local' = [local EXCEPT ![r] = fetched[r]]
    /\ Unblock(r) /\ Goto(r, "ready")
    /\ UNCHANGED <<remote, fetched, dirty, commits>>
FastForward(r) ==
    /\ pc[r] = "fetched" /\ Behind(r) /\ ~ Ahead(r) /\ ~ dirty[r]
    /\ local' = [local EXCEPT ![r] = fetched[r]]
    /\ Unblock(r) /\ Goto(r, "ready")
    /\ UNCHANGED <<remote, fetched, dirty, commits>>

-----------------------------------------------------------------------------
(* The write, and push_replica.                                            *)

MakeCommit(r) ==
    /\ commits < MaxCommits
    /\ commits' = commits + 1
    /\ local' = [local EXCEPT ![r] = Append(@, commits + 1)]
    /\ Goto(r, "committed")
    /\ UNCHANGED <<remote, fetched, dirty, blocked>>

\* A synchronised mutation or reconciliation.
Commit(r) == pc[r] = "ready" /\ MakeCommit(r)

\* reconcile_sqlite and _rollback_commit.
CommitUnsynced(r) == pc[r] = "idle" /\ MakeCommit(r)

\* reconcile --push also pushes when there was nothing to commit.
FetchBeforePush(r) == pc[r] \in {"idle", "ready", "committed"} /\ Fetch(r, "pushing")

PushNothing(r) ==
    /\ pc[r] = "pushing" /\ local[r] = fetched[r]
    /\ Unblock(r) /\ Goto(r, "idle")
    /\ UNCHANGED <<remote, local, fetched, dirty, commits>>

\* origin refuses an update that is not a fast-forward of its own head.
Push(r) ==
    /\ pc[r] = "pushing" /\ Ahead(r) /\ local[r] # fetched[r]
    /\ IF IsPrefix(remote, local[r])
       THEN remote' = local[r] /\ Unblock(r)
       ELSE UNCHANGED <<remote, blocked>>
    /\ Goto(r, "idle")
    /\ UNCHANGED <<local, fetched, dirty, commits>>

PushBlocked_Swapped(r) ==
    /\ pc[r] = "pushing" /\ ~ Ahead(r)
    /\ Block(r, IF Behind(r) THEN "REPLICA_DIVERGED" ELSE "REPLICA_BEHIND")
    /\ Goto(r, "idle")
    /\ UNCHANGED <<remote, local, fetched, dirty, commits>>
PushBlocked(r) ==
    /\ pc[r] = "pushing" /\ ~ Ahead(r)
    /\ Block(r, IF Behind(r) THEN "REPLICA_BEHIND" ELSE "REPLICA_DIVERGED")
    /\ Goto(r, "idle")
    /\ UNCHANGED <<remote, local, fetched, dirty, commits>>

\* A refused change, a failed fetch, a command that does not push, or a kill.
Stop(r) ==
    /\ pc[r] # "idle"
    /\ Goto(r, "idle")
    /\ UNCHANGED <<remote, local, fetched, dirty, blocked, commits>>

\* Someone edits or cleans the state checkout.
Edit(r) ==
    /\ dirty' = [dirty EXCEPT ![r] = ~ @]
    /\ UNCHANGED <<remote, local, fetched, blocked, pc, commits>>

Step(r) ==
    \/ FetchBeforeWrite(r) \/ SyncCurrent(r) \/ SyncDiverged(r) \/ SyncDirty(r)
    \/ FastForward(r) \/ Commit(r) \/ CommitUnsynced(r) \/ FetchBeforePush(r)
    \/ PushNothing(r) \/ Push(r) \/ PushBlocked(r) \/ Stop(r) \/ Edit(r)

Next == \E r \in Replicas : Step(r)

Spec == Init /\ [][Next]_vars

-----------------------------------------------------------------------------
(* Properties.  Operators named X_Y are plausible mistakes in X, against   *)
(* which the properties are tried; no action uses them.                    *)

Apart(r) == ~ IsPrefix(local[r], remote) /\ ~ IsPrefix(remote, local[r])

\* docs/OPERATIONS.md, 114-116: the marker stops retries until an operator has
\* reconciled the refs.  A divergence verdict is never stale, whatever the other
\* replicas push after it was recorded: replica and remote each have a commit
\* the other lacks (push_replica).
VerdictHolds ==
    \A r \in Replicas : blocked[r] = "REPLICA_DIVERGED" => Apart(r)

\* README.md, 44 and 46: a durable local commit is retained if later replication
\* fails, and true divergence remains fail-closed.  Neither the remote nor a
\* replica ever drops a commit, and once a replica recorded a divergence no
\* lifecycle command changes its history again, however often it retries and
\* whatever the others push; only a write that does not synchronise can
\* (sync_replica_before_write, push_replica).
HistoriesKept ==
    [][/\ IsPrefix(remote, remote')
       /\ \A r \in Replicas :
             /\ IsPrefix(local[r], local'[r])
             /\ blocked[r] = "REPLICA_DIVERGED" /\ ~ CommitUnsynced(r)
                   => local'[r] = local[r]]_vars

=============================================================================
