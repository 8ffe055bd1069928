------------------------- MODULE MCStateRepository -------------------------
(* Small instances of four protocols around the state repository: the      *)
(* tickets that order reconciliation scans, the replication of what is     *)
(* committed, the creation and publication of issue series, and the        *)
(* rollback of a checkpoint.  They share no state; `running` says which of *)
(* them an execution runs.                                                 *)
EXTENDS ObservationTickets, TLC

CONSTANTS Replicas, MaxCommits, Procs, MaxBoard, MaxPosts,
          Operators, MaxHistory, MaxOps, MaxRevision, None, a, b, c, d, e

VARIABLES running,
          remote, local, fetched, dirty, blocked, at, commits,
          backend, board, manifest, tasks, receipt, comments, flying, posts,
          proc, torn, late, mocked,
          product, unclean, journal, planned, undone, restored, forgotten, command

\* An absent marker is not a code, an absent revert not a commit and an absent receipt
\* not an outcome.
ASSUME AbsenceAssumption ==
    /\ None # "REPLICA_DIVERGED" /\ None \notin Nat
    /\ None \notin [status : {"dry_run", "deferred", "ambiguous", "published",
                              "already_published"}, comment : Nat]

Sync == INSTANCE ReplicaSync WITH pc <- at
Series == INSTANCE IssueSeries
Rollback == INSTANCE RollbackJournal WITH Procs <- Operators

syncVars == <<remote, local, fetched, dirty, blocked, at, commits>>
seriesVars == <<backend, board, manifest, tasks, receipt, comments, flying, posts,
                proc, torn, late, mocked>>
rollbackVars == <<product, unclean, journal, planned, undone, restored, forgotten, command>>
MCvars == <<vars, syncVars, seriesVars, rollbackVars, running>>

MCInit ==
    /\ running \in {"tickets", "replicas", "series", "rollback"}
    /\ Init /\ Sync!Init /\ Series!Init /\ Rollback!Init
    /\ running # "series" => backend = "git"

TicketSteps ==
    /\ running = "tickets" /\ Next
    /\ UNCHANGED <<syncVars, seriesVars, rollbackVars, running>>
SyncSteps ==
    /\ running = "replicas" /\ Sync!Next
    /\ UNCHANGED <<vars, seriesVars, rollbackVars, running>>
SeriesSteps ==
    /\ running = "series" /\ Series!Next
    /\ UNCHANGED <<vars, syncVars, rollbackVars, running>>
RollbackSteps ==
    /\ running = "rollback" /\ Rollback!Next
    /\ UNCHANGED <<vars, syncVars, seriesVars, running>>

MCSpec == MCInit /\ [][TicketSteps \/ SyncSteps \/ SeriesSteps \/ RollbackSteps]_MCvars

\* Processes and replicas are interchangeable.
Interchangeable == Permutations({a, b, c}) \union Permutations({d, e})

\* A recorded divergence is real and stays real (push_replica).
VerdictHolds == Sync!VerdictHolds

\* No replica and no remote drops a commit, and a recorded divergence stops
\* lifecycle commands (sync_replica_before_write).
HistoriesKept == Sync!HistoriesKept

\* A series is created whole and leaves one comment, the one its receipt names, or none
\* when a mock published it (cmd_issue_series_create, cmd_issue_series_publish).
SeriesSound == Series!SeriesSound

\* A rollback recorded as completed has taken its work out of the product and
\* restored the task, and undoes only work that was in the product when it was
\* planned, unless a record left its revert out (cmd_rollback, _start_rollback).
RollbackSound == Rollback!RollbackSound

=============================================================================
