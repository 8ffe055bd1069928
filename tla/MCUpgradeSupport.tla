-------------------------- MODULE MCUpgradeSupport --------------------------
(* Small instances of the three protocols an upgrade's phases rest on: the *)
(* lock domain, the one-use authority commit, and the selection of a       *)
(* runtime.  They share no state; `running` says which of them an          *)
(* execution runs.                                                         *)
EXTENDS LockDomain, TLC

CONSTANTS MaxAdmission, MaxNode, MaxCommits,
          Releases, First, Stagers, MaxNodes, MaxLosses, None

VARIABLES running,
          backend, admission, at, history, files, intent, cap, landed,
          selector, durable, content, temporaries, publisher, last, reverted,
          dirs, touched, stage, dispatch, nodes, losses

\* Numbering starts at zero, the release selected at the start is a release, and
\* an absent directory is not a directory.
ASSUME SupportAssumption ==
    /\ MaxNode \in Nat /\ MaxCommits \in Nat /\ MaxNodes \in Nat
    /\ First \in Releases
    /\ None \notin Nat \union [node : Nat, tree : {"whole", "altered", "foreign"}]

Commit == INSTANCE AuthorityCommit WITH node <- at
Runtime == INSTANCE RuntimeSelection

commitVars == <<backend, admission, at, history, files, intent, cap, landed>>
runtimeVars == <<selector, durable, content, temporaries, publisher, last, reverted,
                 dirs, touched, stage, dispatch, nodes, losses>>
MCvars == <<vars, commitVars, runtimeVars, running>>

MCInit ==
    /\ running \in {"locks", "commit", "runtime"}
    /\ Init /\ Commit!Init /\ Runtime!Init
    /\ running # "locks" => session.status = "released"
    /\ running # "commit" => backend = "git"

LockSteps == running = "locks" /\ Next /\ UNCHANGED <<commitVars, runtimeVars, running>>
CommitSteps == running = "commit" /\ Commit!Next /\ UNCHANGED <<vars, runtimeVars, running>>
RuntimeSteps == running = "runtime" /\ Runtime!Next /\ UNCHANGED <<vars, commitVars, running>>

MCSpec == MCInit /\ [][LockSteps \/ CommitSteps \/ RuntimeSteps]_MCvars

\* Processes are interchangeable, and so are stagers.
Interchangeable == Permutations(Procs) \cup Permutations(Stagers)

\* An authority commit is accounted for: its receipt proves it, it lands at most
\* once, and not at all when journaled as rejected (authority_mutation.execute).
CommitAccounted == Commit!CommitAccounted

\* What is reported of a publication is what a launch will find, for ever or until a
\* power failure undoes a rename; a launched command's release is the one selector file's
\* and its entrypoint comes from a directory whose manifest was verified
\* (commit_runtime_selector, reconcile_runtime_selector, resolve_selected_runtime_bound).
RuntimeSound == Runtime!RuntimeSound

=============================================================================
