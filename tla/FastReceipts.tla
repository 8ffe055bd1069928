---------------------------- MODULE FastReceipts ----------------------------
(***************************************************************************)
(* The opt-in fast path of the Git authority: clients enqueue typed        *)
(* intents in a private receipt store, through the socket of the resident  *)
(* service or directly, and one worker turns each intent into a marked     *)
(* commit of the state branch and records what it can prove of it.         *)
(*                                                                         *)
(* A task is its revision, status and owner; a commit is the set of its    *)
(* ancestors, the receipt marker of its message and the task it leaves.    *)
(* Strict commands, other clones and the operator move the same branches.  *)
(***************************************************************************)
EXTENDS Naturals, Sequences, FiniteSets, FiniteSetsExt, SequencesExt

CONSTANTS
    Clients, Keys, Workers, Owners,
    Asks,         \* the key and typed intent each client may ask for
    MaxCommits,   \* bound on commits made
    MaxFaults,    \* bound on faults, failed pushes and unknown observations
    None

Ops == {"heartbeat", "claim", "promote", "update"}

RequestType == [op : Ops, owner : Owners \cup {None}, expected : Nat \ {0}]

ASSUME FastAssumption ==
    /\ Asks \subseteq Clients \X Keys \X RequestType
    /\ MaxCommits \in Nat /\ MaxFaults \in Nat
    /\ None \notin Owners

VARIABLES
    intents,      \* rows of the intents table, in insertion order
    clients,      \* what each client is waiting for
    inbox,        \* the socket service's queue of requests, in memory
    worker,       \* the local executor processes
    commits,      \* every commit object of the repository
    local,        \* head of the local state branch
    remote,       \* head of the remote main
    kept,         \* heads of other local refs
    orphan,       \* a git commit that outlived the worker that started it
    faults

clientVars == <<clients, inbox>>
gitVars    == <<commits, local, remote, kept>>
fastVars   == <<intents, clients, inbox, worker, commits, local, remote, kept,
                orphan, faults>>

Phases == {"queued-local", "running", "completed-local", "published-remote",
           "rejected", "ambiguous"}

Task == [rev : Nat, status : {"planned", "open", "in_progress"},
         owner : Owners \cup {None}]

\* Rows, commits and processes have their shapes, heads name commits.
FastTypeOK ==
    /\ intents \in Seq([key : Keys, req : RequestType, phase : Phases,
                        oid : Nat, code : STRING, remoteOid : Nat,
                        failure : STRING])
    /\ \A c \in Clients :
          clients[c].pc \in {"idle", "socket", "direct", "acked", "refused"}
    /\ inbox \in Seq(Clients)
    /\ \A w \in Workers : worker[w].pc \in {"down", "recover", "idle", "apply", "verify"}
    /\ \A n \in DOMAIN commits :
          commits[n].anc \subseteq 1..n /\ commits[n].task \in Task
    /\ {local, remote} \cup kept \subseteq DOMAIN commits

FastInit ==
    /\ intents = <<>>
    /\ clients = [c \in Clients |-> [pc |-> "idle", key |-> None, req |-> None]]
    /\ inbox = <<>>
    /\ worker = [w \in Workers |-> [pc |-> "down", receipt |-> 0, oid |-> 0]]
    /\ \E s \in {"planned", "open"} :
          commits = << [anc |-> {1}, marker |-> 0,
                        task |-> [rev |-> 1, status |-> s, owner |-> None]] >>
    /\ local = 1 /\ remote = 1 /\ kept = {}
    /\ orphan = None
    /\ faults = 0

Fault == faults < MaxFaults /\ faults' = faults + 1

-----------------------------------------------------------------------------
(* Git.                                                                    *)

\* _is_ancestor: merge-base --is-ancestor.
IsAncestor(older, newer) == older \in commits[newer].anc

\* The new commit of a branch whose head is h.
NewCommit(h, marker, task) ==
    [anc |-> commits[h].anc \cup {Len(commits) + 1}, marker |-> marker, task |-> task]

\* sync_replica_before_write: the base a write builds on; a diverged local
\* branch refuses the write.
Synced == IsAncestor(remote, local) \/ IsAncestor(local, remote)
Base   == IF IsAncestor(local, remote) THEN remote ELSE local

\* Commits that git log --all reaches.
Reachable == UNION {commits[h].anc : h \in {local, remote} \cup kept}

-----------------------------------------------------------------------------
(* The four receipt operations: what core.mutate admits and writes, and    *)
(* what the delta verification demands of the commit.                      *)

Admitted(req, task) ==
    /\ req.expected = task.rev
    /\ CASE req.op = "promote" -> task.status = "planned"
         [] req.op = "claim"   -> task.status = "open"
         [] OTHER              -> task.status = "in_progress" /\ task.owner = req.owner

Applied(req, task) ==
    [rev    |-> task.rev + 1,
     status |-> CASE req.op = "promote" -> "open"
                  [] req.op = "claim"   -> "in_progress"
                  [] OTHER              -> task.status,
     owner  |-> IF req.op = "claim" THEN req.owner ELSE task.owner]

Parent(n) == Max(commits[n].anc \ {n})

\* _verify_operation_delta: the target task moved by exactly this intent.
DeltaMatches(req, n) ==
    /\ n > 1
    /\ Admitted(req, commits[Parent(n)].task)
    /\ commits[n].task = Applied(req, commits[Parent(n)].task)

\* verify_local_commit.
Verified(i, n) ==
    /\ IsAncestor(n, local)
    /\ commits[n].marker = i
    /\ DeltaMatches(intents[i].req, n)

\* find_receipt_commit.
Marked(i) == {n \in Reachable : commits[n].marker = i}

-----------------------------------------------------------------------------
(* The receipt store.                                                      *)

RowsOf(k) == {i \in DOMAIN intents : intents[i].key = k}

\* _enqueue: one row for each idempotency key; a key that binds other input
\* is refused.
Insert_Blind(k, r) ==
    intents' = Append(intents, [key |-> k, req |-> r, phase |-> "queued-local",
                                oid |-> 0, code |-> "", remoteOid |-> 0, failure |-> ""])
Insert(k, r) ==
    intents' = IF RowsOf(k) # {} THEN intents
               ELSE Append(intents, [key |-> k, req |-> r, phase |-> "queued-local",
                                     oid |-> 0, code |-> "", remoteOid |-> 0,
                                     failure |-> ""])

Conflicting(k, r) == \E i \in RowsOf(k) : intents[i].req # r

Answer(c) == IF Conflicting(clients[c].key, clients[c].req) THEN "refused" ELSE "acked"

\* _finish_running.
Finish(i, phase, oid, code) ==
    /\ intents[i].phase = "running"
    /\ intents' = [intents EXCEPT ![i].phase = phase, ![i].oid = oid, ![i].code = code]

RecordLocalCommit(i, n) == Finish(i, "completed-local", n, "")
RecordRejection(i)      == Finish(i, "rejected", 0, "ADMISSION_REJECTED")
RecordAmbiguity(i, code) == Finish(i, "ambiguous", 0, code)

\* How a worker settles an intent from the commits that carry its marker.
\* One commit is local completion if it verifies, several are no evidence.
SettleFromMarker(i, otherwise) ==
    \/ /\ Marked(i) = {} /\ otherwise
    \/ \E n \in Marked(i) :
          /\ Marked(i) = {n} /\ Verified(i, n)
          /\ RecordLocalCommit(i, n)
    \/ /\ Marked(i) # {}
       /\ ~ \E n \in Marked(i) : Marked(i) = {n} /\ Verified(i, n)
       /\ RecordAmbiguity(i, "COMMIT_EVIDENCE_UNKNOWN")

-----------------------------------------------------------------------------
(* Clients: the socket first, the direct path with the same key when the   *)
(* service is absent, closes or does not answer in time.                   *)

Serving == \E w \in Workers : worker[w].pc \notin {"down", "recover"}

\* try_socket_fast with a service, or its fallback without one.
Submit(c, k, r) ==
    /\ clients[c].pc = "idle"
    /\ clients' = [clients EXCEPT ![c] = [pc |-> IF Serving THEN "socket" ELSE "direct",
                                          key |-> k, req |-> r]]
    /\ inbox' = IF Serving THEN Append(inbox, c) ELSE inbox
    /\ UNCHANGED <<intents, worker, gitVars, orphan, faults>>

\* write_requests: the service's writer thread takes the next request.  The
\* answer of a client that stopped waiting goes nowhere.
WriterStep ==
    /\ inbox # <<>> /\ Serving
    /\ inbox' = Tail(inbox)
    /\ LET c == Head(inbox) IN
       /\ Insert(clients[c].key, clients[c].req)
       /\ clients' = IF clients[c].pc = "socket"
                     THEN [clients EXCEPT ![c].pc = Answer(c)] ELSE clients
    /\ UNCHANGED <<worker, gitVars, orphan, faults>>

\* The client's receive timeout expires while its request is in the service.
ClientTimeout(c) ==
    /\ clients[c].pc = "socket"
    /\ clients' = [clients EXCEPT ![c].pc = "direct"]
    /\ UNCHANGED <<intents, inbox, worker, gitVars, orphan, faults>>

\* dispatch_fast.
DirectStep(c) ==
    /\ clients[c].pc = "direct"
    /\ Insert(clients[c].key, clients[c].req)
    /\ clients' = [clients EXCEPT ![c].pc = Answer(c)]
    /\ UNCHANGED <<inbox, worker, gitVars, orphan, faults>>

-----------------------------------------------------------------------------
(* The worker.                                                             *)

At(w, step) == worker[w].pc = step
Goto(w, step, receipt, oid) ==
    worker' = [worker EXCEPT ![w] = [pc |-> step, receipt |-> receipt, oid |-> oid]]

Running == {i \in DOMAIN intents : intents[i].phase = "running"}
Queued  == {i \in DOMAIN intents : intents[i].phase = "queued-local"}

\* serve_local or process_pending takes the service lock.
Start(w) ==
    /\ \A v \in Workers : At(v, "down")
    /\ Goto(w, "recover", 0, 0)
    /\ UNCHANGED <<intents, clientVars, gitVars, orphan, faults>>

\* recover_running, one interrupted reservation at a time.
RecoverOne_Rejects(w) ==
    /\ At(w, "recover") /\ Running # {}
    /\ LET i == Min(Running) IN SettleFromMarker(i, RecordRejection(i))
    /\ UNCHANGED <<clientVars, worker, gitVars, orphan, faults>>
RecoverOne(w) ==
    /\ At(w, "recover") /\ Running # {}
    /\ LET i == Min(Running) IN
          SettleFromMarker(i, RecordAmbiguity(i, "INTERRUPTED_BEFORE_COMMIT"))
    /\ UNCHANGED <<clientVars, worker, gitVars, orphan, faults>>

RecoverDone_Skips(w) ==
    /\ At(w, "recover")
    /\ Goto(w, "idle", 0, 0)
    /\ UNCHANGED <<intents, clientVars, gitVars, orphan, faults>>
RecoverDone(w) ==
    /\ At(w, "recover") /\ Running = {}
    /\ Goto(w, "idle", 0, 0)
    /\ UNCHANGED <<intents, clientVars, gitVars, orphan, faults>>

\* claim_next: the oldest queued intent.
ClaimNext(w) ==
    /\ At(w, "idle") /\ Queued # {}
    /\ LET i == Min(Queued) IN
       /\ intents' = [intents EXCEPT ![i].phase = "running"]
       /\ Goto(w, "apply", i, 0)
    /\ UNCHANGED <<clientVars, gitVars, orphan, faults>>

CommitMarked(i) ==
    /\ Len(commits) < MaxCommits
    /\ Synced /\ Admitted(intents[i].req, commits[Base].task)
    /\ commits' = Append(commits, NewCommit(Base, i,
                            Applied(intents[i].req, commits[Base].task)))
    /\ local' = Len(commits) + 1
    /\ UNCHANGED <<remote, kept>>

\* core.mutate commits the transition with the receipt's marker.
ApplyCommit(w) ==
    /\ At(w, "apply")
    /\ CommitMarked(worker[w].receipt)
    /\ Goto(w, "verify", worker[w].receipt, Len(commits) + 1)
    /\ UNCHANGED <<intents, clientVars, orphan, faults>>

\* core.mutate refuses: stale revision, wrong status or owner.
ApplyRefused(w) ==
    /\ At(w, "apply")
    /\ LET i == worker[w].receipt IN
       /\ Synced /\ ~ Admitted(intents[i].req, commits[Base].task)
       /\ SettleFromMarker(i, RecordRejection(i))
    /\ Goto(w, "idle", 0, 0)
    /\ UNCHANGED <<clientVars, gitVars, orphan, faults>>

\* core.mutate fails otherwise before its commit: a diverged branch, a
\* validation error or a timeout.
ApplyFailed(w) ==
    /\ At(w, "apply")
    /\ LET i == worker[w].receipt IN
          SettleFromMarker(i, RecordAmbiguity(i, "MUTATION_OUTCOME_UNKNOWN"))
    /\ Goto(w, "idle", 0, 0)
    /\ UNCHANGED <<clientVars, gitVars, orphan, faults>>

\* verify_local_commit and record_local_commit; when the commit does not
\* verify any more the marker decides.
Verify(w) ==
    /\ At(w, "verify")
    /\ LET i == worker[w].receipt IN
       \/ /\ Verified(i, worker[w].oid)
          /\ RecordLocalCommit(i, worker[w].oid)
       \/ /\ ~ Verified(i, worker[w].oid)
          /\ SettleFromMarker(i, RecordAmbiguity(i, "MUTATION_OUTCOME_UNKNOWN"))
    /\ Goto(w, "idle", 0, 0)
    /\ UNCHANGED <<clientVars, gitVars, orphan, faults>>

\* The service is killed: the lock is freed, the requests in memory are lost
\* and their clients fall back to the direct path.  A git commit it started
\* may live on.
Crash(w) ==
    /\ ~ At(w, "down")
    /\ Fault
    /\ Goto(w, "down", 0, 0)
    /\ inbox' = <<>>
    /\ clients' = [c \in Clients |-> IF clients[c].pc = "socket"
                                     THEN [clients[c] EXCEPT !.pc = "direct"]
                                     ELSE clients[c]]
    /\ orphan' \in {orphan} \cup
          {[receipt |-> worker[w].receipt, base |-> local] : x \in {v \in {w} : At(v, "apply")}}
    /\ UNCHANGED <<intents, gitVars>>

\* The surviving git commit lands, unless the branch moved under it.
OrphanLands ==
    /\ orphan # None /\ orphan.base = local
    /\ CommitMarked(orphan.receipt)
    /\ orphan' = None
    /\ UNCHANGED <<intents, clientVars, worker, faults>>

-----------------------------------------------------------------------------
(* The rest of the world.                                                  *)

Touched(task) == [task EXCEPT !.rev = @ + 1]

\* A strict command commits on the state branch and pushes it.
StrictCommand ==
    /\ Len(commits) < MaxCommits /\ Synced
    /\ commits' = Append(commits, NewCommit(Base, 0, Touched(commits[Base].task)))
    /\ local' = Len(commits) + 1 /\ remote' = Len(commits) + 1
    /\ UNCHANGED <<intents, clientVars, worker, kept, orphan, faults>>

\* Another clone publishes to the remote.
OtherClone ==
    /\ Len(commits) < MaxCommits
    /\ commits' = Append(commits, NewCommit(remote, 0, Touched(commits[remote].task)))
    /\ remote' = Len(commits) + 1
    /\ UNCHANGED <<intents, clientVars, worker, local, kept, orphan, faults>>

\* The operator resets a diverged state branch to the remote, and may keep
\* the abandoned commits on another branch.
OperatorReset ==
    /\ ~ Synced
    /\ local' = remote
    /\ kept' \in {kept, kept \cup {local}}
    /\ UNCHANGED <<intents, clientVars, worker, commits, remote, orphan, faults>>

WorkerStep(w) ==
    \/ Start(w) \/ RecoverOne(w) \/ RecoverDone(w) \/ ClaimNext(w)
    \/ ApplyCommit(w) \/ ApplyRefused(w) \/ ApplyFailed(w) \/ Verify(w)

FastNext ==
    \/ \E ask \in Asks : Submit(ask[1], ask[2], ask[3])
    \/ WriterStep
    \/ \E c \in Clients : ClientTimeout(c) \/ DirectStep(c)
    \/ \E w \in Workers : WorkerStep(w) \/ Crash(w)
    \/ OrphanLands \/ StrictCommand \/ OtherClone \/ OperatorReset

-----------------------------------------------------------------------------
(* Properties.                                                             *)

\* Whatever faults, recoveries and retries happen, one intent is applied at
\* most once: no two commits carry its marker, and one client key never
\* becomes two intents.
AppliedAtMostOnce ==
    /\ \A n, m \in DOMAIN commits :
          commits[n].marker = commits[m].marker => n = m \/ commits[n].marker = 0
    /\ \A i, j \in DOMAIN intents : intents[i].key = intents[j].key => i = j

\* A local receipt names a commit that really carries it and moved the task
\* by its intent; a rejection means the intent has no effect anywhere.
ReceiptsTruthful ==
    \A i \in DOMAIN intents :
       /\ intents[i].phase \in {"completed-local", "published-remote"} =>
             /\ commits[intents[i].oid].marker = i
             /\ DeltaMatches(intents[i].req, intents[i].oid)
       /\ intents[i].phase = "rejected" =>
             \A n \in DOMAIN commits : commits[n].marker # i

\* A client that got an answer finds its own intent under its key, whatever
\* path carried the request and whoever else used the key.
AnswersDurable ==
    \A c \in Clients : clients[c].pc = "acked" =>
       \E i \in RowsOf(clients[c].key) : intents[i].req = clients[c].req

\* Receipts and answers say what the history says, through every recovery,
\* retry and reuse of a key (recover_running, enqueue).
ReceiptsSound == ReceiptsTruthful /\ AnswersDurable
=============================================================================
