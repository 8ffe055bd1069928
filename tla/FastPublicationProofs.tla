----------------------- MODULE FastPublicationProofs -----------------------
(***************************************************************************)
(* Proofs about the fast receipts and their publication, for any clients,  *)
(* keys, workers, requests and bounds: one intent is applied at most once, *)
(* receipts and answers say what the history says, and published is said   *)
(* only of what the remote contains.                                       *)
(*                                                                         *)
(* The three rest on one inductive invariant.  Its heart is WorkerInv: the *)
(* only receipts that can still get a commit are the one a live worker is  *)
(* applying and the one a dead worker's git process carries, they differ,  *)
(* neither has a commit yet, and neither is queued, rejected or completed. *)
(***************************************************************************)
EXTENDS FastPublication, WellFoundedInduction, TLAPS

\* Every outcome and failure code of rows and jobs; "" is none.
Codes == {"", "ADMISSION_REJECTED", "COMMIT_EVIDENCE_UNKNOWN", "INTERRUPTED_BEFORE_COMMIT",
          "MUTATION_OUTCOME_UNKNOWN", "REMOTE_UNKNOWN", "PUBLICATION_TIMEOUT",
          "LOCAL_BRANCH_MOVED", "REMOTE_NOT_CONTAINING_COMMIT", "REMOTE_BASE_CHANGED",
          "LOCAL_HEAD_SUPERSEDED", "REMOTE_ADVANCED", "REMOTE_CHANGED", "PUSH_UNKNOWN"}
Row == [key : Keys, req : RequestType, phase : Phases, oid : Nat, code : Codes,
        remoteOid : Nat, failure : Codes]
Commit == [anc : SUBSET Nat, marker : Nat, task : Task]
Process == [pc : {"down", "recover", "idle", "apply", "verify"}, receipt : Nat, oid : Nat]
Client == [pc : {"idle", "socket", "direct", "acked", "refused"},
           key : Keys \cup {None}, req : RequestType \cup {None}]
Job == [candidate : Nat, expected : Nat,
        phase : {"queued", "publishing", "published", "rejected", "ambiguous"},
        live : BOOLEAN, code : Codes]
Publisher == [pc : {"idle", "observe", "recover", "admit", "claim", "push",
                    "confirm", "timedout", "finish"},
              pending : SUBSET Nat, head : Nat, seen : Nat, job : Nat]

-----------------------------------------------------------------------------
(* The inductive invariant, by the state it is about.                      *)

\* A commit adds itself to the ancestors of an older one.
ChildOf(n, p) == commits[n].anc = commits[p].anc \cup {n}

\* The history is a graph of ancestors in which the heads are nodes.
HistoryInv ==
    /\ commits \in Seq(Commit)
    /\ \A n \in DOMAIN commits :
          /\ n \in commits[n].anc
          /\ commits[n].anc \subseteq 1..n
          /\ \A m \in commits[n].anc : commits[m].anc \subseteq commits[n].anc
          /\ n > 1 => \E p \in 1..(n - 1) : ChildOf(n, p)
    /\ local \in DOMAIN commits /\ remote \in DOMAIN commits
    /\ kept \subseteq DOMAIN commits

Unmarked(i) == \A n \in DOMAIN commits : commits[n].marker # i

\* Rows and commits agree.
RowInv ==
    /\ intents \in Seq(Row)
    /\ \A i, j \in DOMAIN intents : intents[i].key = intents[j].key => i = j
    /\ \A n \in DOMAIN commits : commits[n].marker \in 0..Len(intents)
    /\ \A n, m \in DOMAIN commits :
          commits[n].marker = commits[m].marker => n = m \/ commits[n].marker = 0
    /\ \A i \in DOMAIN intents :
          /\ intents[i].phase \in {"completed-local", "published-remote"} =>
                /\ intents[i].oid \in DOMAIN commits
                /\ commits[intents[i].oid].marker = i
                /\ DeltaMatches(intents[i].req, intents[i].oid)
          /\ intents[i].phase \in {"queued-local", "rejected"} => Unmarked(i)

\* What clients ask for and were told.
ClientInv ==
    /\ clients \in [Clients -> Client]
    /\ inbox \in Seq(Clients)
    /\ \A c \in Clients : clients[c].pc # "idle" =>
          clients[c].key \in Keys /\ clients[c].req \in RequestType
    /\ \A x \in DOMAIN inbox : clients[inbox[x]].pc # "idle"
    /\ AnswersDurable

\* Who may still commit: at most one worker lives, and what it applies is not
\* what a dead one left behind.
WorkerInv ==
    /\ worker \in [Workers -> Process]
    /\ \A v, w \in Workers : worker[v].pc # "down" /\ worker[w].pc # "down" => v = w
    /\ \A w \in Workers : worker[w].pc \in {"apply", "verify"} =>
          /\ worker[w].receipt \in DOMAIN intents
          /\ intents[worker[w].receipt].phase = "running"
          /\ orphan # None => orphan.receipt # worker[w].receipt
    /\ \A w \in Workers : worker[w].pc = "apply" => Unmarked(worker[w].receipt)
    /\ orphan # None =>
          /\ orphan \in [receipt : Nat, base : Nat]
          /\ orphan.receipt \in DOMAIN intents
          /\ intents[orphan.receipt].phase \in {"running", "ambiguous"}
          /\ Unmarked(orphan.receipt)

\* What the publisher captured and observed is still so.
PublisherInv ==
    /\ jobs \in Seq(Job)
    /\ \A j \in DOMAIN jobs : {jobs[j].candidate, jobs[j].expected} \subseteq DOMAIN commits
    /\ publisher \in Publisher
    /\ \A i \in publisher.pending :
          i \in DOMAIN intents /\ intents[i].phase = "completed-local"
    /\ publisher.pc # "idle" => publisher.head \in DOMAIN commits
    /\ publisher.pc \notin {"idle", "observe"} => IsAncestor(publisher.seen, remote)
    /\ publisher.pc \in {"claim", "push"} => IsAncestor(publisher.seen, publisher.head)
    /\ publisher.pc \in {"claim", "push", "confirm", "timedout"} =>
          publisher.job \in DOMAIN jobs /\ jobs[publisher.job].candidate = publisher.head
    /\ inflight # None =>
          /\ inflight \in [candidate : DOMAIN commits, expected : DOMAIN commits]
          /\ IsAncestor(inflight.expected, inflight.candidate)
    /\ PublishedIsOnRemote

FastInv == HistoryInv /\ RowInv /\ ClientInv /\ WorkerInv /\ PublisherInv

-----------------------------------------------------------------------------
(* How a step may change the history and the rows.                         *)

\* Commits are never rewritten.
Grown ==
    \A n \in DOMAIN commits : n \in DOMAIN commits' /\ commits'[n] = commits[n]

\* The remote only moves to a descendant.
Advanced == remote \in commits'[remote'].anc

\* Local and remote completions are not rewritten, and no row becomes
\* published: what every step but the publisher's keeps.
RowsKeep ==
    /\ \A i \in DOMAIN intents :
          /\ i \in DOMAIN intents'
          /\ intents[i].phase \in {"completed-local", "published-remote"} =>
                intents'[i].phase = intents[i].phase /\ intents'[i].oid = intents[i].oid
    /\ \A i \in DOMAIN intents' : intents'[i].phase = "published-remote" =>
          i \in DOMAIN intents /\ intents[i].phase = "published-remote"

\* One row changes; its key and its request stay.
RowBecomes(i, r) ==
    /\ r.key = intents[i].key /\ r.req = intents[i].req
    /\ intents' = [intents EXCEPT ![i] = r]

\* What a row may say of the history.
Truthful(i, r) ==
    /\ r.phase \in {"completed-local", "published-remote"} =>
          /\ r.oid \in DOMAIN commits
          /\ commits[r.oid].marker = i
          /\ DeltaMatches(r.req, r.oid)
    /\ r.phase \in {"queued-local", "rejected"} => Unmarked(i)

\* An applied request leaves a task: core.mutate.
LEMMA AppliedIsTask ==
  ASSUME NEW req \in RequestType, NEW task \in Task
  PROVE  Applied(req, task) \in Task
  <1> DEFINE st == CASE req.op = "promote" -> "open"
                     [] req.op = "claim"   -> "in_progress"
                     [] OTHER              -> task.status
             ow == IF req.op = "claim" THEN req.owner ELSE task.owner
  <1>1. task.status \in {"planned", "open", "in_progress"} /\ task.rev + 1 \in Nat
    BY DEF Task
  <1>2. st \in {"planned", "open", "in_progress"}
    <2>1. CASE req.op = "promote"
      BY <2>1, Zenon
    <2>2. CASE req.op = "claim"
      BY <2>2, Zenon
    <2>3. CASE req.op # "promote" /\ req.op # "claim"
      BY <2>3, <1>1, Zenon
    <2> QED
      BY <2>1, <2>2, <2>3
  <1>3. ow \in Owners \cup {None}
    BY DEF Task, RequestType
  <1>4. Applied(req, task) = [rev |-> task.rev + 1, status |-> st, owner |-> ow]
    BY Zenon DEF Applied
  <1> HIDE DEF st, ow
  <1> QED
    BY <1>1, <1>2, <1>3, <1>4 DEF Task

\* A commit other than the first has an older parent.
LEMMA ParentIsOlder ==
  ASSUME HistoryInv, NEW n \in DOMAIN commits, n > 1
  PROVE  Parent(n) \in DOMAIN commits
  <1>1. PICK p \in 1..(n - 1) : ChildOf(n, p)
    BY DEF HistoryInv
  <1>2. n \in Nat /\ p \in DOMAIN commits /\ p < n
    BY DEF HistoryInv
  <1>3. /\ p \in commits[p].anc
        /\ \A x \in commits[p].anc : x \in Nat /\ x <= p
    BY <1>2 DEF HistoryInv
  <1>4. commits[n].anc \ {n} = commits[p].anc
    BY <1>1, <1>2, <1>3 DEF ChildOf
  <1>5. Max(commits[n].anc \ {n}) \in commits[n].anc \ {n}
    BY <1>3, <1>4 DEF Max
  <1> QED
    BY <1>2, <1>3, <1>4, <1>5 DEF Parent, HistoryInv

\* What a commit did to its parent's task does not change any more.
LEMMA DeltaKept ==
  ASSUME HistoryInv, Grown, NEW n \in DOMAIN commits, NEW req, DeltaMatches(req, n)
  PROVE  DeltaMatches(req, n)'
  <1>1. n > 1 /\ Parent(n) \in DOMAIN commits
    BY ParentIsOlder DEF DeltaMatches
  <1>2. commits'[n] = commits[n] /\ commits'[Parent(n)] = commits[Parent(n)]
    BY <1>1 DEF Grown
  <1>3. Parent(n)' = Parent(n)
    BY <1>2 DEF Parent
  <1> QED
    BY <1>1, <1>2, <1>3, Zenon DEF DeltaMatches

\* A commit on top of h: the graph stays one, and nothing else changes.
LEMMA CommitOnTop ==
  ASSUME HistoryInv, NEW h \in DOMAIN commits, NEW i \in Nat, NEW t \in Task,
         commits' = Append(commits, NewCommit(h, i, t)),
         local' \in DOMAIN commits \cup {Len(commits) + 1},
         remote' \in DOMAIN commits \cup {Len(commits) + 1},
         kept' = kept
  PROVE  /\ HistoryInv' /\ Grown
         /\ DOMAIN commits' = DOMAIN commits \cup {Len(commits) + 1}
         /\ commits'[Len(commits) + 1] = NewCommit(h, i, t)
         /\ commits'[Len(commits) + 1].anc = commits[h].anc \cup {Len(commits) + 1}
         /\ commits'[Len(commits) + 1].marker = i
  <1> DEFINE N == Len(commits) + 1
             new == NewCommit(h, i, t)
  <1>1. /\ commits \in Seq(Commit) /\ DOMAIN commits = 1..Len(commits)
        /\ Len(commits) \in Nat /\ N \in Nat /\ h \in Nat /\ h < N
    BY DEF HistoryInv
  <1>2. h \in commits[h].anc /\ commits[h].anc \subseteq 1..h
    BY DEF HistoryInv
  <1>3. /\ new.anc = commits[h].anc \cup {N} /\ new.marker = i /\ new.task = t
        /\ new.anc \subseteq 1..N
    BY <1>1, <1>2 DEF NewCommit
  <1>4. new \in Commit
    BY <1>1, <1>3 DEF NewCommit, Commit
  <1> HIDE DEF new
  <1>5. commits' = Append(commits, new)
    BY DEF new
  <1>6. /\ commits' \in Seq(Commit) /\ DOMAIN commits' = 1..N
        /\ commits'[N] = new
        /\ \A n \in DOMAIN commits : commits'[n] = commits[n]
    BY <1>1, <1>4, <1>5
  <1>7. Grown
    BY <1>1, <1>6 DEF Grown
  <1>8. ASSUME NEW n \in DOMAIN commits'
        PROVE  /\ n \in commits'[n].anc
               /\ commits'[n].anc \subseteq 1..n
               /\ \A m \in commits'[n].anc : commits'[m].anc \subseteq commits'[n].anc
               /\ n > 1 => \E p \in 1..(n - 1) : ChildOf(n, p)'
    <2>1. CASE n = N
      <3>1. \A m \in commits[h].anc : m \in DOMAIN commits /\ commits[m].anc \subseteq commits[h].anc
        BY <1>1, <1>2 DEF HistoryInv
      <3>2. \A m \in commits'[N].anc : commits'[m].anc \subseteq commits'[N].anc
        BY <1>3, <1>6, <3>1
      <3>3. ChildOf(n, h)' /\ h \in 1..(n - 1)
        BY <2>1, <1>1, <1>3, <1>6 DEF ChildOf
      <3> QED
        BY <2>1, <1>3, <1>6, <3>2, <3>3
    <2>2. CASE n \in DOMAIN commits
      <3>1. /\ n \in commits[n].anc /\ commits[n].anc \subseteq 1..n
            /\ \A m \in commits[n].anc : commits[m].anc \subseteq commits[n].anc
        BY <2>2 DEF HistoryInv
      <3>2. \A m \in commits[n].anc : m \in DOMAIN commits
        BY <1>1, <2>2, <3>1
      <3>3. n > 1 => \E p \in 1..(n - 1) : p \in DOMAIN commits /\ ChildOf(n, p)
        BY <1>1, <2>2 DEF HistoryInv
      <3>4. n > 1 => \E p \in 1..(n - 1) : ChildOf(n, p)'
        BY <1>6, <2>2, <3>3 DEF ChildOf
      <3> QED
        BY <1>6, <2>2, <3>1, <3>2, <3>4
    <2> QED
      BY <1>1, <1>6, <2>1, <2>2
  <1>9. HistoryInv'
    <2>1. local' \in DOMAIN commits' /\ remote' \in DOMAIN commits' /\ kept' \subseteq DOMAIN commits'
      BY <1>1, <1>6 DEF HistoryInv
    <2> QED
      BY <1>6, <1>8, <2>1 DEF HistoryInv
  <1> QED
    BY <1>1, <1>3, <1>6, <1>7, <1>9 DEF new

\* Rows stay truthful when the history grows by at most one commit, whose
\* marker nobody has yet and whose row is running or ambiguous.
LEMMA MarkedCommit ==
  ASSUME HistoryInv, RowInv, Grown, NEW k \in 0..Len(intents), intents' = intents,
         \A n \in DOMAIN commits' : n \in DOMAIN commits \/ commits'[n].marker = k,
         \A n, m \in DOMAIN commits' : n \in DOMAIN commits \/ m \in DOMAIN commits \/ n = m,
         k = 0 \/ (Unmarked(k) /\ intents[k].phase \in {"running", "ambiguous"})
  PROVE  /\ RowInv' /\ RowsKeep
         /\ \A i \in DOMAIN intents : i # k /\ Unmarked(i) => Unmarked(i)'
  <1>1. intents \in Seq(Row) /\ DOMAIN intents = 1..Len(intents) /\ Len(intents) \in Nat
    BY DEF RowInv
  <1>2. \A n \in DOMAIN commits : n \in DOMAIN commits' /\ commits'[n] = commits[n]
    BY DEF Grown
  <1>3. \A n \in DOMAIN commits' : commits'[n].marker \in 0..Len(intents)
    BY <1>2 DEF RowInv
  <1>4. ASSUME NEW i \in DOMAIN intents, i # k, Unmarked(i)
        PROVE  Unmarked(i)'
    BY <1>1, <1>2, <1>4 DEF Unmarked
  <1>5. ASSUME NEW n \in DOMAIN commits', NEW m \in DOMAIN commits',
               commits'[n].marker = commits'[m].marker
        PROVE  n = m \/ commits'[n].marker = 0
    <2>1. CASE n \in DOMAIN commits /\ m \in DOMAIN commits
      BY <1>2, <1>5, <2>1 DEF RowInv
    <2>2. CASE n \notin DOMAIN commits /\ m \notin DOMAIN commits
      BY <2>2
    <2>3. CASE n \in DOMAIN commits /\ m \notin DOMAIN commits
      BY <1>2, <1>5, <2>3 DEF Unmarked
    <2>4. CASE n \notin DOMAIN commits /\ m \in DOMAIN commits
      BY <1>2, <1>5, <2>4 DEF Unmarked
    <2> QED
      BY <2>1, <2>2, <2>3, <2>4
  <1>6. ASSUME NEW i \in DOMAIN intents,
               intents[i].phase \in {"completed-local", "published-remote"}
        PROVE  /\ intents[i].oid \in DOMAIN commits'
               /\ commits'[intents[i].oid].marker = i
               /\ DeltaMatches(intents[i].req, intents[i].oid)'
    <2>1. /\ intents[i].oid \in DOMAIN commits
          /\ commits[intents[i].oid].marker = i
          /\ DeltaMatches(intents[i].req, intents[i].oid)
      BY <1>6 DEF RowInv
    <2>2. PICK o, q : o \in DOMAIN commits /\ o = intents[i].oid /\ q = intents[i].req
      BY <2>1
    <2>3. DeltaMatches(q, o)'
      BY <2>1, <2>2, DeltaKept
    <2> QED
      BY <1>2, <2>1, <2>2, <2>3
  <1>7. ASSUME NEW i \in DOMAIN intents, intents[i].phase \in {"queued-local", "rejected"}
        PROVE  Unmarked(i)'
    <2>1. Unmarked(i)
      BY <1>7 DEF RowInv
    <2>2. i # k
      BY <1>7, <1>1
    <2> QED
      BY <2>1, <2>2, <1>4
  <1>8. RowInv'
    BY <1>1, <1>3, <1>5, <1>6, <1>7 DEF RowInv
  <1> QED
    BY <1>4, <1>8 DEF RowsKeep

\* A row that changes to something truthful leaves the rows sound.
LEMMA RowChange ==
  ASSUME RowInv, NEW i \in DOMAIN intents, NEW r \in Row, RowBecomes(i, r),
         Truthful(i, r), commits' = commits
  PROVE  /\ RowInv'
         /\ DOMAIN intents' = DOMAIN intents /\ intents'[i] = r
         /\ \A j \in DOMAIN intents : j # i => intents'[j] = intents[j]
         /\ \A j \in DOMAIN intents : /\ intents'[j].key = intents[j].key
                                      /\ intents'[j].req = intents[j].req
  <1>1. intents \in Seq(Row) /\ DOMAIN intents = 1..Len(intents) /\ Len(intents) \in Nat
    BY DEF RowInv
  <1>2. /\ intents' \in Seq(Row) /\ DOMAIN intents' = DOMAIN intents
        /\ Len(intents') = Len(intents)
        /\ intents'[i] = r /\ \A j \in DOMAIN intents : j # i => intents'[j] = intents[j]
    BY <1>1 DEF RowBecomes
  <1>3. \A j \in DOMAIN intents :
           intents'[j].key = intents[j].key /\ intents'[j].req = intents[j].req
    BY <1>2 DEF RowBecomes
  <1>4. \A j, l \in DOMAIN intents' : intents'[j].key = intents'[l].key => j = l
    BY <1>2, <1>3 DEF RowInv
  <1>5. ASSUME NEW j \in DOMAIN intents
        PROVE  Truthful(j, intents'[j])
    BY <1>2 DEF Truthful, RowInv
  <1>6. \A j, q, o : /\ DeltaMatches(q, o) => DeltaMatches(q, o)'
                     /\ Unmarked(j) => Unmarked(j)'
    BY DEF DeltaMatches, Parent, Unmarked
  <1>7. ASSUME NEW j \in DOMAIN intents'
        PROVE  /\ intents'[j].phase \in {"completed-local", "published-remote"} =>
                     /\ intents'[j].oid \in DOMAIN commits'
                     /\ commits'[intents'[j].oid].marker = j
                     /\ DeltaMatches(intents[j].req, intents[j].oid)'
               /\ intents'[j].phase \in {"queued-local", "rejected"} => Unmarked(j)'
    <2>1. PICK q, o : q = intents'[j].req /\ o = intents'[j].oid
      OBVIOUS
    <2>2. DeltaMatches(q, o) => DeltaMatches(q, o)'
      BY <1>6
    <2> QED
      BY <1>2, <1>5, <1>6, <2>1, <2>2 DEF Truthful
  <1> QED
    BY <1>2, <1>3, <1>4, <1>7 DEF RowInv

\* Enqueueing adds a queued row for a new key and nothing for a known one.
LEMMA RowInsert ==
  ASSUME RowInv, NEW k \in Keys, NEW q \in RequestType, Insert(k, q), commits' = commits
  PROVE  /\ RowInv' /\ RowsKeep
         /\ \A i \in DOMAIN intents : i \in DOMAIN intents' /\ intents'[i] = intents[i]
         /\ \E i \in DOMAIN intents' : intents'[i].key = k
         /\ \A i \in DOMAIN intents' : i \in DOMAIN intents \/ intents'[i].req = q
  <1> DEFINE new == [key |-> k, req |-> q, phase |-> "queued-local", oid |-> 0,
                     code |-> "", remoteOid |-> 0, failure |-> ""]
             N == Len(intents) + 1
  <1>1. intents \in Seq(Row) /\ DOMAIN intents = 1..Len(intents) /\ Len(intents) \in Nat
    BY DEF RowInv
  <1>2. new \in Row /\ new.phase = "queued-local" /\ new.key = k /\ new.req = q
    <2>1. "queued-local" \in Phases /\ 0 \in Nat /\ "" \in Codes
      BY DEF Phases, Codes
    <2>2. new \in Row
      BY <2>1, Zenon DEF Row
    <2> QED
      BY <2>2
  <1>3. \A j, x, o : /\ DeltaMatches(x, o) => DeltaMatches(x, o)'
                     /\ Unmarked(j) => Unmarked(j)'
    BY DEF DeltaMatches, Parent, Unmarked
  <1>4. CASE RowsOf(k) # {}
    <2>1. intents' = intents
      BY <1>4 DEF Insert
    <2>2. \E i \in DOMAIN intents : intents[i].key = k
      BY <1>4 DEF RowsOf
    <2>3. RowInv'
      BY <2>1, <1>3 DEF RowInv, DeltaMatches, Parent, Unmarked
    <2> QED
      BY <2>1, <2>2, <2>3 DEF RowsKeep
  <1>5. CASE RowsOf(k) = {}
    <2>1. intents' = Append(intents, new)
      BY <1>5 DEF Insert
    <2>2. \A i \in DOMAIN intents : intents[i].key # k
      BY <1>5 DEF RowsOf
    <2> HIDE DEF new
    <2>3. /\ intents' \in Seq(Row) /\ Len(intents') = N /\ DOMAIN intents' = 1..N
          /\ intents'[N] = new
          /\ \A i \in DOMAIN intents : intents'[i] = intents[i]
      BY <1>1, <1>2, <2>1
    <2>4. \A i \in DOMAIN intents' : i \in DOMAIN intents \/ i = N
      BY <1>1, <2>3
    <2>5. \A i, j \in DOMAIN intents' : intents'[i].key = intents'[j].key => i = j
      BY <1>1, <1>2, <2>2, <2>3, <2>4 DEF RowInv
    <2>6. \A n \in DOMAIN commits' : commits'[n].marker \in 0..Len(intents')
      BY <1>1, <2>3 DEF RowInv
    <2>7. Unmarked(N)
      BY <1>1 DEF Unmarked, RowInv
    <2>8. ASSUME NEW j \in DOMAIN intents'
          PROVE  /\ intents'[j].phase \in {"completed-local", "published-remote"} =>
                       /\ intents'[j].oid \in DOMAIN commits'
                       /\ commits'[intents'[j].oid].marker = j
                       /\ DeltaMatches(intents[j].req, intents[j].oid)'
                 /\ intents'[j].phase \in {"queued-local", "rejected"} => Unmarked(j)'
      <3>1. CASE j = N
        BY <1>2, <1>3, <2>3, <2>7, <3>1 DEF Unmarked
      <3>2. CASE j \in DOMAIN intents
        <4>1. PICK x, o : x = intents[j].req /\ o = intents[j].oid
          OBVIOUS
        <4>2. DeltaMatches(x, o) => DeltaMatches(x, o)'
          BY <1>3
        <4> QED
          BY <1>3, <2>3, <3>2, <4>1, <4>2 DEF RowInv
      <3> QED
        BY <2>4, <3>1, <3>2
    <2>9. RowInv'
      BY <2>3, <2>5, <2>6, <2>8 DEF RowInv
    <2>10. N \in DOMAIN intents' /\ intents'[N].key = k /\ intents'[N].req = q
      BY <1>1, <1>2, <2>3
    <2>11. RowsKeep
      BY <1>1, <1>2, <2>3, <2>4 DEF RowsKeep
    <2> QED
      BY <1>1, <2>3, <2>4, <2>9, <2>10, <2>11
  <1> QED
    BY <1>4, <1>5

\* Recording why a publication failed changes nothing else of a row.
LEMMA RowFailures ==
  ASSUME RowInv, NEW code \in Codes, Failures(code), commits' = commits
  PROVE  /\ RowInv' /\ RowsKeep
         /\ DOMAIN intents' = DOMAIN intents
         /\ \A i \in DOMAIN intents :
               /\ intents'[i].key = intents[i].key /\ intents'[i].req = intents[i].req
               /\ intents'[i].phase = intents[i].phase /\ intents'[i].oid = intents[i].oid
  <1>1. intents \in Seq(Row) /\ DOMAIN intents = 1..Len(intents) /\ Len(intents) \in Nat
    BY DEF RowInv
  <1>2. ASSUME NEW i \in DOMAIN intents
        PROVE  /\ intents'[i] \in Row
               /\ intents'[i].key = intents[i].key /\ intents'[i].req = intents[i].req
               /\ intents'[i].phase = intents[i].phase /\ intents'[i].oid = intents[i].oid
    <2>1. intents[i] \in Row
      BY <1>1
    <2>2. \/ intents'[i] = intents[i]
          \/ intents'[i] = [intents[i] EXCEPT !.failure = code]
      BY DEF Failures
    <2> QED
      BY <2>1, <2>2 DEF Row
  <1>3. DOMAIN intents' = DOMAIN intents /\ intents' = [i \in 1..Len(intents) |-> intents'[i]]
    BY <1>1 DEF Failures
  <1>4. intents' \in Seq(Row) /\ Len(intents') = Len(intents)
    BY <1>1, <1>2, <1>3
  <1>5. \A j, x, o : /\ DeltaMatches(x, o) => DeltaMatches(x, o)'
                     /\ Unmarked(j) => Unmarked(j)'
    BY DEF DeltaMatches, Parent, Unmarked
  <1>6. ASSUME NEW j \in DOMAIN intents'
        PROVE  /\ intents'[j].phase \in {"completed-local", "published-remote"} =>
                     /\ intents'[j].oid \in DOMAIN commits'
                     /\ commits'[intents'[j].oid].marker = j
                     /\ DeltaMatches(intents[j].req, intents[j].oid)'
               /\ intents'[j].phase \in {"queued-local", "rejected"} => Unmarked(j)'
    <2>1. PICK x, o : x = intents[j].req /\ o = intents[j].oid
      OBVIOUS
    <2>2. (DeltaMatches(x, o) => DeltaMatches(x, o)') /\ (Unmarked(j) => Unmarked(j)')
      BY <1>5
    <2> QED
      BY <1>2, <1>3, <2>1, <2>2 DEF RowInv
  <1>7. RowInv'
    <2>1. \A i, j \in DOMAIN intents' : intents'[i].key = intents'[j].key => i = j
      BY <1>2, <1>3 DEF RowInv
    <2>2. /\ \A n \in DOMAIN commits' : commits'[n].marker \in 0..Len(intents')
          /\ \A n, m \in DOMAIN commits' :
               commits'[n].marker = commits'[m].marker => n = m \/ commits'[n].marker = 0
      BY <1>4 DEF RowInv
    <2> QED
      BY <1>4, <1>6, <2>1, <2>2 DEF RowInv
  <1> QED
    BY <1>2, <1>3, <1>7 DEF RowsKeep

-----------------------------------------------------------------------------
(* What the parts of the invariant need of a step that is not about them.  *)

\* Rows keep their keys and requests.
RowsBound ==
    \A i \in DOMAIN intents : /\ i \in DOMAIN intents'
                              /\ intents'[i].key = intents[i].key
                              /\ intents'[i].req = intents[i].req

\* An answer stays good as long as rows keep their keys and requests.
LEMMA AnswersKept ==
  ASSUME AnswersDurable, RowsBound,
         \A c \in Clients : clients'[c].pc = "acked" =>
            /\ clients[c].pc = "acked"
            /\ clients'[c].key = clients[c].key /\ clients'[c].req = clients[c].req
  PROVE  AnswersDurable'
  <1> SUFFICES ASSUME NEW c \in Clients, clients'[c].pc = "acked"
               PROVE  \E i \in RowsOf(clients[c].key)' : intents'[i].req = clients'[c].req
    BY DEF AnswersDurable
  <1>1. PICK i \in RowsOf(clients[c].key) : intents[i].req = clients[c].req
    BY DEF AnswersDurable
  <1> QED
    BY <1>1 DEF RowsOf, RowsBound

\* A step that leaves clients and requests alone keeps what they were told.
LEMMA ClientFrame ==
  ASSUME ClientInv, RowsBound, UNCHANGED clientVars
  PROVE  ClientInv'
  <1>1. clients' = clients /\ inbox' = inbox
    BY DEF clientVars
  <1>2. AnswersDurable'
    BY <1>1, AnswersKept DEF ClientInv
  <1> QED
    BY <1>1, <1>2 DEF ClientInv

\* Rows that a worker or an orphan may hold keep their phase.
HoldersKeep ==
    \A i \in DOMAIN intents :
       /\ i \in DOMAIN intents'
       /\ intents[i].phase \in {"running", "ambiguous"} => intents'[i].phase = intents[i].phase
       /\ Unmarked(i) => Unmarked(i)'

\* A step that moves no worker and gives no held receipt a commit.
LEMMA WorkerFrame ==
  ASSUME WorkerInv, HoldersKeep, worker' = worker, orphan' = orphan
  PROVE  WorkerInv'
  BY DEF WorkerInv, HoldersKeep

\* What the remote contains it goes on containing.
LEMMA AncestorsKept ==
  ASSUME HistoryInv, HistoryInv', Grown, Advanced, NEW x \in commits[remote].anc
  PROVE  x \in commits'[remote'].anc
  <1>1. remote \in DOMAIN commits' /\ commits'[remote] = commits[remote]
    BY DEF Grown, HistoryInv
  <1>2. remote' \in DOMAIN commits' /\ commits'[remote].anc \subseteq commits'[remote'].anc
    BY DEF HistoryInv, Advanced
  <1> QED
    BY <1>1, <1>2

\* The publisher's captures survive what everybody else does.
LEMMA PublisherFrame ==
  ASSUME HistoryInv, PublisherInv, HistoryInv', Grown, Advanced, RowsKeep, UNCHANGED pubVars
  PROVE  PublisherInv'
  <1>1. jobs' = jobs /\ publisher' = publisher /\ inflight' = inflight
    BY DEF pubVars
  <1>2. \A n \in DOMAIN commits : n \in DOMAIN commits' /\ commits'[n] = commits[n]
    BY DEF Grown
  <1>3. \A i \in publisher.pending :
           i \in DOMAIN intents' /\ intents'[i].phase = "completed-local"
    BY DEF PublisherInv, RowsKeep
  <1>4. publisher.pc \notin {"idle", "observe"} => publisher.seen \in commits'[remote'].anc
    BY AncestorsKept DEF PublisherInv, IsAncestor
  <1>5. ASSUME publisher.pc \in {"claim", "push"}
        PROVE  publisher.seen \in commits'[publisher.head].anc
    <2>1. publisher.head \in DOMAIN commits /\ publisher.seen \in commits[publisher.head].anc
      BY <1>5 DEF PublisherInv, IsAncestor
    <2> QED
      BY <1>2, <2>1
  <1>6. ASSUME inflight # None
        PROVE  /\ inflight \in [candidate : DOMAIN commits', expected : DOMAIN commits']
               /\ inflight.expected \in commits'[inflight.candidate].anc
    <2>1. /\ inflight \in [candidate : DOMAIN commits, expected : DOMAIN commits]
          /\ inflight.expected \in commits[inflight.candidate].anc
      BY <1>6 DEF PublisherInv, IsAncestor
    <2> QED
      BY <1>2, <2>1
  <1>7. PublishedIsOnRemote'
    <2>1. ASSUME NEW i \in DOMAIN intents', intents'[i].phase = "published-remote"
          PROVE  intents'[i].oid \in commits'[remote'].anc
      <3>1. i \in DOMAIN intents /\ intents[i].phase = "published-remote"
        BY <2>1 DEF RowsKeep
      <3>2. intents'[i].oid = intents[i].oid /\ intents[i].oid \in commits[remote].anc
        BY <3>1 DEF RowsKeep, PublisherInv, PublishedIsOnRemote, IsAncestor
      <3> QED
        BY <3>2, AncestorsKept
    <2>2. ASSUME NEW j \in DOMAIN jobs, jobs[j].phase = "published"
          PROVE  jobs[j].candidate \in commits'[remote'].anc
      BY <2>2, AncestorsKept DEF PublisherInv, PublishedIsOnRemote, IsAncestor
    <2> QED
      BY <1>1, <2>1, <2>2 DEF PublishedIsOnRemote, IsAncestor
  <1>8. \A j \in DOMAIN jobs : {jobs[j].candidate, jobs[j].expected} \subseteq DOMAIN commits'
    BY <1>2 DEF PublisherInv
  <1>9. publisher.pc # "idle" => publisher.head \in DOMAIN commits'
    BY <1>2 DEF PublisherInv
  <1> QED
    BY <1>1, <1>3, <1>4, <1>5, <1>6, <1>7, <1>8, <1>9 DEF PublisherInv, IsAncestor

\* A step that leaves Git alone keeps the history.
LEMMA GitFrame ==
  ASSUME HistoryInv, UNCHANGED gitVars
  PROVE  HistoryInv' /\ Grown /\ Advanced /\ commits' = commits
         /\ \A i : Unmarked(i) => Unmarked(i)'
  BY DEF HistoryInv, Grown, Advanced, gitVars, ChildOf, Unmarked

-----------------------------------------------------------------------------
(* The worker.                                                             *)

\* A running row is settled by what the history shows.
Settlement(i, phases) ==
    \E r \in Row : RowBecomes(i, r) /\ Truthful(i, r) /\ r.phase \in phases

\* _finish_running changes the outcome of one running row.
LEMMA FinishSettles ==
  ASSUME RowInv, NEW i \in DOMAIN intents,
         NEW ph \in {"completed-local", "ambiguous", "rejected"}, NEW o \in Nat,
         NEW code \in Codes, Finish(i, ph, o, code),
         ph = "completed-local" => /\ o \in DOMAIN commits /\ commits[o].marker = i
                                   /\ DeltaMatches(intents[i].req, o),
         ph = "rejected" => Unmarked(i)
  PROVE  intents[i].phase = "running" /\ Settlement(i, {ph})
  <1> DEFINE r == [intents[i] EXCEPT !.phase = ph, !.oid = o, !.code = code]
  <1>1. intents \in Seq(Row) /\ intents[i] \in Row /\ ph \in Phases
    BY DEF RowInv, Phases
  <1>2. /\ r \in Row /\ r.key = intents[i].key /\ r.req = intents[i].req
        /\ r.phase = ph /\ r.oid = o
    BY <1>1 DEF Row
  <1>3. intents' = [intents EXCEPT ![i] = r]
    BY <1>1 DEF Finish
  <1> HIDE DEF r
  <1>4. RowBecomes(i, r) /\ Truthful(i, r)
    BY <1>2, <1>3 DEF RowBecomes, Truthful
  <1> QED
    BY <1>2, <1>4 DEF Settlement, Finish

\* record_local_commit after verify_local_commit.
LEMMA LocalCommitSettles ==
  ASSUME HistoryInv, RowInv, NEW i \in DOMAIN intents, NEW n,
         Verified(i, n), RecordLocalCommit(i, n)
  PROVE  intents[i].phase = "running" /\ Settlement(i, {"completed-local"})
  <1>1. n \in DOMAIN commits /\ n \in Nat
    BY DEF HistoryInv, Verified, IsAncestor
  <1>2. "" \in Codes
    BY DEF Codes
  <1> QED
    BY <1>1, <1>2, FinishSettles DEF RecordLocalCommit, Verified

\* Marked finds commits of the repository.
LEMMA MarkedIsMarked ==
  ASSUME HistoryInv, NEW i, Unmarked(i)
  PROVE  Marked(i) = {}
  <1>1. \A h \in {local, remote} \cup kept : commits[h].anc \subseteq DOMAIN commits
    BY DEF HistoryInv
  <1> QED
    BY <1>1 DEF Marked, Reachable, Unmarked

\* The marker decides: a verified commit, or no evidence either way.
LEMMA MarkerSettles ==
  ASSUME HistoryInv, RowInv, NEW i \in DOMAIN intents, NEW code \in Codes,
         SettleFromMarker(i, RecordAmbiguity(i, code))
  PROVE  intents[i].phase = "running" /\ Settlement(i, {"completed-local", "ambiguous"})
  <1>1. CASE RecordAmbiguity(i, code) \/ RecordAmbiguity(i, "COMMIT_EVIDENCE_UNKNOWN")
    <2>1. "COMMIT_EVIDENCE_UNKNOWN" \in Codes
      BY DEF Codes
    <2>2. intents[i].phase = "running" /\ Settlement(i, {"ambiguous"})
      BY <1>1, <2>1, FinishSettles DEF RecordAmbiguity
    <2> QED
      BY <2>2 DEF Settlement
  <1>2. CASE \E n \in Marked(i) : Verified(i, n) /\ RecordLocalCommit(i, n)
    <2>1. PICK n : Verified(i, n) /\ RecordLocalCommit(i, n)
      BY <1>2
    <2>2. intents[i].phase = "running" /\ Settlement(i, {"completed-local"})
      BY <2>1, LocalCommitSettles
    <2> QED
      BY <2>2 DEF Settlement
  <1> QED
    BY <1>1, <1>2 DEF SettleFromMarker

\* A refused mutation has no commit, so the row is rejected.
LEMMA RefusalSettles ==
  ASSUME HistoryInv, RowInv, NEW i \in DOMAIN intents, Unmarked(i),
         SettleFromMarker(i, RecordRejection(i))
  PROVE  intents[i].phase = "running" /\ Settlement(i, {"rejected"})
  <1>1. RecordRejection(i)
    BY MarkedIsMarked DEF SettleFromMarker
  <1>2. "ADMISSION_REJECTED" \in Codes
    BY DEF Codes
  <1> QED
    BY <1>1, <1>2, FinishSettles DEF RecordRejection

\* A settled row is running no longer; no other row changes.
LEMMA SettledRows ==
  ASSUME HistoryInv, RowInv, ClientInv, PublisherInv, NEW i \in DOMAIN intents,
         NEW S \in SUBSET {"completed-local", "ambiguous", "rejected"},
         intents[i].phase = "running", Settlement(i, S),
         UNCHANGED <<clientVars, gitVars, pubVars>>
  PROVE  /\ HistoryInv' /\ RowInv' /\ ClientInv' /\ PublisherInv'
         /\ DOMAIN intents' = DOMAIN intents /\ intents'[i].phase \in S
         /\ Unmarked(i) => intents'[i].phase # "completed-local"
         /\ \A j \in DOMAIN intents : j # i => intents'[j] = intents[j]
         /\ \A j : Unmarked(j) => Unmarked(j)'
  <1>1. PICK r \in Row : RowBecomes(i, r) /\ Truthful(i, r) /\ r.phase \in S
    BY DEF Settlement
  <1>2. /\ HistoryInv' /\ Grown /\ Advanced /\ commits' = commits
        /\ \A j : Unmarked(j) => Unmarked(j)'
    BY GitFrame
  <1>3. /\ RowInv'
        /\ DOMAIN intents' = DOMAIN intents /\ intents'[i] = r
        /\ \A j \in DOMAIN intents : j # i => intents'[j] = intents[j]
        /\ \A j \in DOMAIN intents : /\ intents'[j].key = intents[j].key
                                     /\ intents'[j].req = intents[j].req
    BY <1>1, <1>2, RowChange
  <1>4. RowsBound /\ RowsKeep
    BY <1>1, <1>3 DEF RowsBound, RowsKeep
  <1>5. ClientInv' /\ PublisherInv'
    BY <1>2, <1>4, ClientFrame, PublisherFrame
  <1>6. Unmarked(i) => r.phase # "completed-local"
    BY <1>1 DEF Truthful, Unmarked
  <1> QED
    BY <1>1, <1>2, <1>3, <1>5, <1>6

\* Whatever settles a row, in recovery or after its application, keeps the
\* orphan's row open.
LEMMA WorkerSettles ==
  ASSUME FastInv, NEW w \in Workers, NEW i \in DOMAIN intents,
         NEW S \in SUBSET {"completed-local", "ambiguous", "rejected"},
         intents[i].phase = "running", Settlement(i, S),
         UNCHANGED <<clientVars, gitVars, orphan, pubVars>>,
         \/ worker[w].pc = "recover" /\ worker' = worker /\ "rejected" \notin S
         \/ /\ worker[w].pc \in {"apply", "verify"} /\ worker[w].receipt = i
            /\ Goto(w, "idle", 0, 0)
  PROVE  FastInv'
  <1>1. /\ HistoryInv' /\ RowInv' /\ ClientInv' /\ PublisherInv'
        /\ DOMAIN intents' = DOMAIN intents /\ intents'[i].phase \in S
        /\ Unmarked(i) => intents'[i].phase # "completed-local"
        /\ \A j \in DOMAIN intents : j # i => intents'[j] = intents[j]
        /\ \A j : Unmarked(j) => Unmarked(j)'
    BY SettledRows DEF FastInv
  <1>2. orphan' = orphan /\ WorkerInv
    BY DEF FastInv
  <1>3. \A v \in Workers : v # w => worker[v].pc = "down"
    BY <1>2 DEF WorkerInv
  <1>4. /\ worker' \in [Workers -> Process]
        /\ worker'[w].pc \in {"recover", "idle"}
        /\ \A v \in Workers : v # w => worker'[v].pc = "down"
    BY <1>2, <1>3 DEF WorkerInv, Goto, Process
  <1>5. ASSUME orphan # None
        PROVE  /\ orphan \in [receipt : Nat, base : Nat]
               /\ orphan.receipt \in DOMAIN intents'
               /\ intents'[orphan.receipt].phase \in {"running", "ambiguous"}
               /\ Unmarked(orphan.receipt)'
    <2>1. /\ orphan \in [receipt : Nat, base : Nat]
          /\ orphan.receipt \in DOMAIN intents
          /\ intents[orphan.receipt].phase \in {"running", "ambiguous"}
          /\ Unmarked(orphan.receipt)
      BY <1>2, <1>5 DEF WorkerInv
    <2>2. Unmarked(orphan.receipt)'
      BY <1>1, <1>2, <2>1 DEF Unmarked
    <2>3. CASE orphan.receipt = i
      <3>1. worker[w].pc = "recover" /\ "rejected" \notin S
        BY <1>2, <1>5, <2>3 DEF WorkerInv
      <3> QED
        BY <1>1, <2>1, <2>2, <2>3, <3>1
    <2>4. CASE orphan.receipt # i
      BY <1>1, <2>1, <2>2, <2>4
    <2> QED
      BY <2>3, <2>4
  <1>6. WorkerInv'
    BY <1>2, <1>4, <1>5 DEF WorkerInv
  <1> QED
    BY <1>1, <1>6 DEF FastInv

\* The base of a write contains the remote: sync_replica_before_write.
LEMMA BaseContainsRemote ==
  ASSUME HistoryInv, Synced
  PROVE  Base \in DOMAIN commits /\ remote \in commits[Base].anc /\ commits[Base].task \in Task
  <1>1. Base \in DOMAIN commits /\ remote \in commits[Base].anc
    BY DEF HistoryInv, Synced, Base, IsAncestor
  <1>2. commits[Base] \in Commit
    BY <1>1 DEF HistoryInv
  <1> QED
    BY <1>1, <1>2 DEF Commit

\* A new commit, unmarked or with the marker of an open receipt.
LEMMA CommitStep ==
  ASSUME FastInv, NEW h \in DOMAIN commits, NEW k \in 0..Len(intents), NEW t \in Task,
         commits' = Append(commits, NewCommit(h, k, t)),
         local' \in {local, Len(commits) + 1},
         \/ remote' = remote
         \/ remote' = Len(commits) + 1 /\ remote \in commits[h].anc,
         kept' = kept,
         k = 0 \/ (Unmarked(k) /\ intents[k].phase \in {"running", "ambiguous"}),
         UNCHANGED <<intents, clientVars, pubVars>>
  PROVE  /\ HistoryInv' /\ RowInv' /\ ClientInv' /\ PublisherInv'
         /\ \A i \in DOMAIN intents : i # k /\ Unmarked(i) => Unmarked(i)'
  <1>1. HistoryInv /\ RowInv /\ ClientInv /\ PublisherInv /\ k \in Nat
    BY DEF FastInv, RowInv
  <1>2. /\ HistoryInv' /\ Grown
        /\ DOMAIN commits' = DOMAIN commits \cup {Len(commits) + 1}
        /\ commits'[Len(commits) + 1].anc = commits[h].anc \cup {Len(commits) + 1}
        /\ commits'[Len(commits) + 1].marker = k
    <2>1. local \in DOMAIN commits /\ remote \in DOMAIN commits
      BY <1>1 DEF HistoryInv
    <2> QED
      BY <1>1, <2>1, CommitOnTop
  <1>3. Advanced
    <2>1. remote \in DOMAIN commits /\ remote \in commits[remote].anc
      BY <1>1 DEF HistoryInv
    <2>2. commits'[remote].anc = commits[remote].anc
      BY <1>2, <2>1 DEF Grown
    <2> QED
      BY <1>2, <2>1, <2>2 DEF Advanced
  <1>4. /\ RowInv' /\ RowsKeep
        /\ \A i \in DOMAIN intents : i # k /\ Unmarked(i) => Unmarked(i)'
    BY <1>1, <1>2, MarkedCommit
  <1>5. RowsBound /\ UNCHANGED clientVars /\ UNCHANGED pubVars
    BY DEF RowsBound
  <1> QED
    BY <1>1, <1>2, <1>3, <1>4, <1>5, ClientFrame, PublisherFrame

\* The marked commit of an open receipt, by its worker or by an orphan.
LEMMA MarkedStep ==
  ASSUME FastInv, NEW k \in DOMAIN intents, Unmarked(k),
         intents[k].phase \in {"running", "ambiguous"}, CommitMarked(k),
         UNCHANGED <<intents, clientVars, pubVars>>
  PROVE  /\ HistoryInv' /\ RowInv' /\ ClientInv' /\ PublisherInv'
         /\ \A i \in DOMAIN intents : i # k /\ Unmarked(i) => Unmarked(i)'
  <1>1. HistoryInv /\ RowInv
    BY DEF FastInv
  <1>2. Base \in DOMAIN commits /\ commits[Base].task \in Task
    BY <1>1, BaseContainsRemote DEF CommitMarked
  <1>3. intents[k].req \in RequestType /\ k \in 0..Len(intents)
    <2>1. intents[k] \in Row /\ k \in 1..Len(intents) /\ Len(intents) \in Nat
      BY <1>1 DEF RowInv
    <2> QED
      BY <2>1 DEF Row
  <1>4. Applied(intents[k].req, commits[Base].task) \in Task
    BY <1>2, <1>3, AppliedIsTask
  <1>5. PICK h \in DOMAIN commits, t \in Task :
           h = Base /\ t = Applied(intents[k].req, commits[Base].task)
    BY <1>2, <1>4
  <1>6. /\ commits' = Append(commits, NewCommit(h, k, t))
        /\ local' = Len(commits) + 1 /\ remote' = remote /\ kept' = kept
    BY <1>5 DEF CommitMarked
  <1> QED
    BY <1>3, <1>5, <1>6, CommitStep

\* The oldest of some rows is one of them.
LEMMA MinIsMember ==
  ASSUME NEW S \in SUBSET Nat, S # {}
  PROVE  Min(S) \in S
  <1>1. PICK x \in S : \A y \in S : ~ (<<y, x>> \in OpToRel(<, Nat))
    BY WFMin, NatLessThanWellFounded
  <1>2. \A y \in S : x <= y
    <2>1. \A y \in Nat : y < x => <<y, x>> \in OpToRel(<, Nat)
      BY SMT DEF OpToRel
    <2>2. \A y \in S : ~ (y < x)
      BY <1>1, <2>1
    <2> QED
      BY <2>2
  <1> QED
    BY <1>2 DEF Min

\* A step of a worker keeps the invariant.
LEMMA WorkerSteps ==
  ASSUME FastInv, NEW w \in Workers, WorkerStep(w), UNCHANGED pubVars
  PROVE  FastInv'
  <1>1. HistoryInv /\ RowInv /\ ClientInv /\ WorkerInv /\ PublisherInv
    BY DEF FastInv
  <1>2. intents \in Seq(Row) /\ DOMAIN intents = 1..Len(intents) /\ Len(intents) \in Nat
    BY <1>1 DEF RowInv
  <1>3. UNCHANGED <<intents, clientVars, gitVars, orphan, faults>> /\ WorkerInv' => FastInv'
    <2> HAVE UNCHANGED <<intents, clientVars, gitVars, orphan, faults>> /\ WorkerInv'
    <2>1. /\ HistoryInv' /\ Grown /\ Advanced /\ commits' = commits
      BY <1>1, GitFrame
    <2>2. RowsBound /\ RowsKeep
      BY DEF RowsBound, RowsKeep
    <2>3. RowInv'
      <3>1. 0 \in 0..Len(intents)
        BY <1>2
      <3> QED
        BY <1>1, <2>1, <3>1, MarkedCommit
    <2> QED
      BY <1>1, <2>1, <2>2, <2>3, ClientFrame, PublisherFrame DEF FastInv
  <1>4. CASE Start(w)
    <2>1. WorkerInv'
      <3>1. worker' \in [Workers -> Process] /\ worker'[w].pc = "recover"
            /\ \A v \in Workers : v # w => worker'[v].pc = "down"
        BY <1>1, <1>4 DEF Start, At, Goto, WorkerInv, Process
      <3>2. intents' = intents /\ orphan' = orphan /\ commits' = commits
        BY <1>4 DEF Start, gitVars
      <3> QED
        BY <1>1, <3>1, <3>2 DEF WorkerInv, Unmarked
    <2> QED
      BY <1>3, <1>4, <2>1 DEF Start
  <1>5. CASE RecoverOne(w)
    <2>1. Running # {} /\ worker[w].pc = "recover" /\ worker' = worker
      BY <1>5 DEF RecoverOne, At
    <2>2. PICK i : /\ i = Min(Running)
                   /\ SettleFromMarker(i, RecordAmbiguity(i, "INTERRUPTED_BEFORE_COMMIT"))
      BY <1>5 DEF RecoverOne
    <2>3. i \in DOMAIN intents
      <3>1. Running \subseteq Nat
        BY <1>2 DEF Running
      <3> QED
        BY <2>1, <2>2, <3>1, MinIsMember DEF Running
    <2>4. "INTERRUPTED_BEFORE_COMMIT" \in Codes
      BY DEF Codes
    <2>5. intents[i].phase = "running" /\ Settlement(i, {"completed-local", "ambiguous"})
      BY <1>1, <2>2, <2>3, <2>4, MarkerSettles
    <2> QED
      BY <1>5, <2>1, <2>3, <2>5, WorkerSettles DEF RecoverOne
  <1>6. CASE RecoverDone(w)
    <2>1. WorkerInv'
      <3>1. worker' \in [Workers -> Process] /\ worker'[w].pc = "idle"
            /\ \A v \in Workers : v # w => worker'[v].pc = "down"
        BY <1>1, <1>6 DEF RecoverDone, At, Goto, WorkerInv, Process
      <3>2. intents' = intents /\ orphan' = orphan /\ commits' = commits
        BY <1>6 DEF RecoverDone, gitVars
      <3> QED
        BY <1>1, <3>1, <3>2 DEF WorkerInv, Unmarked
    <2> QED
      BY <1>3, <1>6, <2>1 DEF RecoverDone
  <1>7. CASE ClaimNext(w)
    <2>1. Queued # {} /\ Queued \subseteq Nat /\ worker[w].pc = "idle"
      BY <1>2, <1>7 DEF ClaimNext, At, Queued
    <2>2. PICK i : i = Min(Queued)
      OBVIOUS
    <2>3. i \in DOMAIN intents /\ intents[i].phase = "queued-local" /\ intents[i] \in Row
      <3>1. i \in Queued
        BY <2>1, <2>2, MinIsMember
      <3> QED
        BY <1>2, <3>1 DEF Queued
    <2> DEFINE r == [intents[i] EXCEPT !.phase = "running"]
    <2>4. /\ r \in Row /\ r.phase = "running"
          /\ r.key = intents[i].key /\ r.req = intents[i].req
      BY <2>3 DEF Row, Phases
    <2>5. intents' = [intents EXCEPT ![i] = r] /\ Goto(w, "apply", i, 0)
      BY <1>7, <2>2, <2>3 DEF ClaimNext
    <2> HIDE DEF r
    <2>6. RowBecomes(i, r) /\ Truthful(i, r)
      BY <2>4, <2>5 DEF RowBecomes, Truthful
    <2>7. /\ HistoryInv' /\ Grown /\ Advanced /\ commits' = commits
          /\ \A j : Unmarked(j) => Unmarked(j)'
      BY <1>1, <1>7, GitFrame DEF ClaimNext
    <2>8. /\ RowInv'
          /\ DOMAIN intents' = DOMAIN intents /\ intents'[i] = r
          /\ \A j \in DOMAIN intents : j # i => intents'[j] = intents[j]
          /\ \A j \in DOMAIN intents : /\ intents'[j].key = intents[j].key
                                       /\ intents'[j].req = intents[j].req
      BY <1>1, <2>3, <2>4, <2>6, <2>7, RowChange
    <2>9. RowsBound /\ RowsKeep
      BY <2>3, <2>4, <2>8 DEF RowsBound, RowsKeep
    <2>10. ClientInv' /\ PublisherInv'
      BY <1>1, <1>7, <2>7, <2>9, ClientFrame, PublisherFrame DEF ClaimNext
    <2>11. WorkerInv'
      <3>1. /\ worker' \in [Workers -> Process] /\ i \in Nat
            /\ worker'[w].pc = "apply" /\ worker'[w].receipt = i
            /\ \A v \in Workers : v # w => worker'[v].pc = "down"
        BY <1>1, <1>2, <2>1, <2>3, <2>5 DEF Goto, WorkerInv, Process
      <3>2. orphan' = orphan
        BY <1>7 DEF ClaimNext
      <3>3. Unmarked(i)'
        BY <1>1, <2>3, <2>7 DEF RowInv
      <3>4. ASSUME orphan # None
            PROVE  /\ orphan \in [receipt : Nat, base : Nat] /\ orphan.receipt # i
                   /\ orphan.receipt \in DOMAIN intents'
                   /\ intents'[orphan.receipt].phase \in {"running", "ambiguous"}
                   /\ Unmarked(orphan.receipt)'
        <4>1. /\ orphan \in [receipt : Nat, base : Nat]
              /\ orphan.receipt \in DOMAIN intents
              /\ intents[orphan.receipt].phase \in {"running", "ambiguous"}
              /\ Unmarked(orphan.receipt)
          BY <1>1, <3>4 DEF WorkerInv
        <4> QED
          BY <2>3, <2>7, <2>8, <3>2, <4>1 DEF Unmarked
      <3>5. \A v \in Workers : worker'[v].pc \in {"apply", "verify"} =>
               /\ worker'[v].receipt \in DOMAIN intents'
               /\ intents'[worker'[v].receipt].phase = "running"
               /\ orphan # None => orphan.receipt # worker'[v].receipt
        BY <2>3, <2>4, <2>8, <3>1, <3>4
      <3>6. \A v \in Workers : worker'[v].pc = "apply" =>
               \A n \in DOMAIN commits' : commits'[n].marker # worker'[v].receipt
        BY <3>1, <3>3 DEF Unmarked
      <3> QED
        BY <3>1, <3>2, <3>4, <3>5, <3>6 DEF WorkerInv, Unmarked
    <2> QED
      BY <2>7, <2>8, <2>10, <2>11 DEF FastInv
  <1>8. CASE ApplyCommit(w)
    <2>1. PICK i : i = worker[w].receipt
      OBVIOUS
    <2>2. /\ worker[w].pc = "apply" /\ i \in DOMAIN intents
          /\ intents[i].phase = "running" /\ Unmarked(i)
          /\ orphan # None => orphan.receipt # i
      BY <1>1, <1>8, <2>1 DEF ApplyCommit, At, WorkerInv
    <2>3. /\ HistoryInv' /\ RowInv' /\ ClientInv' /\ PublisherInv'
          /\ \A j \in DOMAIN intents : j # i /\ Unmarked(j) => Unmarked(j)'
      BY <1>8, <2>1, <2>2, MarkedStep DEF ApplyCommit
    <2>4. intents' = intents /\ orphan' = orphan
      BY <1>8 DEF ApplyCommit
    <2>5. /\ worker' \in [Workers -> Process]
          /\ worker'[w].pc = "verify" /\ worker'[w].receipt = i
          /\ \A v \in Workers : v # w => worker'[v].pc = "down"
      <3>1. /\ Goto(w, "verify", i, Len(commits) + 1) /\ i \in Nat
            /\ Len(commits) + 1 \in Nat
        BY <1>1, <1>2, <1>8, <2>1, <2>2 DEF ApplyCommit, HistoryInv
      <3> QED
        BY <1>1, <2>2, <3>1 DEF Goto, WorkerInv, Process
    <2>6. orphan # None => Unmarked(orphan.receipt)'
      BY <1>1, <2>2, <2>3, <2>4 DEF WorkerInv, Unmarked
    <2>7. WorkerInv'
      BY <1>1, <2>2, <2>4, <2>5, <2>6 DEF WorkerInv
    <2> QED
      BY <2>3, <2>7 DEF FastInv
  <1>9. CASE ApplyRefused(w) \/ ApplyFailed(w) \/ Verify(w)
    <2>1. PICK i : i = worker[w].receipt
      OBVIOUS
    <2>2. /\ worker[w].pc \in {"apply", "verify"} /\ Goto(w, "idle", 0, 0)
          /\ i \in DOMAIN intents /\ UNCHANGED <<clientVars, gitVars, orphan>>
      BY <1>1, <1>9, <2>1 DEF ApplyRefused, ApplyFailed, Verify, At, WorkerInv
    <2>3. {"MUTATION_OUTCOME_UNKNOWN"} \subseteq Codes
      BY DEF Codes
    <2>4. /\ intents[i].phase = "running"
          /\ \E S \in SUBSET {"completed-local", "ambiguous", "rejected"} : Settlement(i, S)
      <3>1. CASE SettleFromMarker(i, RecordAmbiguity(i, "MUTATION_OUTCOME_UNKNOWN"))
        BY <1>1, <2>2, <2>3, <3>1, MarkerSettles
      <3>2. CASE Verified(i, worker[w].oid) /\ RecordLocalCommit(i, worker[w].oid)
        BY <1>1, <2>2, <3>2, LocalCommitSettles
      <3>3. CASE worker[w].pc = "apply" /\ SettleFromMarker(i, RecordRejection(i))
        <4>1. Unmarked(i)
          BY <1>1, <2>1, <3>3 DEF WorkerInv
        <4> QED
          BY <1>1, <2>2, <3>3, <4>1, RefusalSettles
      <3> QED
        BY <1>9, <2>1, <3>1, <3>2, <3>3 DEF ApplyRefused, ApplyFailed, Verify, At
    <2> QED
      BY <2>1, <2>2, <2>4, WorkerSettles
  <1> QED
    BY <1>4, <1>5, <1>6, <1>7, <1>8, <1>9 DEF WorkerStep

-----------------------------------------------------------------------------
(* Clients, crashes and the rest of the world.                             *)

\* A step that touches neither rows nor Git nor workers.
LEMMA QuietStep ==
  ASSUME FastInv, UNCHANGED <<intents, gitVars, pubVars>>, ClientInv', WorkerInv'
  PROVE  FastInv'
  <1>1. HistoryInv /\ RowInv /\ PublisherInv
    BY DEF FastInv
  <1>2. HistoryInv' /\ Grown /\ Advanced /\ commits' = commits
    BY <1>1, GitFrame
  <1>3. 0 \in 0..Len(intents)
    BY <1>1 DEF RowInv
  <1>4. RowInv' /\ RowsKeep
    BY <1>1, <1>2, <1>3, MarkedCommit
  <1> QED
    BY <1>1, <1>2, <1>4, PublisherFrame DEF FastInv

\* enqueue and its answer: the row the client is told of is its own.
LEMMA EnqueueStep ==
  ASSUME FastInv, NEW c \in Clients, clients[c].pc # "idle",
         Insert(clients[c].key, clients[c].req),
         \/ clients' = clients
         \/ clients' = [clients EXCEPT ![c].pc = Answer(c)],
         \/ inbox' = inbox
         \/ inbox # <<>> /\ inbox' = Tail(inbox),
         UNCHANGED <<worker, gitVars, orphan, pubVars>>
  PROVE  FastInv'
  <1>1. HistoryInv /\ RowInv /\ ClientInv /\ WorkerInv /\ PublisherInv
    BY DEF FastInv
  <1>2. clients[c].key \in Keys /\ clients[c].req \in RequestType
    BY <1>1 DEF ClientInv
  <1>3. /\ HistoryInv' /\ Grown /\ Advanced /\ commits' = commits
        /\ \A i : Unmarked(i) => Unmarked(i)'
    BY <1>1, GitFrame
  <1>4. /\ RowInv' /\ RowsKeep
        /\ \A i \in DOMAIN intents : i \in DOMAIN intents' /\ intents'[i] = intents[i]
        /\ \E i \in DOMAIN intents' : intents'[i].key = clients[c].key
        /\ \A i \in DOMAIN intents' : i \in DOMAIN intents \/ intents'[i].req = clients[c].req
    BY <1>1, <1>2, <1>3, RowInsert
  <1>5. RowsBound /\ HoldersKeep
    BY <1>3, <1>4 DEF RowsBound, HoldersKeep
  <1>6. WorkerInv' /\ PublisherInv'
    BY <1>1, <1>3, <1>4, <1>5, WorkerFrame, PublisherFrame
  <1>7. /\ clients' \in [Clients -> Client]
        /\ \A d \in Clients : d # c => clients'[d] = clients[d]
        /\ clients'[c].key = clients[c].key /\ clients'[c].req = clients[c].req
        /\ clients'[c].pc \in {clients[c].pc, Answer(c)} \ {"idle"}
    <2>1. Answer(c) \in {"acked", "refused"} /\ clients[c] \in Client
      BY <1>1 DEF Answer, ClientInv
    <2> QED
      BY <1>1, <2>1 DEF ClientInv, Client
  <1>8. AnswersDurable'
    <2>1. CASE clients'[c].pc = "acked" => clients[c].pc = "acked"
      BY <1>1, <1>5, <1>7, <2>1, AnswersKept DEF ClientInv
    <2>2. CASE clients'[c].pc = "acked" /\ Answer(c) = "acked"
      <3>1. \A i \in RowsOf(clients[c].key) : intents[i].req = clients[c].req
        BY <2>2 DEF Answer, Conflicting
      <3>2. \E i \in DOMAIN intents' :
               intents'[i].key = clients[c].key /\ intents'[i].req = clients[c].req
        BY <1>4, <3>1 DEF RowsOf
      <3>3. ASSUME NEW d \in Clients, clients'[d].pc = "acked"
            PROVE  \E i \in DOMAIN intents' :
                     intents'[i].key = clients'[d].key /\ intents'[i].req = clients'[d].req
        <4>1. CASE d = c
          BY <1>7, <3>2, <4>1
        <4>2. CASE d # c
          <5>1. PICK i \in RowsOf(clients[d].key) : intents[i].req = clients[d].req
            BY <1>1, <1>7, <3>3, <4>2 DEF ClientInv, AnswersDurable
          <5> QED
            BY <1>4, <1>7, <4>2, <5>1 DEF RowsOf
        <4> QED
          BY <4>1, <4>2
      <3> QED
        BY <3>3 DEF AnswersDurable, RowsOf
    <2> QED
      BY <1>7, <2>1, <2>2
  <1>9. /\ inbox' \in Seq(Clients)
        /\ \A x \in DOMAIN inbox' : \E y \in DOMAIN inbox : inbox'[x] = inbox[y]
    BY <1>1 DEF ClientInv
  <1>10. \A x \in DOMAIN inbox' : clients'[inbox'[x]].pc # "idle"
    <2>1. \A y \in DOMAIN inbox : inbox[y] \in Clients /\ clients[inbox[y]].pc # "idle"
      BY <1>1 DEF ClientInv
    <2> QED
      BY <1>7, <1>9, <2>1
  <1>11. \A d \in Clients : clients'[d].pc # "idle" =>
            clients'[d].key \in Keys /\ clients'[d].req \in RequestType
    BY <1>1, <1>2, <1>7 DEF ClientInv
  <1>12. ClientInv'
    BY <1>7, <1>8, <1>9, <1>10, <1>11 DEF ClientInv
  <1> QED
    BY <1>3, <1>4, <1>6, <1>12 DEF FastInv

\* Nothing that a worker step needs changed.
LEMMA WorkerStays ==
  ASSUME WorkerInv, UNCHANGED <<intents, worker, gitVars, orphan>>
  PROVE  WorkerInv'
  BY WorkerFrame DEF HoldersKeep, gitVars, Unmarked

\* A step of a client or of the service's writer keeps the invariant.
LEMMA ClientSteps ==
  ASSUME FastInv, UNCHANGED pubVars,
         \/ \E ask \in Asks : Submit(ask[1], ask[2], ask[3])
         \/ WriterStep
         \/ \E c \in Clients : ClientTimeout(c) \/ DirectStep(c)
  PROVE  FastInv'
  <1>1. ClientInv /\ WorkerInv
    BY DEF FastInv
  <1>2. ASSUME NEW ask \in Asks, Submit(ask[1], ask[2], ask[3])
        PROVE  FastInv'
    <2>1. PICK c \in Clients, k \in Keys, q \in RequestType :
             c = ask[1] /\ k = ask[2] /\ q = ask[3]
      BY FastAssumption
    <2> DEFINE p == IF Serving THEN "socket" ELSE "direct"
    <2>2. /\ clients' = [clients EXCEPT ![c] = [pc |-> p, key |-> k, req |-> q]]
          /\ p \in {"socket", "direct"}
          /\ clients[c].pc = "idle"
          /\ inbox' \in {inbox, Append(inbox, c)}
          /\ UNCHANGED <<intents, worker, gitVars, orphan>>
      BY <1>2, <2>1 DEF Submit
    <2> HIDE DEF p
    <2>3. /\ clients' \in [Clients -> Client]
          /\ clients'[c].pc = p /\ clients'[c].key = k /\ clients'[c].req = q
          /\ \A d \in Clients : d # c => clients'[d] = clients[d]
      BY <1>1, <2>2 DEF ClientInv, Client
    <2>4. RowsBound
      BY <2>2 DEF RowsBound
    <2>5. AnswersDurable'
      BY <1>1, <2>2, <2>3, <2>4, AnswersKept DEF ClientInv
    <2>6. /\ inbox' \in Seq(Clients)
          /\ \A x \in DOMAIN inbox' : inbox'[x] = c \/ \E y \in DOMAIN inbox : inbox'[x] = inbox[y]
      BY <1>1, <2>2 DEF ClientInv
    <2>7. \A x \in DOMAIN inbox' : clients'[inbox'[x]].pc # "idle"
      <3>1. \A y \in DOMAIN inbox : inbox[y] \in Clients /\ clients[inbox[y]].pc # "idle"
        BY <1>1 DEF ClientInv
      <3> QED
        BY <2>2, <2>3, <2>6, <3>1
    <2>8. ClientInv'
      BY <1>1, <2>3, <2>5, <2>6, <2>7 DEF ClientInv
    <2> QED
      BY <1>1, <2>2, <2>8, WorkerStays, QuietStep
  <1>3. CASE WriterStep
    <2>1. PICK c : c = Head(inbox)
      OBVIOUS
    <2>2. /\ inbox # <<>> /\ inbox' = Tail(inbox)
          /\ Insert(clients[c].key, clients[c].req)
          /\ clients' = clients \/ clients' = [clients EXCEPT ![c].pc = Answer(c)]
          /\ UNCHANGED <<worker, gitVars, orphan>>
      BY <1>3, <2>1 DEF WriterStep
    <2>3. c \in Clients /\ clients[c].pc # "idle"
      <3>1. 1 \in DOMAIN inbox /\ c = inbox[1]
        BY <1>1, <2>1, <2>2 DEF ClientInv
      <3> QED
        BY <1>1, <3>1 DEF ClientInv
    <2> QED
      BY <2>2, <2>3, EnqueueStep
  <1>4. ASSUME NEW c \in Clients, ClientTimeout(c)
        PROVE  FastInv'
    <2>1. /\ clients' = [clients EXCEPT ![c].pc = "direct"]
          /\ clients[c].pc = "socket" /\ clients[c] \in Client
          /\ UNCHANGED <<intents, inbox, worker, gitVars, orphan>>
      BY <1>1, <1>4 DEF ClientTimeout, ClientInv
    <2>2. /\ clients' \in [Clients -> Client]
          /\ \A d \in Clients : d # c => clients'[d] = clients[d]
          /\ clients'[c].key = clients[c].key /\ clients'[c].req = clients[c].req
          /\ clients'[c].pc = "direct"
      BY <1>1, <2>1 DEF ClientInv, Client
    <2>3. RowsBound
      BY <2>1 DEF RowsBound
    <2>4. AnswersDurable'
      BY <1>1, <2>2, <2>3, AnswersKept DEF ClientInv
    <2>5. \A x \in DOMAIN inbox : clients'[inbox[x]].pc # "idle"
      BY <1>1, <2>2 DEF ClientInv
    <2>6. ClientInv'
      BY <1>1, <2>1, <2>2, <2>4, <2>5 DEF ClientInv
    <2> QED
      BY <1>1, <2>1, <2>6, WorkerStays, QuietStep
  <1>5. ASSUME NEW c \in Clients, DirectStep(c)
        PROVE  FastInv'
    BY <1>5, EnqueueStep DEF DirectStep
  <1> QED
    BY <1>2, <1>3, <1>4, <1>5

\* A crash of the service, an orphan that lands, a strict command, another
\* clone and the operator keep the invariant.
LEMMA WorldSteps ==
  ASSUME FastInv, UNCHANGED pubVars,
         \/ \E w \in Workers : Crash(w)
         \/ OrphanLands \/ StrictCommand \/ OtherClone \/ OperatorReset
  PROVE  FastInv'
  <1>1. HistoryInv /\ RowInv /\ ClientInv /\ WorkerInv /\ PublisherInv
    BY DEF FastInv
  <1>2. intents \in Seq(Row) /\ DOMAIN intents = 1..Len(intents) /\ Len(intents) \in Nat
    BY <1>1 DEF RowInv
  <1>3. ASSUME NEW w \in Workers, Crash(w)
        PROVE  FastInv'
    <2>1. /\ UNCHANGED <<intents, gitVars>> /\ inbox' = <<>>
          /\ commits' = commits /\ local \in DOMAIN commits /\ local \in Nat
      BY <1>1, <1>3 DEF Crash, gitVars, HistoryInv
    <2>2. ClientInv'
      <3>1. ASSUME NEW c \in Clients
            PROVE  /\ clients'[c] \in Client
                   /\ clients'[c].key = clients[c].key /\ clients'[c].req = clients[c].req
                   /\ clients'[c].pc = "acked" => clients[c].pc = "acked"
                   /\ clients'[c].pc # "idle" => clients[c].pc # "idle"
        <4>1. \/ clients'[c] = clients[c]
              \/ clients'[c] = [clients[c] EXCEPT !.pc = "direct"] /\ clients[c].pc = "socket"
          BY <1>3 DEF Crash
        <4>2. clients[c] \in Client
          BY <1>1 DEF ClientInv
        <4> QED
          BY <4>1, <4>2 DEF Client
      <3>2. clients' \in [Clients -> Client]
        BY <1>3, <3>1 DEF Crash
      <3>3. RowsBound
        BY <2>1 DEF RowsBound
      <3>4. AnswersDurable'
        BY <1>1, <3>1, <3>3, AnswersKept DEF ClientInv
      <3> QED
        BY <1>1, <2>1, <3>1, <3>2, <3>4 DEF ClientInv
    <2>3. WorkerInv'
      <3>1. /\ worker' \in [Workers -> Process]
            /\ \A v \in Workers : worker'[v].pc = "down"
        BY <1>1, <1>3 DEF Crash, At, Goto, WorkerInv, Process
      <3>2. \/ orphan' = orphan
            \/ /\ worker[w].pc = "apply"
               /\ orphan' = [receipt |-> worker[w].receipt, base |-> local]
        BY <1>3 DEF Crash, At
      <3>3. ASSUME orphan' # None
            PROVE  /\ orphan' \in [receipt : Nat, base : Nat]
                   /\ orphan'.receipt \in DOMAIN intents
                   /\ intents[orphan'.receipt].phase \in {"running", "ambiguous"}
                   /\ Unmarked(orphan'.receipt)
        <4>1. CASE orphan' = orphan
          BY <1>1, <3>3, <4>1 DEF WorkerInv
        <4>2. CASE /\ worker[w].pc = "apply"
                   /\ orphan' = [receipt |-> worker[w].receipt, base |-> local]
          <5>1. /\ worker[w].receipt \in DOMAIN intents /\ worker[w].receipt \in Nat
                /\ intents[worker[w].receipt].phase = "running"
                /\ Unmarked(worker[w].receipt)
            BY <1>1, <1>2, <4>2 DEF WorkerInv
          <5> QED
            BY <2>1, <4>2, <5>1
        <4> QED
          BY <3>2, <4>1, <4>2
      <3> QED
        BY <2>1, <3>1, <3>3 DEF WorkerInv, Unmarked
    <2> QED
      BY <2>1, <2>2, <2>3, QuietStep
  <1>4. CASE OrphanLands
    <2>1. PICK i : i = orphan.receipt
      OBVIOUS
    <2>2. /\ orphan # None /\ i \in DOMAIN intents
          /\ intents[i].phase \in {"running", "ambiguous"} /\ Unmarked(i)
          /\ CommitMarked(i) /\ orphan' = None
          /\ UNCHANGED <<intents, clientVars, worker>>
      BY <1>1, <1>4, <2>1 DEF OrphanLands, WorkerInv
    <2>3. /\ HistoryInv' /\ RowInv' /\ ClientInv' /\ PublisherInv'
          /\ \A j \in DOMAIN intents : j # i /\ Unmarked(j) => Unmarked(j)'
      BY <2>2, MarkedStep
    <2>4. \A w \in Workers : worker[w].pc = "apply" => Unmarked(worker[w].receipt)'
      <3> SUFFICES ASSUME NEW w \in Workers, worker[w].pc = "apply"
                   PROVE  \A n \in DOMAIN commits' : commits'[n].marker # worker[w].receipt
        BY <2>2 DEF Unmarked
      <3>1. /\ worker[w].receipt \in DOMAIN intents /\ worker[w].receipt # i
            /\ Unmarked(worker[w].receipt)
        BY <1>1, <2>1, <2>2 DEF WorkerInv
      <3> QED
        BY <2>3, <3>1 DEF Unmarked
    <2>5. WorkerInv'
      BY <1>1, <2>2, <2>4 DEF WorkerInv
    <2> QED
      BY <2>3, <2>5 DEF FastInv
  <1>5. CASE StrictCommand \/ OtherClone
    <2>1. \E h \in DOMAIN commits, t \in Task :
             /\ commits' = Append(commits, NewCommit(h, 0, t))
             /\ local' \in {local, Len(commits) + 1} /\ kept' = kept
             /\ remote' = Len(commits) + 1 /\ remote \in commits[h].anc
      <3>1. \A task \in Task : Touched(task) \in Task
        BY DEF Touched, Task
      <3>2. CASE StrictCommand
        <4>1. Base \in DOMAIN commits /\ remote \in commits[Base].anc /\ commits[Base].task \in Task
          BY <1>1, <3>2, BaseContainsRemote DEF StrictCommand
        <4> QED
          BY <3>1, <3>2, <4>1 DEF StrictCommand
      <3>3. CASE OtherClone
        <4>1. remote \in DOMAIN commits /\ remote \in commits[remote].anc /\ commits[remote] \in Commit
          BY <1>1 DEF HistoryInv
        <4>2. commits[remote].task \in Task
          BY <4>1 DEF Commit
        <4> QED
          BY <3>1, <3>3, <4>1, <4>2 DEF OtherClone
      <3> QED
        BY <1>5, <3>2, <3>3
    <2>2. UNCHANGED <<intents, clientVars, worker, orphan>>
      BY <1>5 DEF StrictCommand, OtherClone
    <2>3. 0 \in 0..Len(intents)
      BY <1>2
    <2>4. /\ HistoryInv' /\ RowInv' /\ ClientInv' /\ PublisherInv'
          /\ \A i \in DOMAIN intents : i # 0 /\ Unmarked(i) => Unmarked(i)'
      BY <2>1, <2>2, <2>3, CommitStep
    <2>5. HoldersKeep
      BY <1>2, <2>2, <2>4 DEF HoldersKeep
    <2> QED
      BY <1>1, <2>2, <2>4, <2>5, WorkerFrame DEF FastInv
  <1>6. CASE OperatorReset
    <2>1. /\ UNCHANGED <<intents, clientVars, worker, orphan>>
          /\ commits' = commits /\ remote' = remote
          /\ local' = remote /\ kept' \subseteq kept \cup {local}
      BY <1>6 DEF OperatorReset
    <2>2. HistoryInv' /\ Grown /\ Advanced
      BY <1>1, <2>1 DEF HistoryInv, Grown, Advanced, ChildOf
    <2>3. 0 \in 0..Len(intents)
      BY <1>2
    <2>4. RowInv' /\ RowsKeep
      BY <1>1, <2>1, <2>2, <2>3, MarkedCommit
    <2>5. HoldersKeep /\ RowsBound
      BY <2>1 DEF HoldersKeep, RowsBound, Unmarked
    <2> QED
      BY <1>1, <2>1, <2>2, <2>4, <2>5, WorkerFrame, ClientFrame, PublisherFrame DEF FastInv
  <1> QED
    BY <1>3, <1>4, <1>5, <1>6

-----------------------------------------------------------------------------
(* The publisher.                                                          *)

\* Jobs keep what they bind, and one that becomes published reached the remote.
JobsKeep ==
    /\ jobs' \in Seq(Job)
    /\ \A j \in DOMAIN jobs : /\ j \in DOMAIN jobs'
                              /\ jobs'[j].candidate = jobs[j].candidate
    /\ \A j \in DOMAIN jobs' :
          /\ {jobs'[j].candidate, jobs'[j].expected} \subseteq DOMAIN commits
          /\ jobs'[j].phase = "published" => IsAncestor(jobs'[j].candidate, remote)

\* What the publisher holds after its step is current.
Captures ==
    /\ publisher' \in Publisher
    /\ \A i \in publisher'.pending :
          i \in DOMAIN intents' /\ intents'[i].phase = "completed-local"
    /\ publisher'.pc # "idle" => publisher'.head \in DOMAIN commits
    /\ publisher'.pc \notin {"idle", "observe"} => IsAncestor(publisher'.seen, remote)
    /\ publisher'.pc \in {"claim", "push"} => IsAncestor(publisher'.seen, publisher'.head)
    /\ publisher'.pc \in {"claim", "push", "confirm", "timedout"} =>
          publisher'.job \in DOMAIN jobs' /\ jobs'[publisher'.job].candidate = publisher'.head

\* A step of the publisher that leaves the branches alone.
LEMMA PublisherMove ==
  ASSUME FastInv, UNCHANGED <<world, remote>>, RowInv', RowsBound, HoldersKeep,
         \A i \in DOMAIN intents' :
            intents'[i].phase = "published-remote" => IsAncestor(intents'[i].oid, remote),
         JobsKeep, Captures,
         \/ inflight' = inflight
         \/ /\ publisher.pc = "push"
            /\ inflight' = [candidate |-> publisher.head, expected |-> publisher.seen]
  PROVE  FastInv'
  <1>1. HistoryInv /\ RowInv /\ ClientInv /\ WorkerInv /\ PublisherInv
    BY DEF FastInv
  <1>2. /\ UNCHANGED clientVars /\ worker' = worker /\ commits' = commits /\ local' = local
        /\ kept' = kept /\ orphan' = orphan /\ remote' = remote
    BY DEF world
  <1>3. HistoryInv'
    BY <1>1, <1>2 DEF HistoryInv, ChildOf
  <1>4. ClientInv' /\ WorkerInv'
    BY <1>1, <1>2, ClientFrame, WorkerFrame
  <1>5. ASSUME inflight' # None
        PROVE  /\ inflight' \in [candidate : DOMAIN commits, expected : DOMAIN commits]
               /\ inflight'.expected \in commits[inflight'.candidate].anc
    <2>1. CASE inflight' = inflight
      BY <1>1, <1>5, <2>1 DEF PublisherInv, IsAncestor
    <2>2. CASE /\ publisher.pc = "push"
               /\ inflight' = [candidate |-> publisher.head, expected |-> publisher.seen]
      <3>1. publisher.head \in DOMAIN commits /\ publisher.seen \in commits[publisher.head].anc
        BY <1>1, <2>2 DEF PublisherInv, IsAncestor
      <3>2. publisher.seen \in DOMAIN commits
        BY <1>1, <3>1 DEF HistoryInv
      <3> QED
        BY <2>2, <3>1, <3>2
    <2> QED
      BY <2>1, <2>2
  <1>6. PublishedIsOnRemote'
    BY <1>2 DEF PublishedIsOnRemote, JobsKeep, IsAncestor
  <1>7. PublisherInv'
    BY <1>2, <1>5, <1>6 DEF PublisherInv, JobsKeep, Captures, IsAncestor
  <1> QED
    BY <1>3, <1>4, <1>7 DEF FastInv

\* A step that also leaves the rows alone.
LEMMA PublisherQuiet ==
  ASSUME FastInv, UNCHANGED <<world, remote, intents>>, JobsKeep, Captures,
         \/ inflight' = inflight
         \/ /\ publisher.pc = "push"
            /\ inflight' = [candidate |-> publisher.head, expected |-> publisher.seen]
  PROVE  FastInv'
  <1>1. HistoryInv /\ RowInv /\ PublisherInv /\ commits' = commits /\ intents' = intents
    BY DEF FastInv, world
  <1>2. Grown /\ 0 \in 0..Len(intents)
    BY <1>1 DEF Grown, RowInv
  <1>3. RowInv'
    BY <1>1, <1>2, MarkedCommit
  <1>4. RowsBound /\ HoldersKeep
    BY <1>1 DEF RowsBound, HoldersKeep, Unmarked
  <1>5. \A i \in DOMAIN intents' :
           intents'[i].phase = "published-remote" => IsAncestor(intents'[i].oid, remote)
    BY <1>1 DEF PublisherInv, PublishedIsOnRemote
  <1> QED
    BY <1>3, <1>4, <1>5, PublisherMove

\* A publisher that ends, in any way, holds nothing.
LEMMA IdleCaptures ==
  ASSUME publisher' = Idle
  PROVE  Captures
  BY DEF Captures, Idle, Publisher

\* Jobs nobody touches.
LEMMA JobsStay ==
  ASSUME PublisherInv, jobs' = jobs
  PROVE  JobsKeep
  BY DEF PublisherInv, JobsKeep, PublishedIsOnRemote

\* What recover_publication and resolve_superseded_publication make of a job.
LEMMA SettledJob ==
  ASSUME NEW job \in Job, NEW seen,
         NEW new \in {job, Recovered(job, seen), Superseded(job, seen)}
  PROVE  /\ new \in Job /\ new.candidate = job.candidate /\ new.expected = job.expected
         /\ new.phase = "published" => job.phase = "published" \/ seen = job.candidate
  <1>1. Recovered(job, seen) \in Job /\ Superseded(job, seen) \in Job
    BY DEF Recovered, Superseded, Job, Codes
  <1>2. \A r \in {Recovered(job, seen), Superseded(job, seen)} :
           /\ r.candidate = job.candidate /\ r.expected = job.expected
           /\ r.phase = "published" => seen = job.candidate
    BY DEF Recovered, Superseded, Job
  <1> QED
    BY <1>1, <1>2

\* One job changes its phase, its lease or its code.
LEMMA JobChange ==
  ASSUME PublisherInv, NEW j \in DOMAIN jobs, NEW new \in Job,
         new.candidate = jobs[j].candidate, new.expected = jobs[j].expected,
         new.phase = "published" =>
            jobs[j].phase = "published" \/ IsAncestor(jobs[j].candidate, remote),
         jobs' = [jobs EXCEPT ![j] = new]
  PROVE  JobsKeep
  <1>1. jobs \in Seq(Job)
    BY DEF PublisherInv
  <1>2. /\ jobs' \in Seq(Job) /\ DOMAIN jobs' = DOMAIN jobs /\ jobs'[j] = new
        /\ \A l \in DOMAIN jobs : l # j => jobs'[l] = jobs[l]
    BY <1>1
  <1>3. \A l \in DOMAIN jobs :
           /\ jobs'[l].candidate = jobs[l].candidate
           /\ jobs'[l].expected = jobs[l].expected
           /\ jobs'[l].phase = "published" =>
                 jobs[l].phase = "published" \/ IsAncestor(jobs[l].candidate, remote)
    BY <1>2
  <1>4. \A l \in DOMAIN jobs :
           /\ {jobs[l].candidate, jobs[l].expected} \subseteq DOMAIN commits
           /\ jobs[l].phase = "published" => IsAncestor(jobs[l].candidate, remote)
    BY DEF PublisherInv, PublishedIsOnRemote
  <1> QED
    BY <1>2, <1>3, <1>4 DEF JobsKeep

\* finish_publication, or the exception of an expired lease.
LEMMA FinishJobKeeps ==
  ASSUME HistoryInv, PublisherInv, publisher.pc \in {"confirm", "timedout"},
         NEW ph \in {"published", "rejected", "ambiguous"}, NEW code \in Codes, NEW then,
         ph = "published" => remote = publisher.head,
         FinishJob(ph, code, then)
  PROVE  /\ JobsKeep
         /\ publisher' = IF jobs[publisher.job].live THEN then ELSE Idle
  <1>1. CASE jobs[publisher.job].live
    <2> DEFINE j == publisher.job
               new == [jobs[j] EXCEPT !.phase = ph, !.code = code, !.live = FALSE]
    <2>1. j \in DOMAIN jobs /\ jobs[j].candidate = publisher.head /\ jobs[j] \in Job
      BY DEF PublisherInv
    <2>2. /\ new \in Job /\ new.candidate = jobs[j].candidate
          /\ new.expected = jobs[j].expected /\ new.phase = ph
      BY <2>1 DEF Job
    <2>3. jobs' = [jobs EXCEPT ![j] = new] /\ publisher' = then
      BY <1>1 DEF FinishJob
    <2>4. ph = "published" => IsAncestor(jobs[j].candidate, remote)
      BY <2>1 DEF HistoryInv, IsAncestor
    <2> HIDE DEF new, j
    <2>5. JobsKeep
      BY <2>1, <2>2, <2>3, <2>4, JobChange
    <2> QED
      BY <1>1, <2>3, <2>5
  <1>2. CASE ~ jobs[publisher.job].live
    <2>1. jobs' = jobs /\ publisher' = Idle
      BY <1>2 DEF FinishJob
    <2> QED
      BY <1>2, <2>1, JobsStay
  <1> QED
    BY <1>1, <1>2

\* Only an exact observation of the candidate is called published.
LEMMA ObservationIs ==
  /\ Observation[1] \in {"published", "rejected", "ambiguous"} /\ Observation[2] \in Codes
  /\ Observation[1] = "published" => remote = publisher.head
  BY DEF Observation, Codes

\* Failures are recorded, or nothing is, and the publisher ends.
LEMMA FailureStep ==
  ASSUME FastInv, UNCHANGED <<world, remote, inflight>>, JobsKeep, publisher' = Idle,
         NEW code \in Codes, Failures(code) \/ intents' = intents
  PROVE  FastInv'
  <1>1. RowInv /\ PublisherInv /\ commits' = commits
    BY DEF FastInv, world
  <1>2. CASE intents' = intents
    BY <1>2, IdleCaptures, PublisherQuiet
  <1>3. CASE Failures(code)
    <2>1. /\ RowInv' /\ DOMAIN intents' = DOMAIN intents
          /\ \A i \in DOMAIN intents :
               /\ intents'[i].key = intents[i].key /\ intents'[i].req = intents[i].req
               /\ intents'[i].phase = intents[i].phase /\ intents'[i].oid = intents[i].oid
      BY <1>1, <1>3, RowFailures
    <2>2. RowsBound /\ HoldersKeep
      BY <1>1, <2>1 DEF RowsBound, HoldersKeep, Unmarked
    <2>3. \A i \in DOMAIN intents' :
             intents'[i].phase = "published-remote" => IsAncestor(intents'[i].oid, remote)
      BY <1>1, <2>1 DEF PublisherInv, PublishedIsOnRemote
    <2> QED
      BY <2>1, <2>2, <2>3, IdleCaptures, PublisherMove
  <1> QED
    BY <1>2, <1>3

\* The steps up to the admission of a job.
LEMMA SelectionSteps ==
  ASSUME FastInv, Select \/ Observe \/ ObserveUnknown \/ Sweep \/ NothingToPush
  PROVE  FastInv'
  <1>1. HistoryInv /\ RowInv /\ PublisherInv /\ publisher \in Publisher
    BY DEF FastInv, PublisherInv
  <1>2. CASE Select
    <2>1. /\ publisher' = [publisher EXCEPT !.pc = "observe", !.head = local, !.pending = Pending]
          /\ UNCHANGED <<fastVars, jobs, inflight>>
      BY <1>2 DEF Select
    <2>2. local \in DOMAIN commits /\ local \in Nat /\ Pending \in SUBSET Nat
      BY <1>1 DEF HistoryInv, Pending, RowInv
    <2>3. /\ publisher' \in Publisher /\ publisher'.pc = "observe"
          /\ publisher'.head = local /\ publisher'.pending = Pending
      BY <1>1, <2>1, <2>2 DEF Publisher
    <2>4. Captures
      BY <2>1, <2>2, <2>3 DEF Captures, Pending, fastVars
    <2> QED
      BY <1>1, <2>1, <2>4, JobsStay, PublisherQuiet DEF fastVars, world, clientVars
  <1>3. CASE Observe
    <2>1. /\ publisher.pc = "observe"
          /\ publisher' = [publisher EXCEPT !.pc = "recover", !.seen = remote]
          /\ UNCHANGED <<fastVars, jobs, inflight>>
      BY <1>3 DEF Observe, Step
    <2>2. remote \in DOMAIN commits /\ remote \in Nat /\ IsAncestor(remote, remote)
      BY <1>1 DEF HistoryInv, IsAncestor
    <2>3. /\ publisher' \in Publisher /\ publisher'.pc = "recover" /\ publisher'.seen = remote
          /\ publisher'.head = publisher.head /\ publisher'.pending = publisher.pending
      BY <1>1, <2>1, <2>2 DEF Publisher
    <2>4. Captures
      BY <1>1, <2>1, <2>2, <2>3 DEF Captures, PublisherInv, fastVars
    <2> QED
      BY <1>1, <2>1, <2>4, JobsStay, PublisherQuiet DEF fastVars, world, clientVars
  <1>4. CASE ObserveUnknown
    <2>1. "REMOTE_UNKNOWN" \in Codes
      BY DEF Codes
    <2> QED
      BY <1>1, <1>4, <2>1, JobsStay, FailureStep DEF ObserveUnknown
  <1>5. CASE Sweep
    <2>1. /\ publisher.pc = "recover"
          /\ publisher' = [publisher EXCEPT !.pc = "admit"]
          /\ UNCHANGED <<fastVars, inflight>>
      BY <1>5 DEF Sweep, Step
    <2>2. /\ publisher' \in Publisher /\ publisher'.pc = "admit"
          /\ publisher'.seen = publisher.seen
          /\ publisher'.head = publisher.head /\ publisher'.pending = publisher.pending
      BY <1>1, <2>1 DEF Publisher
    <2>3. Captures
      BY <1>1, <2>1, <2>2 DEF Captures, PublisherInv, fastVars
    <2>4. /\ DOMAIN jobs' = DOMAIN jobs
          /\ \A j \in DOMAIN jobs :
                jobs'[j] \in {jobs[j], Recovered(jobs[j], publisher.seen),
                              Superseded(jobs[j], publisher.seen)}
      BY <1>5 DEF Sweep
    <2>5. jobs \in Seq(Job) /\ DOMAIN jobs = 1..Len(jobs) /\ Len(jobs) \in Nat
      BY <1>1 DEF PublisherInv
    <2>6. \A j \in DOMAIN jobs :
             /\ jobs'[j] \in Job /\ jobs'[j].candidate = jobs[j].candidate
             /\ jobs'[j].expected = jobs[j].expected
             /\ jobs'[j].phase = "published" =>
                   jobs[j].phase = "published" \/ publisher.seen = jobs[j].candidate
      BY <2>4, <2>5, SettledJob
    <2>7. jobs' \in Seq(Job)
      <3>1. jobs' = [j \in 1..Len(jobs) |-> jobs'[j]]
        BY <1>5, <2>5 DEF Sweep
      <3> QED
        BY <2>4, <2>5, <2>6, <3>1
    <2>8. JobsKeep
      BY <1>1, <2>1, <2>4, <2>6, <2>7 DEF JobsKeep, PublisherInv, PublishedIsOnRemote
    <2> QED
      BY <2>1, <2>3, <2>8, PublisherQuiet DEF fastVars, world, clientVars
  <1>6. CASE NothingToPush
    <2>1. /\ publisher.pc = "admit"
          /\ publisher' = [publisher EXCEPT !.pc = "finish"]
          /\ UNCHANGED <<fastVars, jobs, inflight>>
      BY <1>6 DEF NothingToPush, Step
    <2>2. /\ publisher' \in Publisher /\ publisher'.pc = "finish"
          /\ publisher'.seen = publisher.seen
          /\ publisher'.head = publisher.head /\ publisher'.pending = publisher.pending
      BY <1>1, <2>1 DEF Publisher
    <2>3. Captures
      BY <1>1, <2>1, <2>2 DEF Captures, PublisherInv, fastVars
    <2> QED
      BY <1>1, <2>1, <2>3, JobsStay, PublisherQuiet DEF fastVars, world, clientVars
  <1> QED
    BY <1>2, <1>3, <1>4, <1>5, <1>6

\* The admission and the claim of a job: its candidate descends from the
\* remote the publisher observed.
LEMMA AdmissionSteps ==
  ASSUME FastInv, AdmitNew \/ AdmitKnown \/ AdmitConflict \/ Claim
  PROVE  FastInv'
  <1>1. HistoryInv /\ RowInv /\ PublisherInv /\ publisher \in Publisher
    BY DEF FastInv, PublisherInv
  <1>2. jobs \in Seq(Job) /\ DOMAIN jobs = 1..Len(jobs) /\ Len(jobs) \in Nat
    BY <1>1 DEF PublisherInv
  <1>3. /\ UNCHANGED fastVars /\ inflight' = inflight
        /\ publisher.head \in DOMAIN commits /\ IsAncestor(publisher.seen, remote)
        /\ publisher.seen \in DOMAIN commits
    <2>1. UNCHANGED fastVars /\ inflight' = inflight /\ publisher.pc \in {"admit", "claim"}
      BY DEF AdmitNew, AdmitKnown, AdmitConflict, Claim, Step
    <2>2. publisher.head \in DOMAIN commits /\ IsAncestor(publisher.seen, remote)
      BY <1>1, <2>1 DEF PublisherInv
    <2> QED
      BY <1>1, <2>1, <2>2 DEF HistoryInv, IsAncestor
  <1>4. UNCHANGED <<world, remote, intents>>
    BY <1>3 DEF fastVars, world, clientVars
  <1>5. CASE AdmitNew
    <2> DEFINE new == [candidate |-> publisher.head, expected |-> publisher.seen,
                       phase |-> "queued", live |-> FALSE, code |-> ""]
               N == Len(jobs) + 1
    <2>1. /\ IsAncestor(publisher.seen, publisher.head) /\ publisher.pc = "admit"
          /\ jobs' = Append(jobs, new)
          /\ publisher' = [publisher EXCEPT !.pc = "claim", !.job = N]
      BY <1>5 DEF AdmitNew, NeedsPush, Step
    <2>2. /\ new \in Job /\ new.candidate = publisher.head
          /\ new.expected = publisher.seen /\ new.phase = "queued"
      <3>1. publisher.head \in Nat /\ publisher.seen \in Nat /\ "" \in Codes
        BY <1>1 DEF Publisher, Codes
      <3> QED
        BY <3>1 DEF Job
    <2> HIDE DEF new
    <2>3. /\ jobs' \in Seq(Job) /\ DOMAIN jobs' = 1..N /\ jobs'[N] = new
          /\ \A j \in DOMAIN jobs : jobs'[j] = jobs[j]
      BY <1>2, <2>1, <2>2
    <2>4. \A j \in DOMAIN jobs' : j \in DOMAIN jobs \/ j = N
      BY <1>2, <2>3
    <2>5. JobsKeep
      BY <1>1, <1>2, <1>3, <2>2, <2>3, <2>4 DEF JobsKeep, PublisherInv, PublishedIsOnRemote
    <2>6. /\ publisher' \in Publisher /\ publisher'.pc = "claim" /\ publisher'.job = N
          /\ publisher'.head = publisher.head /\ publisher'.seen = publisher.seen
          /\ publisher'.pending = publisher.pending
      <3>1. N \in Nat
        BY <1>2
      <3> QED
        BY <1>1, <2>1, <3>1 DEF Publisher
    <2>7. Captures
      <3>1. N \in DOMAIN jobs' /\ jobs'[N].candidate = publisher.head
        BY <1>2, <2>2, <2>3
      <3> QED
        BY <1>1, <1>3, <1>4, <2>1, <2>6, <3>1 DEF Captures, PublisherInv
    <2> QED
      BY <1>3, <1>4, <2>5, <2>7, PublisherQuiet
  <1>6. CASE AdmitKnown
    <2>1. IsAncestor(publisher.seen, publisher.head) /\ publisher.pc = "admit"
      BY <1>6 DEF AdmitKnown, NeedsPush, Step
    <2>2. PICK j, new :
             /\ j \in DOMAIN jobs
             /\ new \in {jobs[j], Recovered(jobs[j], publisher.seen)}
             /\ jobs[j].candidate = publisher.head
             /\ jobs' = [jobs EXCEPT ![j] = new]
             /\ publisher' \in {[publisher EXCEPT !.pc = "claim", !.job = j],
                                [publisher EXCEPT !.pc = "finish"]}
      BY <1>6 DEF AdmitKnown, JobsFor
    <2>3. /\ new \in Job /\ new.candidate = jobs[j].candidate /\ new.expected = jobs[j].expected
          /\ new.phase = "published" =>
                jobs[j].phase = "published" \/ publisher.seen = jobs[j].candidate
      <3>1. jobs[j] \in Job
        BY <1>2, <2>2
      <3> QED
        BY <2>2, <3>1, SettledJob
    <2>4. JobsKeep
      BY <1>1, <1>3, <2>2, <2>3, JobChange
    <2>5. /\ publisher' \in Publisher
          /\ \/ publisher'.pc = "claim" /\ publisher'.job = j
             \/ publisher'.pc = "finish"
          /\ publisher'.head = publisher.head /\ publisher'.seen = publisher.seen
          /\ publisher'.pending = publisher.pending
      <3>1. j \in Nat
        BY <1>2, <2>2
      <3> QED
        BY <1>1, <2>2, <3>1 DEF Publisher
    <2>6. Captures
      <3>1. j \in DOMAIN jobs' /\ jobs'[j].candidate = publisher.head
        BY <2>2, <2>4 DEF JobsKeep
      <3> QED
        BY <1>1, <1>3, <1>4, <2>1, <2>5, <3>1 DEF Captures, PublisherInv
    <2> QED
      BY <1>3, <1>4, <2>4, <2>6, PublisherQuiet
  <1>7. CASE AdmitConflict
    BY <1>1, <1>3, <1>4, <1>7, JobsStay, IdleCaptures, PublisherQuiet DEF AdmitConflict
  <1>8. CASE Claim
    <2> DEFINE j == publisher.job
               new == [jobs[j] EXCEPT !.phase = "publishing", !.live = TRUE, !.code = ""]
    <2>1. /\ publisher.pc = "claim" /\ j \in DOMAIN jobs /\ jobs[j] \in Job
          /\ jobs[j].candidate = publisher.head
          /\ IsAncestor(publisher.seen, publisher.head)
      BY <1>1, <1>8 DEF Claim, Step, PublisherInv
    <2>2. /\ jobs' = jobs \/ jobs' = [jobs EXCEPT ![j] = new]
          /\ publisher' \in {[publisher EXCEPT !.pc = "push"], [publisher EXCEPT !.pc = "finish"]}
      BY <1>8 DEF Claim
    <2>3. /\ new \in Job /\ new.candidate = jobs[j].candidate
          /\ new.expected = jobs[j].expected /\ new.phase = "publishing"
      BY <2>1 DEF Job, Codes
    <2> HIDE DEF new
    <2>4. JobsKeep
      BY <1>1, <2>1, <2>2, <2>3, JobChange, JobsStay
    <2>5. /\ publisher' \in Publisher /\ publisher'.pc \in {"push", "finish"}
          /\ publisher'.job = j
          /\ publisher'.head = publisher.head /\ publisher'.seen = publisher.seen
          /\ publisher'.pending = publisher.pending
      BY <1>1, <2>2 DEF Publisher
    <2>6. Captures
      <3>1. j \in DOMAIN jobs' /\ jobs'[j].candidate = publisher.head
        BY <2>1, <2>4 DEF JobsKeep
      <3> QED
        BY <1>1, <1>3, <1>4, <2>1, <2>5, <3>1 DEF Captures, PublisherInv
    <2> QED
      BY <1>3, <1>4, <2>4, <2>6, PublisherQuiet
  <1> QED
    BY <1>5, <1>6, <1>7, <1>8

\* A push under an exact lease moves the remote to a descendant or not at all.
LEMMA PushStep ==
  ASSUME FastInv, NEW cand \in DOMAIN commits, NEW exp \in commits[cand].anc,
         PushRef(cand, exp), UNCHANGED <<world, intents, jobs>>,
         inflight' \in {inflight, None},
         \/ publisher' = publisher
         \/ publisher.pc = "push" /\ publisher' = [publisher EXCEPT !.pc = "confirm"]
  PROVE  FastInv'
  <1>1. HistoryInv /\ RowInv /\ ClientInv /\ WorkerInv /\ PublisherInv
    BY DEF FastInv
  <1>2. /\ UNCHANGED clientVars /\ worker' = worker /\ commits' = commits /\ local' = local
        /\ kept' = kept /\ orphan' = orphan /\ intents' = intents /\ jobs' = jobs
    BY DEF world
  <1>3. remote' \in DOMAIN commits /\ remote \in commits[remote'].anc
    BY <1>1 DEF PushRef, HistoryInv
  <1>4. HistoryInv' /\ Grown /\ Advanced
    BY <1>1, <1>2, <1>3 DEF HistoryInv, Grown, Advanced, ChildOf
  <1>5. RowInv' /\ RowsBound /\ HoldersKeep
    <2>1. 0 \in 0..Len(intents)
      BY <1>1 DEF RowInv
    <2> QED
      BY <1>1, <1>2, <1>4, <2>1, MarkedCommit DEF RowsBound, HoldersKeep, Unmarked
  <1>6. ClientInv' /\ WorkerInv'
    BY <1>1, <1>2, <1>5, ClientFrame, WorkerFrame
  <1>7. \A x \in commits[remote].anc : x \in commits[remote'].anc
    BY <1>1, <1>2, <1>4, AncestorsKept
  <1>8. /\ publisher' \in Publisher
        /\ publisher'.pc = publisher.pc \/ (publisher.pc = "push" /\ publisher'.pc = "confirm")
        /\ publisher'.head = publisher.head /\ publisher'.seen = publisher.seen
        /\ publisher'.pending = publisher.pending /\ publisher'.job = publisher.job
    BY <1>1 DEF PublisherInv, Publisher
  <1>9. PublishedIsOnRemote'
    BY <1>1, <1>2, <1>7 DEF PublisherInv, PublishedIsOnRemote, IsAncestor
  <1>10. inflight' # None =>
            /\ inflight' \in [candidate : DOMAIN commits, expected : DOMAIN commits]
            /\ inflight'.expected \in commits[inflight'.candidate].anc
    BY <1>1 DEF PublisherInv, IsAncestor
  <1>11. publisher'.pc \notin {"idle", "observe"} => publisher'.seen \in commits[remote'].anc
    BY <1>1, <1>7, <1>8 DEF PublisherInv, IsAncestor
  <1>12. PublisherInv'
    BY <1>1, <1>2, <1>8, <1>9, <1>10, <1>11 DEF PublisherInv, IsAncestor
  <1> QED
    BY <1>4, <1>5, <1>6, <1>12 DEF FastInv

\* The push in all its ways: done, failed, outlived by its process.
LEMMA PushSteps ==
  ASSUME FastInv, Push \/ PushFails \/ PushTimesOut \/ PushLandsLate \/ CrashPublisher
  PROVE  FastInv'
  <1>1. HistoryInv /\ RowInv /\ PublisherInv /\ publisher \in Publisher
    BY DEF FastInv, PublisherInv
  <1>2. CASE Push
    <2>1. /\ publisher.pc = "push" /\ publisher.head \in DOMAIN commits
          /\ publisher.seen \in commits[publisher.head].anc
      BY <1>1, <1>2 DEF Push, Step, PublisherInv, IsAncestor
    <2> QED
      BY <1>2, <2>1, PushStep DEF Push
  <1>3. CASE PushLandsLate
    <2>1. /\ inflight.candidate \in DOMAIN commits
          /\ inflight.expected \in commits[inflight.candidate].anc
      BY <1>1, <1>3 DEF PushLandsLate, PublisherInv, IsAncestor
    <2> QED
      BY <1>3, <2>1, PushStep DEF PushLandsLate
  <1>4. CASE PushFails \/ PushTimesOut
    <2>1. /\ publisher.pc = "push" /\ UNCHANGED <<world, intents, remote, jobs>>
          /\ publisher' \in {[publisher EXCEPT !.pc = "confirm"],
                             [publisher EXCEPT !.pc = "timedout"]}
          /\ \/ inflight' = inflight
             \/ inflight' = [candidate |-> publisher.head, expected |-> publisher.seen]
      BY <1>4 DEF PushFails, PushTimesOut, Step
    <2>2. /\ publisher' \in Publisher /\ publisher'.pc \in {"confirm", "timedout"}
          /\ publisher'.head = publisher.head /\ publisher'.seen = publisher.seen
          /\ publisher'.pending = publisher.pending /\ publisher'.job = publisher.job
      BY <1>1, <2>1 DEF Publisher
    <2>3. Captures
      BY <1>1, <2>1, <2>2 DEF Captures, PublisherInv
    <2> QED
      BY <1>1, <2>1, <2>3, JobsStay, PublisherQuiet
  <1>5. CASE CrashPublisher
    <2>1. /\ publisher' = Idle /\ UNCHANGED <<world, intents, remote, jobs>>
          /\ \/ inflight' = inflight
             \/ /\ publisher.pc = "push"
                /\ inflight' = [candidate |-> publisher.head, expected |-> publisher.seen]
      BY <1>5 DEF CrashPublisher, Step
    <2> QED
      BY <1>1, <2>1, JobsStay, IdleCaptures, PublisherQuiet
  <1> QED
    BY <1>2, <1>3, <1>4, <1>5

\* The steps that record what was observed.
LEMMA RecordSteps ==
  ASSUME FastInv, Confirm \/ ConfirmUnknown \/ TimedOut \/ FinishReceipt \/ FinishDone
  PROVE  FastInv'
  <1>1. HistoryInv /\ RowInv /\ PublisherInv /\ publisher \in Publisher
    BY DEF FastInv, PublisherInv
  <1>2. {"REMOTE_UNKNOWN", "PUBLICATION_TIMEOUT", "PUSH_UNKNOWN"} \subseteq Codes
    BY DEF Codes
  <1>3. CASE Confirm
    <2> DEFINE then == [publisher EXCEPT !.pc = "finish", !.seen = remote]
    <2>1. publisher.pc = "confirm" /\ FinishJob(Observation[1], Observation[2], then)
          /\ UNCHANGED <<fastVars, inflight>>
      BY <1>3 DEF Confirm, Step
    <2>2. /\ then \in Publisher /\ then.pc = "finish" /\ then.seen = remote
          /\ then.head = publisher.head /\ then.pending = publisher.pending
      <3>1. remote \in Nat
        BY <1>1 DEF HistoryInv
      <3> QED
        BY <1>1, <3>1 DEF Publisher
    <2> HIDE DEF then
    <2>3. JobsKeep /\ publisher' \in {then, Idle}
      BY <1>1, <2>1, ObservationIs, FinishJobKeeps
    <2>4. Captures
      <3>1. CASE publisher' = then
        <4>1. IsAncestor(remote, remote)
          BY <1>1 DEF HistoryInv, IsAncestor
        <4>2. intents' = intents
          BY <2>1 DEF fastVars
        <4> QED
          BY <1>1, <2>1, <2>2, <3>1, <4>1, <4>2 DEF Captures, PublisherInv
      <3> QED
        BY <2>3, <3>1, IdleCaptures
    <2> QED
      BY <2>1, <2>3, <2>4, PublisherQuiet DEF fastVars, world, clientVars
  <1>4. CASE ConfirmUnknown
    <2>1. publisher.pc = "confirm" /\ FinishJob("ambiguous", "REMOTE_UNKNOWN", Idle)
          /\ (Failures("REMOTE_UNKNOWN") \/ intents' = intents)
          /\ UNCHANGED <<world, remote, inflight>>
      BY <1>4 DEF ConfirmUnknown, Step
    <2>2. JobsKeep /\ publisher' = Idle
      BY <1>1, <1>2, <2>1, FinishJobKeeps
    <2> QED
      BY <1>2, <2>1, <2>2, FailureStep
  <1>5. CASE TimedOut
    <2>1. PICK ph, code :
             /\ \/ ph = Observation[1] /\ code = Observation[2]
                \/ ph = "ambiguous" /\ code = "PUSH_UNKNOWN"
             /\ TimeoutRecorded(ph, code)
      BY <1>5 DEF TimedOut
    <2>2. /\ ph \in {"published", "rejected", "ambiguous"} /\ code \in Codes
          /\ ph = "published" => remote = publisher.head
      BY <1>2, <2>1, ObservationIs
    <2>3. publisher.pc = "timedout" /\ FinishJob(ph, code, Idle)
          /\ (Failures("PUBLICATION_TIMEOUT") \/ intents' = intents)
          /\ UNCHANGED <<world, remote, inflight>>
      BY <2>1 DEF TimeoutRecorded, Step
    <2>4. JobsKeep /\ publisher' = Idle
      BY <1>1, <2>2, <2>3, FinishJobKeeps
    <2> QED
      BY <1>2, <2>3, <2>4, FailureStep
  <1>6. CASE FinishDone
    BY <1>1, <1>6, JobsStay, IdleCaptures, PublisherQuiet
    DEF FinishDone, fastVars, world, clientVars
  <1>7. CASE FinishReceipt
    <2>1. PICK i, r :
             /\ i \in publisher.pending
             /\ \/ r = [intents[i] EXCEPT !.failure = "LOCAL_BRANCH_MOVED"]
                \/ r = [intents[i] EXCEPT !.failure = "REMOTE_NOT_CONTAINING_COMMIT"]
                \/ /\ IsAncestor(intents[i].oid, publisher.seen)
                   /\ r = [intents[i] EXCEPT !.phase = "published-remote", !.failure = "",
                                             !.remoteOid = publisher.seen]
             /\ intents' = [intents EXCEPT ![i] = r]
             /\ publisher' = [publisher EXCEPT !.pending = @ \ {i}]
      BY <1>7 DEF FinishReceipt, Contained
    <2>2. /\ publisher.pc = "finish" /\ UNCHANGED <<world, remote, jobs, inflight>>
          /\ commits' = commits
      BY <1>7 DEF FinishReceipt, Step, world
    <2>3. /\ i \in DOMAIN intents /\ intents[i] \in Row
          /\ intents[i].phase = "completed-local" /\ publisher.seen \in Nat
          /\ IsAncestor(publisher.seen, remote)
      BY <1>1, <2>1, <2>2 DEF PublisherInv, RowInv, Publisher
    <2>4. /\ r \in Row /\ r.key = intents[i].key /\ r.req = intents[i].req
          /\ r.oid = intents[i].oid
          /\ \/ r.phase = "completed-local"
             \/ r.phase = "published-remote" /\ IsAncestor(r.oid, publisher.seen)
      BY <2>1, <2>3 DEF Row, Phases, Codes
    <2>5. RowBecomes(i, r) /\ Truthful(i, r)
      BY <1>1, <2>1, <2>3, <2>4 DEF RowBecomes, Truthful, RowInv
    <2>6. /\ RowInv'
          /\ DOMAIN intents' = DOMAIN intents /\ intents'[i] = r
          /\ \A j \in DOMAIN intents : j # i => intents'[j] = intents[j]
          /\ \A j \in DOMAIN intents : /\ intents'[j].key = intents[j].key
                                       /\ intents'[j].req = intents[j].req
      BY <1>1, <2>2, <2>3, <2>4, <2>5, RowChange
    <2>7. RowsBound /\ HoldersKeep
      BY <2>2, <2>3, <2>6 DEF RowsBound, HoldersKeep, Unmarked
    <2>8. IsAncestor(r.oid, publisher.seen) => IsAncestor(r.oid, remote)
      BY <1>1, <2>3 DEF HistoryInv, IsAncestor
    <2>9. \A j \in DOMAIN intents' :
             intents'[j].phase = "published-remote" => IsAncestor(intents'[j].oid, remote)
      BY <1>1, <2>4, <2>6, <2>8 DEF PublisherInv, PublishedIsOnRemote
    <2>10. /\ publisher' \in Publisher /\ publisher'.pc = "finish"
           /\ publisher'.head = publisher.head /\ publisher'.seen = publisher.seen
           /\ publisher'.pending = publisher.pending \ {i}
      BY <1>1, <2>1, <2>2 DEF Publisher
    <2>11. Captures
      BY <1>1, <2>2, <2>6, <2>10 DEF Captures, PublisherInv
    <2> QED
      BY <1>1, <2>2, <2>6, <2>7, <2>9, <2>11, JobsStay, PublisherMove
  <1> QED
    BY <1>3, <1>4, <1>5, <1>6, <1>7

-----------------------------------------------------------------------------
(* The theorems.                                                           *)

\* The empty store and the first commit.
LEMMA InitFast == Init => FastInv
  <1> SUFFICES ASSUME Init PROVE FastInv
    OBVIOUS
  <1> USE DEF Init, FastInit
  <1>1. HistoryInv
    <2>1. PICK s \in {"planned", "open"} :
             commits = << [anc |-> {1}, marker |-> 0,
                           task |-> [rev |-> 1, status |-> s, owner |-> None]] >>
      OBVIOUS
    <2>2. [rev |-> 1, status |-> s, owner |-> None] \in Task
      BY DEF Task
    <2>3. commits \in Seq(Commit) /\ DOMAIN commits = {1} /\ commits[1].anc = {1}
      BY <2>1, <2>2 DEF Commit
    <2> QED
      BY <2>3 DEF HistoryInv
  <1>2. \A n \in DOMAIN commits : n = 1 /\ commits[n].marker = 0
    OBVIOUS
  <1>3. RowInv
    BY <1>2 DEF RowInv
  <1>4. ClientInv
    BY DEF ClientInv, Client, AnswersDurable
  <1>5. WorkerInv
    BY DEF WorkerInv, Process
  <1>6. PublisherInv
    BY DEF PublisherInv, PublishedIsOnRemote, Idle, Publisher
  <1> QED
    BY <1>1, <1>3, <1>4, <1>5, <1>6 DEF FastInv

\* Every step keeps the invariant.
LEMMA StepFast ==
  ASSUME FastInv, [Next]_vars
  PROVE  FastInv'
  <1>1. CASE FastNext /\ UNCHANGED pubVars
    BY <1>1, ClientSteps, WorkerSteps, WorldSteps DEF FastNext
  <1>2. CASE PublisherStep
    BY <1>2, SelectionSteps, AdmissionSteps, PushSteps, RecordSteps DEF PublisherStep
  <1>3. CASE ObserveUnknown \/ PushFails \/ PushTimesOut \/ PushLandsLate
             \/ ConfirmUnknown \/ CrashPublisher
    BY <1>3, SelectionSteps, PushSteps, RecordSteps
  <1>4. ASSUME NEW j \in DOMAIN jobs, LeaseExpires(j)
        PROVE  FastInv'
    <2>1. PublisherInv /\ jobs[j] \in Job
      BY DEF FastInv, PublisherInv
    <2> DEFINE new == [jobs[j] EXCEPT !.live = FALSE]
    <2>2. /\ new \in Job /\ new.candidate = jobs[j].candidate
          /\ new.expected = jobs[j].expected /\ new.phase = jobs[j].phase
      BY <2>1 DEF Job
    <2>3. jobs' = [jobs EXCEPT ![j] = new] /\ UNCHANGED <<fastVars, publisher, inflight>>
      BY <1>4, <2>1 DEF LeaseExpires
    <2> HIDE DEF new
    <2>4. JobsKeep
      BY <2>1, <2>2, <2>3, JobChange
    <2>5. Captures
      BY <2>1, <2>3, <2>4 DEF Captures, PublisherInv, JobsKeep, fastVars
    <2> QED
      BY <2>3, <2>4, <2>5, PublisherQuiet DEF fastVars, world, clientVars
  <1>5. CASE UNCHANGED vars
    <2>1. /\ UNCHANGED <<world, remote, intents>> /\ jobs' = jobs
          /\ publisher' = publisher /\ inflight' = inflight
      BY <1>5 DEF vars, fastVars, pubVars, world, clientVars
    <2>2. PublisherInv
      BY DEF FastInv
    <2>3. Captures
      BY <2>1, <2>2 DEF Captures, PublisherInv
    <2> QED
      BY <2>1, <2>2, <2>3, JobsStay, PublisherQuiet
  <1> QED
    BY <1>1, <1>2, <1>3, <1>4, <1>5 DEF Next

\* The receipts, the workers, the orphan and the publisher always agree with
\* the history: fast_receipts, fast_local and fast_publication together.
THEOREM FastInvariance == Spec => []FastInv
  BY InitFast, StepFast, PTL DEF Spec

\* An intent is applied at most once and a key binds one intent, through every
\* crash, recovery, surviving git process and retry.
THEOREM AppliedOnce == Spec => []AppliedAtMostOnce
  <1>1. FastInv => AppliedAtMostOnce
    BY DEF FastInv, RowInv, AppliedAtMostOnce
  <1> QED
    BY <1>1, FastInvariance, PTL

\* A completed receipt names the commit that carries it and its change, a
\* rejected one has no commit, and an answered client finds its own intent.
THEOREM ReceiptSoundness == Spec => []ReceiptsSound
  <1>1. FastInv => ReceiptsSound
    BY DEF FastInv, RowInv, ClientInv, ReceiptsSound, ReceiptsTruthful, Unmarked
  <1> QED
    BY <1>1, FastInvariance, PTL

\* A receipt or a job is called published only if the remote contains its
\* commit, whatever pushes fail, time out or land late.
THEOREM PublicationSoundness == Spec => []PublishedIsOnRemote
  <1>1. FastInv => PublishedIsOnRemote
    BY DEF FastInv, PublisherInv
  <1> QED
    BY <1>1, FastInvariance, PTL

-----------------------------------------------------------------------------
(* Receipts are only ever written forward.                                 *)

\* How a receipt moves on.
ReceiptMoves ==
    {<<"queued-local", "running">>, <<"running", "completed-local">>, <<"running", "rejected">>,
     <<"running", "ambiguous">>, <<"completed-local", "published-remote">>}

\* A later row s of the intent that had r.
ReceiptAdvances(r, s) ==
    /\ s.key = r.key /\ s.req = r.req
    /\ s.phase = r.phase \/ <<r.phase, s.phase>> \in ReceiptMoves
    /\ r.phase \notin {"queued-local", "running"} => s.oid = r.oid /\ s.code = r.code
    /\ r.phase = "published-remote" => s = r

ReceiptsAdvance ==
    \A i \in DOMAIN intents : i \in DOMAIN intents' /\ ReceiptAdvances(intents[i], intents'[i])

\* One row moves on.
LEMMA OneReceiptAdvances ==
  ASSUME RowInv, NEW i \in DOMAIN intents, NEW r, intents' = [intents EXCEPT ![i] = r],
         ReceiptAdvances(intents[i], r)
  PROVE  ReceiptsAdvance
  <1>1. intents \in Seq(Row)
    BY DEF RowInv
  <1>2. /\ DOMAIN intents' = DOMAIN intents /\ intents'[i] = r
        /\ \A j \in DOMAIN intents : j # i => intents'[j] = intents[j]
    BY <1>1
  <1> QED
    BY <1>2 DEF ReceiptsAdvance, ReceiptAdvances

\* _enqueue leaves the rows there are.
LEMMA InsertAdvances ==
  ASSUME RowInv, NEW k, NEW q, Insert(k, q)
  PROVE  ReceiptsAdvance
  <1>1. intents \in Seq(Row)
    BY DEF RowInv
  <1>2. ASSUME NEW r
        PROVE  \A i \in DOMAIN intents :
                  i \in DOMAIN Append(intents, r) /\ Append(intents, r)[i] = intents[i]
    BY <1>1
  <1>3. \A i \in DOMAIN intents : i \in DOMAIN intents' /\ intents'[i] = intents[i]
    BY <1>2 DEF Insert
  <1> QED
    BY <1>3 DEF ReceiptsAdvance, ReceiptAdvances

\* _finish_running settles a running row only.
LEMMA FinishAdvances ==
  ASSUME RowInv, NEW i \in DOMAIN intents,
         NEW ph \in {"completed-local", "ambiguous", "rejected"}, NEW o, NEW code,
         Finish(i, ph, o, code)
  PROVE  ReceiptsAdvance
  <1> DEFINE r == [intents[i] EXCEPT !.phase = ph, !.oid = o, !.code = code]
  <1>1. intents \in Seq(Row) /\ intents[i] \in Row
    BY DEF RowInv
  <1>2. r.key = intents[i].key /\ r.req = intents[i].req /\ r.phase = ph
    BY <1>1 DEF Row
  <1>3. intents' = [intents EXCEPT ![i] = r] /\ intents[i].phase = "running"
    BY <1>1 DEF Finish
  <1> HIDE DEF r
  <1>4. ReceiptAdvances(intents[i], r)
    BY <1>2, <1>3 DEF ReceiptAdvances, ReceiptMoves
  <1> QED
    BY <1>3, <1>4, OneReceiptAdvances

\* So does everything that settles a row from the commits with its marker.
LEMMA SettlingAdvances ==
  ASSUME RowInv, NEW i \in DOMAIN intents, NEW code,
         \/ SettleFromMarker(i, RecordAmbiguity(i, code))
         \/ SettleFromMarker(i, RecordRejection(i))
         \/ \E n : RecordLocalCommit(i, n)
  PROVE  ReceiptsAdvance
  BY FinishAdvances DEF SettleFromMarker, RecordAmbiguity, RecordRejection, RecordLocalCommit

\* The steps of a worker.
LEMMA WorkerAdvances ==
  ASSUME FastInv, NEW w \in Workers, WorkerStep(w)
  PROVE  ReceiptsAdvance
  <1>1. RowInv /\ WorkerInv /\ intents \in Seq(Row)
    BY DEF FastInv, RowInv
  <1>2. Running \subseteq Nat /\ Queued \subseteq Nat
    BY <1>1 DEF Running, Queued
  <1>3. CASE Start(w) \/ RecoverDone(w) \/ ApplyCommit(w)
    BY <1>3 DEF Start, RecoverDone, ApplyCommit, ReceiptsAdvance, ReceiptAdvances
  <1>4. CASE RecoverOne(w)
    <2>1. Min(Running) \in DOMAIN intents
      BY <1>2, <1>4, MinIsMember DEF RecoverOne, Running
    <2> QED
      BY <1>1, <1>4, <2>1, SettlingAdvances DEF RecoverOne
  <1>5. CASE ClaimNext(w)
    <2> PICK i : i = Min(Queued)
      OBVIOUS
    <2>1. i \in DOMAIN intents /\ intents[i].phase = "queued-local"
      BY <1>2, <1>5, MinIsMember DEF ClaimNext, Queued
    <2> DEFINE r == [intents[i] EXCEPT !.phase = "running"]
    <2>2. intents[i] \in Row
      BY <1>1, <2>1
    <2>3. r.key = intents[i].key /\ r.req = intents[i].req /\ r.phase = "running"
      BY <2>2 DEF Row
    <2>4. intents' = [intents EXCEPT ![i] = r]
      BY <1>1, <1>5, <2>1 DEF ClaimNext
    <2> HIDE DEF r
    <2>5. ReceiptAdvances(intents[i], r)
      BY <2>1, <2>3 DEF ReceiptAdvances, ReceiptMoves
    <2> QED
      BY <1>1, <2>1, <2>4, <2>5, OneReceiptAdvances
  <1>6. CASE ApplyRefused(w) \/ ApplyFailed(w) \/ Verify(w)
    <2>1. worker[w].receipt \in DOMAIN intents
      BY <1>1, <1>6 DEF WorkerInv, ApplyRefused, ApplyFailed, Verify, At
    <2> PICK i \in DOMAIN intents : i = worker[w].receipt
      BY <2>1
    <2>2. \/ SettleFromMarker(i, RecordAmbiguity(i, "MUTATION_OUTCOME_UNKNOWN"))
          \/ SettleFromMarker(i, RecordRejection(i))
          \/ \E n : RecordLocalCommit(i, n)
      BY <1>6 DEF ApplyRefused, ApplyFailed, Verify
    <2> QED
      BY <1>1, <2>2, SettlingAdvances
  <1> QED
    BY <1>3, <1>4, <1>5, <1>6 DEF WorkerStep

\* The publisher writes completed rows only: their failures, or that they are published.
LEMMA PublisherAdvances ==
  ASSUME FastInv,
         \/ \E code : Failures(code)
         \/ FinishReceipt
  PROVE  ReceiptsAdvance
  <1>1. /\ RowInv /\ intents \in Seq(Row)
        /\ \A i \in publisher.pending : i \in DOMAIN intents /\ intents[i].phase = "completed-local"
    BY DEF FastInv, RowInv, PublisherInv
  <1>2. ASSUME NEW r \in Row, NEW f
        PROVE  /\ [r EXCEPT !.failure = f].key = r.key /\ [r EXCEPT !.failure = f].req = r.req
               /\ [r EXCEPT !.failure = f].phase = r.phase
               /\ [r EXCEPT !.failure = f].oid = r.oid /\ [r EXCEPT !.failure = f].code = r.code
    BY DEF Row
  <1>3. ASSUME NEW r \in Row, NEW f, r.phase = "completed-local"
        PROVE  ReceiptAdvances(r, [r EXCEPT !.failure = f])
    BY <1>2, <1>3 DEF ReceiptAdvances
  <1>4. ASSUME NEW code, Failures(code)
        PROVE  ReceiptsAdvance
    <2>1. DOMAIN intents' = DOMAIN intents
      BY <1>4 DEF Failures
    <2>2. ASSUME NEW i \in DOMAIN intents
          PROVE  ReceiptAdvances(intents[i], intents'[i])
      <3>1. intents[i] \in Row
        BY <1>1
      <3>2. CASE i \in publisher.pending /\ intents[i].phase = "completed-local"
        BY <1>3, <1>4, <3>1, <3>2 DEF Failures
      <3>3. CASE ~ (i \in publisher.pending /\ intents[i].phase = "completed-local")
        BY <1>4, <3>3 DEF Failures, ReceiptAdvances
      <3> QED
        BY <3>2, <3>3
    <2> QED
      BY <2>1, <2>2 DEF ReceiptsAdvance
  <1>5. CASE FinishReceipt
    <2>1. PICK i \in publisher.pending :
             intents' = [intents EXCEPT ![i] =
                IF ~ IsAncestor(@.oid, publisher.head)
                THEN [@ EXCEPT !.failure = "LOCAL_BRANCH_MOVED"]
                ELSE IF Contained(i)
                THEN [@ EXCEPT !.phase = "published-remote", !.failure = "",
                               !.remoteOid = publisher.seen]
                ELSE [@ EXCEPT !.failure = "REMOTE_NOT_CONTAINING_COMMIT"]]
      BY <1>5 DEF FinishReceipt
    <2>2. i \in DOMAIN intents /\ intents[i].phase = "completed-local" /\ intents[i] \in Row
      BY <1>1
    <2> DEFINE pub == [intents[i] EXCEPT !.phase = "published-remote", !.failure = "",
                                         !.remoteOid = publisher.seen]
    <2>3. PICK r : /\ intents' = [intents EXCEPT ![i] = r]
                   /\ \/ r = [intents[i] EXCEPT !.failure = "LOCAL_BRANCH_MOVED"]
                      \/ r = [intents[i] EXCEPT !.failure = "REMOTE_NOT_CONTAINING_COMMIT"]
                      \/ r = pub
      BY <1>1, <2>1, <2>2
    <2>4. /\ pub.key = intents[i].key /\ pub.req = intents[i].req
          /\ pub.phase = "published-remote"
          /\ pub.oid = intents[i].oid /\ pub.code = intents[i].code
      BY <2>2 DEF Row
    <2> HIDE DEF pub
    <2>5. ReceiptAdvances(intents[i], pub)
      BY <2>2, <2>4 DEF ReceiptAdvances, ReceiptMoves
    <2>6. ReceiptAdvances(intents[i], r)
      BY <1>3, <2>2, <2>3, <2>5
    <2> QED
      BY <1>1, <2>2, <2>3, <2>6, OneReceiptAdvances
  <1> QED
    BY <1>4, <1>5

\* A receipt is never lost, rebound or taken back: an intent keeps its key and its
\* request, an outcome once recorded stays with its commit, and published is the only
\* thing that a completed receipt becomes (_finish_running, _finish_publications).  It
\* is the safety half of IntentsSettle: what has settled stays settled.
THEOREM ReceiptsOnlyAdvance == Spec => [][ReceiptsAdvance]_vars
  <1>1. FastInv /\ Next => ReceiptsAdvance
    <2> SUFFICES ASSUME FastInv, Next PROVE ReceiptsAdvance
      OBVIOUS
    <2>1. intents' = intents => ReceiptsAdvance
      BY DEF ReceiptsAdvance, ReceiptAdvances
    <2>2. RowInv
      BY DEF FastInv
    <2>3. CASE FastNext
      <3>1. CASE \/ \E ask \in Asks : Submit(ask[1], ask[2], ask[3])
                 \/ \E c \in Clients : ClientTimeout(c)
                 \/ \E w \in Workers : Crash(w)
                 \/ OrphanLands \/ StrictCommand \/ OtherClone \/ OperatorReset
        BY <2>1, <3>1
        DEF Submit, ClientTimeout, Crash, OrphanLands, StrictCommand, OtherClone, OperatorReset
      <3>2. CASE WriterStep \/ \E c \in Clients : DirectStep(c)
        BY <2>2, <3>2, InsertAdvances DEF WriterStep, DirectStep
      <3> QED
        BY <2>3, <3>1, <3>2, WorkerAdvances DEF FastNext
    <2>4. CASE ~ FastNext
      <3>1. \/ intents' = intents \/ FinishReceipt \/ \E code : Failures(code)
        BY <2>4
        DEF Next, PublisherStep, Select, Observe, Sweep, NothingToPush, AdmitNew, AdmitKnown,
            AdmitConflict, Claim, Push, Confirm, TimedOut, TimeoutRecorded, FinishDone,
            ObserveUnknown, PushFails, PushTimesOut, PushLandsLate, ConfirmUnknown,
            CrashPublisher, LeaseExpires, fastVars
      <3> QED
        BY <2>1, <3>1, PublisherAdvances
    <2> QED
      BY <2>3, <2>4
  <1> QED
    BY <1>1, FastInvariance, PTL DEF Spec
=============================================================================
