----------------------- MODULE StateRepositoryProofs -----------------------
(***************************************************************************)
(* The four protocols around the state repository, for any number of       *)
(* processes, replicas, series and operations.                             *)
(*                                                                         *)
(* Tickets: the order in which they are drawn bounds how old the scan      *)
(* under a ticket can be.  Replication: what a replica compares its        *)
(* history with is a prefix of the remote's.  Issue series: the one        *)
(* publication in flight found no receipt and no comment under the lock.   *)
(* Rollback: a record without a revert still names the tree its operation  *)
(* was planned for, and what a revert has taken out stays out.             *)
(***************************************************************************)
EXTENDS MCStateRepository, Sequences, TLAPS

-----------------------------------------------------------------------------
(* The tickets of reconciliation scans.                                      *)

Busy(s) == pc[s] # "idle"

\* Tickets in use were drawn in order, at versions that were live then.
TicketsOrdered ==
    /\ published <= sequence
    /\ \A s \in Scanners : Busy(s) => ticket[s] <= sequence /\ drawnAt[s] <= world
    /\ \A s, u \in Scanners :
        Busy(s) /\ Busy(u) /\ ticket[s] <= ticket[u] => drawnAt[s] <= drawnAt[u]

\* A ticket that is not superseded was drawn no earlier than any completed
\* reconcile's, and its scan came after.
ScansFresh ==
    /\ floor <= world
    /\ \A s \in Scanners : Busy(s) /\ published <= ticket[s] => floor <= drawnAt[s]
    /\ \A s \in Scanners : pc[s] \in {"scanned", "written"} => drawnAt[s] <= seen[s]

\* The one process between its write and its publication.
HolderSound ==
    /\ \A s \in Scanners : pc[s] = "written" =>
        /\ published <= ticket[s]
        /\ recorded = seen[s]
        /\ floor <= before
    /\ \A s, u \in Scanners : pc[s] = "written" /\ pc[u] = "written" => s = u

Inv == TypeOK /\ TicketsOrdered /\ ScansFresh /\ HolderSound /\ NotOvertaken

\* Nothing is drawn, scanned or recorded at first.
LEMMA InitInv == Init => Inv
  BY DEF Init, Inv, TypeOK, Steps, TicketsOrdered, ScansFresh, HolderSound,
         NotOvertaken, Busy

\* Every step keeps numbers numbers and processes at known steps.
LEMMA StepType ==
  ASSUME TypeOK, [Next]_vars
  PROVE  TypeOK'
  <1> USE DEF TypeOK, Steps
  <1>1. CASE WorldChanges
    BY <1>1 DEF WorldChanges
  <1>2. ASSUME NEW s \in Scanners, Step(s)
        PROVE  TypeOK'
    BY <1>2
    DEF Step, Reserve, Scan, Retry, Write, Restore, Publish, MarkerFails, Crash, Forget
  <1>3. CASE UNCHANGED vars
    BY <1>3 DEF vars
  <1> QED
    BY <1>1, <1>2, <1>3 DEF Next

\* A new ticket is above all tickets in use, and the world never goes back.
LEMMA StepOrdered ==
  ASSUME Inv, [Next]_vars
  PROVE  TicketsOrdered'
  <1> USE DEF Inv, TypeOK, TicketsOrdered, Busy
  <1>1. CASE WorldChanges
    BY <1>1 DEF WorldChanges
  <1>2. ASSUME NEW s \in Scanners, Reserve(s)
        PROVE  TicketsOrdered'
    BY <1>2 DEF Reserve
  <1>3. ASSUME NEW s \in Scanners, Scan(s) \/ Write(s)
        PROVE  TicketsOrdered'
    BY <1>3 DEF Scan, Write
  <1>4. ASSUME NEW s \in Scanners, Retry(s) \/ Restore(s) \/ Crash(s)
        PROVE  TicketsOrdered'
    BY <1>4 DEF Retry, Restore, Crash, Forget
  <1>5. ASSUME NEW s \in Scanners, Publish(s) \/ MarkerFails(s)
        PROVE  TicketsOrdered'
    BY <1>5 DEF Publish, MarkerFails, Forget
  <1>6. CASE UNCHANGED vars
    BY <1>6 DEF vars
  <1> QED
    BY <1>1, <1>2, <1>3, <1>4, <1>5, <1>6 DEF Next, Step

\* Publishing raises the bar exactly for the tickets drawn later.
LEMMA StepFresh ==
  ASSUME Inv, [Next]_vars
  PROVE  ScansFresh'
  <1> USE DEF Inv, TypeOK, ScansFresh, Busy
  <1>1. CASE WorldChanges
    BY <1>1 DEF WorldChanges
  <1>2. ASSUME NEW s \in Scanners, Reserve(s)
        PROVE  ScansFresh'
    BY <1>2 DEF Reserve
  <1>3. ASSUME NEW s \in Scanners, Scan(s) \/ Write(s)
        PROVE  ScansFresh'
    BY <1>3 DEF Scan, Write, TicketsOrdered
  <1>4. ASSUME NEW s \in Scanners, Retry(s) \/ Restore(s) \/ Crash(s)
        PROVE  ScansFresh'
    BY <1>4 DEF Retry, Restore, Crash, Forget
  <1>5. ASSUME NEW s \in Scanners, Publish(s) \/ MarkerFails(s)
        PROVE  ScansFresh'
    BY <1>5 DEF Publish, MarkerFails, Forget, TicketsOrdered, HolderSound
  <1>6. CASE UNCHANGED vars
    BY <1>6 DEF vars
  <1> QED
    BY <1>1, <1>2, <1>3, <1>4, <1>5, <1>6 DEF Next, Step

\* Only a process that finds the lock free and its ticket current writes, and
\* nobody publishes until it is done.
LEMMA StepHolder ==
  ASSUME Inv, [Next]_vars
  PROVE  HolderSound' /\ NotOvertaken'
  <1> USE DEF Inv, TypeOK, HolderSound, NotOvertaken
  <1>1. CASE WorldChanges
    BY <1>1 DEF WorldChanges
  <1>2. ASSUME NEW s \in Scanners, Reserve(s) \/ Scan(s)
        PROVE  HolderSound' /\ NotOvertaken'
    BY <1>2 DEF Reserve, Scan
  <1>3. ASSUME NEW s \in Scanners, Write(s)
        PROVE  HolderSound' /\ NotOvertaken'
    <2>1. published <= ticket[s] /\ \A u \in Scanners : pc[u] # "written"
      BY <1>3 DEF Write, Superseded, Locked
    <2>2. floor <= seen[s]
      BY <1>3, <2>1 DEF Write, ScansFresh, Busy
    <2> QED
      BY <1>3, <2>1, <2>2 DEF Write
  <1>4. ASSUME NEW s \in Scanners, Retry(s) \/ Restore(s) \/ Crash(s)
        PROVE  HolderSound' /\ NotOvertaken'
    BY <1>4 DEF Retry, Restore, Crash, Forget
  <1>5. ASSUME NEW s \in Scanners, Publish(s) \/ MarkerFails(s)
        PROVE  HolderSound' /\ NotOvertaken'
    BY <1>5 DEF Publish, MarkerFails, Forget, ScansFresh
  <1>6. CASE UNCHANGED vars
    BY <1>6 DEF vars
  <1> QED
    BY <1>1, <1>2, <1>3, <1>4, <1>5, <1>6 DEF Next, Step

\* For any number of concurrent reconciles, the recorded observation is at
\* least as recent as the moment the ticket of any completed one was drawn.
THEOREM Freshness == Spec => []NotOvertaken
  <1>1. Inv /\ [Next]_vars => Inv'
    BY StepType, StepOrdered, StepFresh, StepHolder DEF Inv
  <1>2. Inv => NotOvertaken
    BY DEF Inv
  <1> QED
    BY InitInv, <1>1, <1>2, PTL DEF Spec

-----------------------------------------------------------------------------
(* Replication.                                                              *)

Histories == Seq(Nat)

\* A prefix, position by position.
LEMMA PrefixPointwise ==
  ASSUME NEW s \in Histories, NEW t \in Histories
  PROVE  Sync!IsPrefix(s, t) <=> Len(s) <= Len(t) /\ \A i \in 1..Len(s) : s[i] = t[i]
  <1>1. ASSUME Len(s) <= Len(t)
        PROVE  /\ SubSeq(s, 1, Len(s)) = s
               /\ SubSeq(t, 1, Len(s)) \in Histories
               /\ Len(SubSeq(t, 1, Len(s))) = Len(s)
               /\ \A i \in 1..Len(s) : SubSeq(t, 1, Len(s))[i] = t[i]
    BY <1>1 DEF Histories
  <1>2. ASSUME Len(s) <= Len(t), \A i \in 1..Len(s) : s[i] = t[i]
        PROVE  SubSeq(t, 1, Len(s)) = s
    BY <1>1, <1>2 DEF Histories
  <1> QED
    BY <1>1, <1>2 DEF Sync!IsPrefix

\* Prefixes are ordered, and two prefixes of one history are comparable.
LEMMA PrefixOrder ==
  ASSUME NEW s \in Histories, NEW t \in Histories, NEW u \in Histories
  PROVE  /\ Sync!IsPrefix(s, s)
         /\ Sync!IsPrefix(s, t) /\ Sync!IsPrefix(t, u) => Sync!IsPrefix(s, u)
         /\ Sync!IsPrefix(s, u) /\ Sync!IsPrefix(t, u) =>
               Sync!IsPrefix(s, t) \/ Sync!IsPrefix(t, s)
  <1> USE DEF Histories
  <1>1. Len(s) \in Nat /\ Len(t) \in Nat /\ Len(u) \in Nat
    OBVIOUS
  <1>2. Sync!IsPrefix(s, s)
    BY <1>1, PrefixPointwise
  <1>3. Sync!IsPrefix(s, t) /\ Sync!IsPrefix(t, u) => Sync!IsPrefix(s, u)
    BY <1>1, PrefixPointwise
  <1>4. Sync!IsPrefix(s, u) /\ Sync!IsPrefix(t, u) =>
           Sync!IsPrefix(s, t) \/ Sync!IsPrefix(t, s)
    <2> SUFFICES ASSUME Sync!IsPrefix(s, u), Sync!IsPrefix(t, u)
                 PROVE  Sync!IsPrefix(s, t) \/ Sync!IsPrefix(t, s)
      OBVIOUS
    <2>1. /\ \A i \in 1..Len(s) : s[i] = u[i]
          /\ \A i \in 1..Len(t) : t[i] = u[i]
      BY PrefixPointwise
    <2>2. CASE Len(s) <= Len(t)
      <3>1. \A i \in 1..Len(s) : s[i] = t[i]
        BY <1>1, <2>1, <2>2
      <3> QED
        BY <2>2, <3>1, PrefixPointwise
    <2>3. CASE Len(t) <= Len(s)
      <3>1. ASSUME NEW i \in 1..Len(t)
            PROVE  t[i] = s[i]
        <4>1. i \in 1..Len(s)
          BY <1>1, <2>3
        <4> QED
          BY <2>1, <4>1
      <3> QED
        BY <2>3, <3>1, PrefixPointwise
    <2> QED
      BY <1>1, <2>2, <2>3
  <1> QED
    BY <1>2, <1>3, <1>4

\* A history is a prefix of what follows it, and nothing lies in between.
LEMMA PrefixAppend ==
  ASSUME NEW s \in Histories, NEW t \in Histories, NEW n \in Nat
  PROVE  /\ Append(s, n) \in Histories
         /\ Sync!IsPrefix(s, Append(s, n))
         /\ Sync!IsPrefix(t, Append(s, n)) => Sync!IsPrefix(t, s) \/ Sync!IsPrefix(s, t)
  <1>1. Append(s, n) \in Histories /\ Sync!IsPrefix(s, Append(s, n))
    <2>1. Append(s, n) \in Seq(Nat) /\ Len(Append(s, n)) = Len(s) + 1 /\ Len(s) \in Nat
          /\ \A i \in 1..Len(s) : Append(s, n)[i] = s[i]
      BY DEF Histories
    <2>2. ASSUME NEW v \in Histories, Len(v) = Len(s) + 1, \A i \in 1..Len(s) : v[i] = s[i]
          PROVE  Sync!IsPrefix(s, v)
      BY <2>1, <2>2, PrefixPointwise
    <2> QED
      BY <2>1, <2>2 DEF Histories
  <1> QED
    BY <1>1, PrefixOrder

\* What a replica fetched is a part of the remote's history; a replica that is ready
\* to commit has no divergence on record; and a divergence on record is real.
SyncInv ==
    /\ remote \in Histories
    /\ local \in [Replicas -> Histories] /\ fetched \in [Replicas -> Histories]
    /\ blocked \in [Replicas -> Sync!Codes \union {None}]
    /\ at \in [Replicas -> Sync!Steps]
    /\ commits \in Nat
    /\ \A r \in Replicas : Sync!IsPrefix(fetched[r], remote)
    /\ \A r \in Replicas : at[r] = "ready" => blocked[r] # "REPLICA_DIVERGED"
    /\ VerdictHolds

\* What a step does to the histories: the remote grows or stays, and a replica's
\* history grows, and does so in a lifecycle command only without a divergence.
SyncStep ==
    /\ Sync!IsPrefix(remote, remote')
    /\ \A r \in Replicas :
          /\ Sync!IsPrefix(local[r], local'[r])
          /\ blocked[r] = "REPLICA_DIVERGED" /\ ~ Sync!CommitUnsynced(r)
                => local'[r] = local[r]

\* Empty histories do not differ.
LEMMA InitSync == Sync!Init => SyncInv
  <1>1. <<>> \in Histories
    BY DEF Histories
  <1>2. Sync!IsPrefix(<<>>, <<>>)
    BY <1>1, PrefixOrder
  <1> QED
    BY <1>1, <1>2, AbsenceAssumption
    DEF Sync!Init, SyncInv, VerdictHolds, Sync!VerdictHolds, Sync!Codes, Sync!Steps

\* A verdict on what was fetched is a verdict on the remote.
LEMMA DivergedApart ==
  ASSUME SyncInv, NEW r \in Replicas, Sync!Diverged(r)
  PROVE  Sync!Apart(r)
  <1>1. /\ remote \in Histories /\ local[r] \in Histories /\ fetched[r] \in Histories
        /\ Sync!IsPrefix(fetched[r], remote)
    BY DEF SyncInv
  <1> QED
    BY <1>1, PrefixOrder DEF Sync!Diverged, Sync!Ahead, Sync!Behind, Sync!Apart

\* A step that leaves all histories alone and records only true divergences.
LEMMA VerdictStep ==
  ASSUME SyncInv, NEW r \in Replicas, UNCHANGED <<remote, local, commits>>,
         fetched' = fetched \/ fetched' = [fetched EXCEPT ![r] = remote],
         NEW code \in Sync!Codes \union {None}, NEW step \in Sync!Steps,
         blocked' = [blocked EXCEPT ![r] = code], at' = [at EXCEPT ![r] = step],
         code = "REPLICA_DIVERGED" => Sync!Apart(r) /\ step # "ready"
  PROVE  SyncInv' /\ SyncStep
  <1>1. /\ remote \in Histories /\ local \in [Replicas -> Histories]
        /\ fetched \in [Replicas -> Histories]
        /\ blocked \in [Replicas -> Sync!Codes \union {None}]
        /\ at \in [Replicas -> Sync!Steps]
    BY DEF SyncInv
  <1>2. SyncStep
    BY <1>1, PrefixOrder DEF SyncStep
  <1>3. fetched' \in [Replicas -> Histories]
        /\ \A q \in Replicas : Sync!IsPrefix(fetched'[q], remote')
    BY <1>1, PrefixOrder DEF SyncInv
  <1>4. /\ blocked' \in [Replicas -> Sync!Codes \union {None}]
        /\ at' \in [Replicas -> Sync!Steps]
    BY <1>1
  <1>5. ASSUME NEW q \in Replicas, blocked'[q] = "REPLICA_DIVERGED"
        PROVE  Sync!Apart(q)' /\ at'[q] # "ready"
    <2>1. CASE q = r
      BY <1>1, <1>5, <2>1 DEF Sync!Apart
    <2>2. CASE q # r
      BY <1>1, <1>5, <2>2 DEF SyncInv, VerdictHolds, Sync!VerdictHolds, Sync!Apart
    <2> QED
      BY <2>1, <2>2
  <1> QED
    BY <1>1, <1>2, <1>3, <1>4, <1>5 DEF SyncInv, VerdictHolds, Sync!VerdictHolds

\* A replica's own history changes: by a commit on top of it, or by a fast-forward to
\* what was fetched, which clears the marker.
LEMMA LocalStep ==
  ASSUME SyncInv, NEW r \in Replicas, NEW h \in Histories,
         UNCHANGED <<remote, fetched>>, local' = [local EXCEPT ![r] = h],
         NEW code \in {blocked[r], None}, blocked' = [blocked EXCEPT ![r] = code],
         NEW step \in Sync!Steps, at' = [at EXCEPT ![r] = step], commits' \in Nat,
         Sync!IsPrefix(local[r], h),
         code = "REPLICA_DIVERGED" => step # "ready" /\ (\E n \in Nat : h = Append(local[r], n)),
         blocked[r] = "REPLICA_DIVERGED" => Sync!CommitUnsynced(r)
  PROVE  SyncInv' /\ SyncStep
  <1>1. /\ remote \in Histories /\ local \in [Replicas -> Histories]
        /\ fetched \in [Replicas -> Histories]
        /\ blocked \in [Replicas -> Sync!Codes \union {None}]
        /\ at \in [Replicas -> Sync!Steps]
    BY DEF SyncInv
  <1>2. SyncStep
    <2>1. ASSUME NEW q \in Replicas
          PROVE  /\ Sync!IsPrefix(local[q], local'[q])
                 /\ q # r => local'[q] = local[q]
      BY <1>1, PrefixOrder
    <2> QED
      BY <1>1, <2>1, PrefixOrder DEF SyncStep
  <1>3. /\ local' \in [Replicas -> Histories]
        /\ blocked' \in [Replicas -> Sync!Codes \union {None}]
        /\ at' \in [Replicas -> Sync!Steps]
    BY <1>1
  <1>4. ASSUME NEW q \in Replicas, blocked'[q] = "REPLICA_DIVERGED"
        PROVE  Sync!Apart(q)' /\ at'[q] # "ready"
    <2>1. CASE q = r
      <3>1. code = "REPLICA_DIVERGED" /\ blocked[r] = code
        BY <1>1, <1>4, <2>1, AbsenceAssumption
      <3>2. PICK n \in Nat : h = Append(local[r], n)
        BY <3>1
      <3>3. Sync!Apart(r) /\ local'[r] = h /\ local[r] \in Histories
        BY <1>1, <3>1 DEF SyncInv, VerdictHolds, Sync!VerdictHolds
      <3>4. ~ Sync!IsPrefix(h, remote)
        BY <1>1, <3>3, PrefixOrder DEF Sync!Apart
      <3>5. ~ Sync!IsPrefix(remote, h)
        BY <1>1, <3>2, <3>3, PrefixAppend DEF Sync!Apart
      <3>6. at'[r] = step /\ step # "ready"
        BY <1>1, <3>1
      <3> QED
        BY <2>1, <3>3, <3>4, <3>5, <3>6 DEF Sync!Apart
    <2>2. CASE q # r
      <3>1. local'[q] = local[q] /\ blocked'[q] = blocked[q] /\ at'[q] = at[q]
        BY <1>1, <2>2
      <3> QED
        BY <1>4, <3>1 DEF SyncInv, VerdictHolds, Sync!VerdictHolds, Sync!Apart
    <2> QED
      BY <2>1, <2>2
  <1> QED
    BY <1>1, <1>2, <1>3, <1>4 DEF SyncInv, VerdictHolds, Sync!VerdictHolds

\* A push that the remote accepts extends its history; who was apart from it stays
\* apart.
LEMMA PushStep ==
  ASSUME SyncInv, NEW r \in Replicas, Sync!IsPrefix(remote, local[r]), remote' = local[r],
         UNCHANGED <<local, fetched, commits>>, blocked' = [blocked EXCEPT ![r] = None],
         at' = [at EXCEPT ![r] = "idle"]
  PROVE  SyncInv' /\ SyncStep
  <1>1. /\ remote \in Histories /\ local \in [Replicas -> Histories]
        /\ fetched \in [Replicas -> Histories]
        /\ blocked \in [Replicas -> Sync!Codes \union {None}]
        /\ at \in [Replicas -> Sync!Steps]
    BY DEF SyncInv
  <1>2. SyncStep
    BY <1>1, PrefixOrder DEF SyncStep
  <1>3. /\ remote' \in Histories
        /\ blocked' \in [Replicas -> Sync!Codes \union {None}]
        /\ at' \in [Replicas -> Sync!Steps]
    BY <1>1 DEF Sync!Steps
  <1>4. ASSUME NEW q \in Replicas PROVE Sync!IsPrefix(fetched[q], local[r])
    BY <1>1, PrefixOrder DEF SyncInv
  <1>5. ASSUME NEW q \in Replicas, blocked'[q] = "REPLICA_DIVERGED"
        PROVE  Sync!Apart(q)' /\ at'[q] # "ready"
    <2>1. q # r /\ blocked[q] = "REPLICA_DIVERGED" /\ at'[q] = at[q]
      BY <1>1, <1>5, AbsenceAssumption
    <2>2. Sync!Apart(q) /\ at[q] # "ready"
      BY <2>1 DEF SyncInv, VerdictHolds, Sync!VerdictHolds
    <2>3. ~ Sync!IsPrefix(local[q], local[r]) /\ ~ Sync!IsPrefix(local[r], local[q])
      BY <1>1, <2>2, PrefixOrder DEF Sync!Apart
    <2> QED
      BY <2>1, <2>2, <2>3 DEF Sync!Apart
  <1> QED
    BY <1>1, <1>2, <1>3, <1>4, <1>5 DEF SyncInv, VerdictHolds, Sync!VerdictHolds

\* Every step of every replica keeps the invariant and drops no commit.
LEMMA StepSync ==
  ASSUME SyncInv, [Sync!Next]_(Sync!vars)
  PROVE  SyncInv' /\ (Sync!Next => SyncStep)
  <1>1. /\ remote \in Histories /\ local \in [Replicas -> Histories]
        /\ fetched \in [Replicas -> Histories]
        /\ blocked \in [Replicas -> Sync!Codes \union {None}]
        /\ at \in [Replicas -> Sync!Steps] /\ commits \in Nat
    BY DEF SyncInv
  <1>2. ASSUME NEW r \in Replicas, Sync!Step(r)
        PROVE  SyncInv' /\ SyncStep
    <2>1. /\ blocked[r] \in Sync!Codes \union {None} /\ at[r] \in Sync!Steps
          /\ blocked = [blocked EXCEPT ![r] = blocked[r]] /\ at = [at EXCEPT ![r] = at[r]]
          /\ blocked[r] = "REPLICA_DIVERGED" => Sync!Apart(r) /\ at[r] # "ready"
      BY <1>1 DEF SyncInv, VerdictHolds, Sync!VerdictHolds
    <2>2. CASE Sync!FetchBeforeWrite(r) \/ Sync!FetchBeforePush(r) \/ Sync!Stop(r) \/ Sync!Edit(r)
      <3>1. UNCHANGED <<remote, local, commits, blocked>>
        BY <2>2
        DEF Sync!FetchBeforeWrite, Sync!FetchBeforePush, Sync!Fetch, Sync!Stop, Sync!Edit
      <3>2. fetched' = fetched \/ fetched' = [fetched EXCEPT ![r] = remote]
        BY <2>2
        DEF Sync!FetchBeforeWrite, Sync!FetchBeforePush, Sync!Fetch, Sync!Stop, Sync!Edit
      <3>3. PICK step \in {"fetched", "pushing", "idle", at[r]} : at' = [at EXCEPT ![r] = step]
        BY <2>1, <2>2
        DEF Sync!FetchBeforeWrite, Sync!FetchBeforePush, Sync!Fetch, Sync!Stop, Sync!Edit,
            Sync!Goto
      <3>4. step \in Sync!Steps /\ blocked' = [blocked EXCEPT ![r] = blocked[r]]
        BY <2>1, <3>1 DEF Sync!Steps
      <3> QED
        BY <2>1, <3>1, <3>2, <3>3, <3>4, VerdictStep
    <2>3. CASE Sync!SyncCurrent(r) \/ Sync!PushNothing(r)
      BY <2>1, <2>3, VerdictStep, AbsenceAssumption
      DEF Sync!SyncCurrent, Sync!PushNothing, Sync!Unblock, Sync!Goto, Sync!Steps
    <2>4. CASE Sync!SyncDiverged(r) \/ Sync!SyncDirty(r) \/ Sync!PushBlocked(r)
      <3>1. PICK code \in Sync!Codes :
               /\ blocked' = [blocked EXCEPT ![r] = code]
               /\ code = "REPLICA_DIVERGED" => Sync!Diverged(r)
        BY <2>4
        DEF Sync!SyncDiverged, Sync!SyncDirty, Sync!PushBlocked, Sync!Block, Sync!Codes,
            Sync!Diverged
      <3>2. at' = [at EXCEPT ![r] = "idle"] /\ UNCHANGED <<remote, local, fetched, commits>>
        BY <2>4 DEF Sync!SyncDiverged, Sync!SyncDirty, Sync!PushBlocked, Sync!Goto
      <3>3. "idle" \in Sync!Steps
        BY DEF Sync!Steps
      <3> QED
        BY <3>1, <3>2, <3>3, VerdictStep, DivergedApart
    <2>5. CASE Sync!FastForward(r)
      <3>1. /\ local' = [local EXCEPT ![r] = fetched[r]]
            /\ blocked' = [blocked EXCEPT ![r] = None] /\ at' = [at EXCEPT ![r] = "ready"]
            /\ UNCHANGED <<remote, fetched, commits>>
            /\ Sync!IsPrefix(local[r], fetched[r])
        BY <2>5 DEF Sync!FastForward, Sync!Behind, Sync!Unblock, Sync!Goto
      <3>2. fetched[r] \in Histories /\ local[r] \in Histories
            /\ Sync!IsPrefix(fetched[r], remote) /\ "ready" \in Sync!Steps
        BY <1>1 DEF SyncInv, Sync!Steps
      <3>3. blocked[r] # "REPLICA_DIVERGED"
        BY <1>1, <2>1, <3>1, <3>2, PrefixOrder DEF Sync!Apart
      <3> QED
        BY <1>1, <3>1, <3>2, <3>3, AbsenceAssumption, LocalStep
    <2>6. CASE Sync!Commit(r) \/ Sync!CommitUnsynced(r)
      <3>1. /\ local' = [local EXCEPT ![r] = Append(local[r], commits + 1)]
            /\ at' = [at EXCEPT ![r] = "committed"] /\ commits' = commits + 1
            /\ UNCHANGED <<remote, fetched, blocked>>
        BY <2>6 DEF Sync!Commit, Sync!CommitUnsynced, Sync!MakeCommit, Sync!Goto
      <3>2. /\ Append(local[r], commits + 1) \in Histories
            /\ Sync!IsPrefix(local[r], Append(local[r], commits + 1))
        BY <1>1, PrefixAppend
      <3>3. blocked[r] = "REPLICA_DIVERGED" => Sync!CommitUnsynced(r)
        BY <2>1, <2>6 DEF Sync!Commit
      <3>4. "committed" \in Sync!Steps /\ commits + 1 \in Nat
        BY <1>1 DEF Sync!Steps
      <3> QED
        BY <2>1, <3>1, <3>2, <3>3, <3>4, LocalStep
    <2>7. CASE Sync!Push(r)
      <3>1. CASE Sync!IsPrefix(remote, local[r])
        BY <2>7, <3>1, PushStep DEF Sync!Push, Sync!Unblock, Sync!Goto
      <3>2. CASE ~ Sync!IsPrefix(remote, local[r])
        <4>1. UNCHANGED <<remote, local, fetched, blocked, commits>>
              /\ at' = [at EXCEPT ![r] = "idle"] /\ "idle" \in Sync!Steps
          BY <2>7, <3>2 DEF Sync!Push, Sync!Goto, Sync!Steps
        <4>2. blocked' = [blocked EXCEPT ![r] = blocked[r]]
          BY <2>1, <4>1
        <4> QED
          BY <2>1, <4>1, <4>2, VerdictStep
      <3> QED
        BY <3>1, <3>2
    <2> QED
      BY <1>2, <2>2, <2>3, <2>4, <2>5, <2>6, <2>7 DEF Sync!Step
  <1>3. CASE UNCHANGED Sync!vars
    <2>1. SyncInv'
      BY <1>3 DEF Sync!vars, SyncInv, VerdictHolds, Sync!VerdictHolds, Sync!Apart
    <2>2. Sync!Next => SyncStep
      BY <1>2 DEF Sync!Next
    <2> QED
      BY <2>1, <2>2
  <1> QED
    BY <1>2, <1>3 DEF Sync!Next

\* What is fetched, blocked and ready agrees with the histories in every reachable
\* state.
THEOREM SyncInvariance == Sync!Spec => []SyncInv
  <1>1. SyncInv /\ [Sync!Next]_(Sync!vars) => SyncInv'
    BY StepSync
  <1> QED
    BY InitSync, <1>1, PTL DEF Sync!Spec

\* A recorded divergence stays real, whatever any number of replicas push after it
\* was recorded (push_replica).
THEOREM VerdictSafety == Sync!Spec => []VerdictHolds
  <1>1. SyncInv => VerdictHolds
    BY DEF SyncInv
  <1> QED
    BY <1>1, SyncInvariance, PTL

\* No replica and no remote drops a commit, and a recorded divergence stops lifecycle
\* commands, for any number of replicas and commits (sync_replica_before_write).
THEOREM HistorySafety == Sync!Spec => HistoriesKept
  <1>1. SyncInv /\ [Sync!Next]_(Sync!vars) => [SyncStep]_(Sync!vars)
    BY StepSync
  <1>2. SyncStep <=>
          (/\ Sync!IsPrefix(remote, remote')
           /\ \A r \in Replicas :
                 /\ Sync!IsPrefix(local[r], local'[r])
                 /\ blocked[r] = "REPLICA_DIVERGED" /\ ~ Sync!CommitUnsynced(r)
                       => local'[r] = local[r])
    BY DEF SyncStep
  <1> QED
    BY <1>1, <1>2, SyncInvariance, PTL DEF Sync!Spec, HistoriesKept, Sync!HistoriesKept
-----------------------------------------------------------------------------
(* An issue series.                                                          *)

Keyed == {"locked", "prepared", "clear", "answered"}
Outcomes == [status : {"dry_run", "deferred", "ambiguous", "published", "already_published"},
             comment : Nat]
Creation == [at : {"planned", "creating"}, digest : Nat]
Publication == [at : Keyed \union {"reserved"}, out : Outcomes]

SeriesShapes ==
    /\ board \in Nat /\ manifest \in BOOLEAN /\ tasks \in {"none", "some", "all"}
    /\ torn \in BOOLEAN /\ late \in BOOLEAN /\ mocked \in BOOLEAN /\ posts \in Nat /\ comments \in SUBSET Nat
    /\ proc \in [Procs -> Creation \union Publication \union {Series!Idle}]

\* One creation at a time works under the coordinator lock, over the manifest it
\* wrote; between creations the series is whole, unless one was killed.
CreationSound ==
    /\ \A p, q \in Procs : proc[p].at = "creating" /\ proc[q].at = "creating" => p = q
    /\ ~ torn => \A p \in Procs : proc[p].at = "creating" => manifest
    /\ Series!SeriesWhole

Named(outcome) == outcome.comment # 0 => outcome.comment \in comments

\* One publication at a time holds the key, from its look at the comments to the
\* record of its outcome; an outcome, unless it is a mock's, names a comment that is
\* there.
PublicationSound ==
    /\ \A p, q \in Procs : proc[p].at \in Keyed /\ proc[q].at \in Keyed => p = q
    /\ ~ late => \A p \in Procs : proc[p].at = "clear" => comments = {}
    /\ Series!OneComment
    /\ receipt # None /\ ~ mocked => Named(receipt)
    /\ \A p \in Procs : proc[p].at = "answered" => Named(proc[p].out)

SeriesInv == SeriesShapes /\ CreationSound /\ PublicationSound

\* There is no series at first.
LEMMA InitSeries == Series!Init => SeriesInv
  <1> SUFFICES ASSUME Series!Init PROVE SeriesInv
    OBVIOUS
  <1>1. \A p \in Procs : proc[p] = Series!Idle /\ proc[p].at = "idle"
    BY DEF Series!Init, Series!Idle
  <1>2. SeriesShapes
    BY DEF Series!Init, SeriesShapes
  <1>3. CreationSound
    BY <1>1 DEF Series!Init, CreationSound, Series!SeriesWhole
  <1>4. PublicationSound
    BY <1>1 DEF Series!Init, PublicationSound, Series!OneComment, Keyed
  <1> QED
    BY <1>2, <1>3, <1>4 DEF SeriesInv

\* A command at a point of a creation or of a publication has the state for it.
LEMMA SeriesPoint ==
  ASSUME SeriesShapes, NEW p \in Procs
  PROVE  /\ proc[p].at \in {"planned", "creating"} => proc[p] \in Creation
         /\ proc[p].at \in Keyed \union {"reserved"} => proc[p] \in Publication
  <1>1. proc[p] \in Creation \union Publication \union {Series!Idle}
    BY DEF SeriesShapes
  <1>2. Series!Idle.at = "idle"
    BY DEF Series!Idle
  <1> QED
    BY <1>1, <1>2 DEF Creation, Publication, Keyed

\* A command that enters or leaves a creation does not touch the publications.
LEMMA CreationSide ==
  ASSUME SeriesInv, NEW p \in Procs, NEW s \in Creation \union {Series!Idle},
         proc' = [proc EXCEPT ![p] = s], UNCHANGED <<receipt, comments, late, mocked>>
  PROVE  PublicationSound'
  <1>1. s.at \notin Keyed
    BY DEF Creation, Series!Idle, Keyed
  <1>2. proc'[p] = s /\ \A q \in Procs \ {p} : proc'[q] = proc[q]
    BY DEF SeriesInv, SeriesShapes
  <1>3. \A q \in Procs : proc'[q].at \in Keyed => proc'[q] = proc[q]
    BY <1>1, <1>2
  <1>4. "clear" \in Keyed /\ "answered" \in Keyed
    BY DEF Keyed
  <1> QED
    BY <1>3, <1>4 DEF SeriesInv, PublicationSound, Series!OneComment, Named

\* A command that enters or leaves a publication does not touch the series.
LEMMA PublicationSide ==
  ASSUME SeriesInv, NEW p \in Procs, NEW s \in Publication \union {Series!Idle},
         proc[p].at # "creating",
         proc' = [proc EXCEPT ![p] = s], UNCHANGED <<manifest, tasks, torn>>
  PROVE  CreationSound'
  <1>1. s.at # "creating"
    BY DEF Publication, Series!Idle, Keyed
  <1>2. proc'[p] = s /\ \A q \in Procs \ {p} : proc'[q] = proc[q]
    BY DEF SeriesInv, SeriesShapes
  <1>3. \A q \in Procs : proc'[q].at = "creating" <=> proc[q].at = "creating"
    BY <1>1, <1>2
  <1>4. \A q \in Procs : proc'[q].at = "creating" => proc'[q] = proc[q]
    BY <1>1, <1>2
  <1>5. Series!Unlocked' => Series!Unlocked
    BY <1>3 DEF Series!Unlocked, Series!At
  <1> QED
    BY <1>3, <1>4, <1>5 DEF SeriesInv, CreationSound, Series!SeriesWhole

\* Planning and creating, and the changes of others under the same lock.
LEMMA CreationStep ==
  ASSUME SeriesInv,
         Series!BoardChanges \/ \E p \in Procs :
             Series!Plan(p) \/ Series!CreateSqlite(p) \/ Series!CreateGit(p)
               \/ Series!WriteTask(p) \/ Series!CommitSeries(p) \/ Series!CreateFails(p)
  PROVE  SeriesInv'
  <1>1. UNCHANGED <<receipt, comments, flying, posts, late, mocked>>
    BY DEF Series!BoardChanges, Series!Plan, Series!CreateSqlite, Series!CreateGit,
           Series!WriteTask, Series!CommitSeries, Series!CreateFails, Series!hosted
  <1>2. SeriesShapes /\ CreationSound
    BY DEF SeriesInv
  <1>3. ASSUME NEW p \in Procs, NEW s \in Creation \union {Series!Idle},
               proc' = [proc EXCEPT ![p] = s],
               manifest' \in BOOLEAN, tasks' \in {"none", "some", "all"},
               torn' \in BOOLEAN, board' \in Nat, CreationSound'
        PROVE  SeriesInv'
    <2>1. SeriesShapes'
      BY <1>1, <1>2, <1>3 DEF SeriesShapes
    <2>2. PublicationSound'
      BY <1>1, <1>3, CreationSide
    <2> QED
      BY <1>3, <2>1, <2>2 DEF SeriesInv
  <1>4. CASE Series!BoardChanges
    <2>1. UNCHANGED <<manifest, tasks, torn, proc>> /\ board' = board + 1
      BY <1>4 DEF Series!BoardChanges
    <2> QED
      BY <1>1, <1>2, <2>1
      DEF SeriesInv, SeriesShapes, CreationSound, Series!SeriesWhole, Series!Unlocked,
          Series!At, PublicationSound, Series!OneComment, Named
  <1>5. ASSUME NEW p \in Procs, NEW s \in Creation \union {Series!Idle},
               proc' = [proc EXCEPT ![p] = s]
        PROVE  proc'[p] = s /\ \A q \in Procs : q # p => proc'[q] = proc[q]
    BY <1>2, <1>5 DEF SeriesShapes
  <1>6. ASSUME NEW p \in Procs, Series!Plan(p)
        PROVE  SeriesInv'
    <2> DEFINE s == [at |-> "planned", digest |-> board]
    <2>1. s \in Creation /\ s.at = "planned"
      BY <1>2 DEF Creation, SeriesShapes
    <2>2. /\ proc' = [proc EXCEPT ![p] = s] /\ proc[p].at = "idle"
          /\ UNCHANGED <<board, manifest, tasks, torn>>
      BY <1>6 DEF Series!Plan, Series!Idle, Series!series
    <2> HIDE DEF s
    <2>3. \A q \in Procs : proc'[q].at = "creating" <=> proc[q].at = "creating"
      BY <1>5, <2>1, <2>2
    <2>4. CreationSound'
      BY <1>2, <2>2, <2>3 DEF CreationSound, Series!SeriesWhole, Series!Unlocked, Series!At
    <2> QED
      BY <1>2, <1>3, <2>1, <2>2, <2>4 DEF SeriesShapes
  <1>7. ASSUME NEW p \in Procs, Series!Creatable(p)
        PROVE  /\ proc[p] \in Creation /\ \A q \in Procs : proc[q].at # "creating"
               /\ tasks = "none" /\ manifest = FALSE
    BY <1>2, <1>7, SeriesPoint DEF Series!Creatable, Series!Unlocked, Series!At, SeriesShapes
  <1>8. ASSUME NEW p \in Procs, Series!CreateSqlite(p)
        PROVE  SeriesInv'
    <2>1. /\ proc' = [proc EXCEPT ![p] = Series!Idle] /\ UNCHANGED <<board, torn>>
          /\ manifest' = TRUE /\ tasks' = "all" /\ Series!Creatable(p)
      BY <1>8 DEF Series!CreateSqlite, Series!End
    <2>2. \A q \in Procs : proc'[q].at # "creating"
      <3>1. proc'[p] = Series!Idle /\ \A q \in Procs : q # p => proc'[q] = proc[q]
        BY <1>5, <2>1
      <3>2. Series!Idle.at # "creating"
        BY DEF Series!Idle
      <3> QED
        BY <1>7, <2>1, <3>1, <3>2
    <2>3. CreationSound'
      BY <2>1, <2>2 DEF CreationSound, Series!SeriesWhole
    <2> QED
      BY <1>2, <1>3, <2>1, <2>3 DEF SeriesShapes
  <1>9. ASSUME NEW p \in Procs, Series!CreateGit(p)
        PROVE  SeriesInv'
    <2>1. /\ proc' = [proc EXCEPT ![p].at = "creating"] /\ UNCHANGED <<board, tasks, torn>>
          /\ manifest' = TRUE /\ Series!Creatable(p)
      BY <1>9 DEF Series!CreateGit, Series!Goto
    <2> DEFINE s == [proc[p] EXCEPT !.at = "creating"]
    <2>2. s \in Creation /\ s.at = "creating"
      BY <1>7, <2>1 DEF Creation
    <2>3. proc' = [proc EXCEPT ![p] = s]
      BY <2>1
    <2> HIDE DEF s
    <2>4. proc'[p].at = "creating" /\ \A q \in Procs : proc'[q].at = "creating" => q = p
      BY <1>5, <1>7, <2>1, <2>2, <2>3
    <2>5. CreationSound'
      BY <2>1, <2>4 DEF CreationSound, Series!SeriesWhole, Series!Unlocked, Series!At
    <2> QED
      BY <1>2, <1>3, <2>1, <2>2, <2>3, <2>5 DEF SeriesShapes
  <1>10. ASSUME NEW p \in Procs, Series!WriteTask(p)
         PROVE  SeriesInv'
    <2>1. /\ UNCHANGED <<board, manifest, torn, proc>> /\ tasks' \in {"some", "all"}
          /\ proc[p].at = "creating"
      BY <1>10 DEF Series!WriteTask, Series!At
    <2>2. CreationSound'
      BY <1>2, <2>1 DEF CreationSound, Series!SeriesWhole, Series!Unlocked, Series!At
    <2>3. PublicationSound'
      BY <1>1, <2>1 DEF SeriesInv, PublicationSound, Series!OneComment, Named
    <2> QED
      BY <1>1, <1>2, <2>1, <2>2, <2>3 DEF SeriesInv, SeriesShapes
  <1>11. ASSUME NEW p \in Procs, Series!CommitSeries(p) \/ Series!CreateFails(p)
         PROVE  SeriesInv'
    <2>1. /\ proc' = [proc EXCEPT ![p] = Series!Idle] /\ UNCHANGED <<board, torn>>
          /\ proc[p].at = "creating"
          /\ \/ tasks = "all" /\ UNCHANGED <<manifest, tasks>>
             \/ manifest' = FALSE /\ tasks' = "none"
      BY <1>11
      DEF Series!CommitSeries, Series!CreateFails, Series!Restored, Series!End, Series!At,
          Series!series
    <2>2. \A q \in Procs : proc'[q].at # "creating"
      <3>1. proc'[p] = Series!Idle /\ \A q \in Procs : q # p => proc'[q] = proc[q]
        BY <1>5, <2>1
      <3>2. Series!Idle.at # "creating"
        BY DEF Series!Idle
      <3> QED
        BY <1>2, <2>1, <3>1, <3>2 DEF CreationSound
    <2>3. CreationSound'
      BY <1>2, <2>1, <2>2 DEF CreationSound, Series!SeriesWhole
    <2> QED
      BY <1>2, <1>3, <2>1, <2>3 DEF SeriesShapes
  <1> QED
    BY <1>4, <1>6, <1>8, <1>9, <1>10, <1>11

\* Looking, posting and recording: who holds the key knows what is on the issue,
\* unless a call landed late.
LEMMA PublicationStep ==
  ASSUME SeriesInv, NEW p \in Procs,
         \/ \E outcome \in Series!Offline : Series!PublishOffline(p, outcome)
         \/ Series!Reserve(p) \/ Series!LockKey(p) \/ Series!PrepareCall(p)
         \/ Series!LookUp(p) \/ Series!CallFails(p) \/ Series!Post(p)
         \/ Series!PostUnanswered(p) \/ Series!Resolve(p)
  PROVE  SeriesInv'
  <1>1. UNCHANGED <<board, manifest, tasks, torn, late>>
    BY DEF Series!PublishOffline, Series!Reserve, Series!LockKey, Series!PrepareCall,
           Series!LookUp, Series!CallFails, Series!Post, Series!PostUnanswered,
           Series!Resolve, Series!series, Series!hosted
  <1>2. SeriesShapes /\ CreationSound /\ PublicationSound
    BY DEF SeriesInv
  <1>21. mocked' \in BOOLEAN /\ (mocked => mocked')
    <2>1. mocked \in BOOLEAN
      BY <1>2 DEF SeriesShapes
    <2>2. mocked' = mocked \/ \E outcome : mocked' = (mocked \/ (receipt = None /\ outcome.comment # 0))
      BY DEF Series!PublishOffline, Series!Reserve, Series!LockKey, Series!PrepareCall,
             Series!LookUp, Series!CallFails, Series!Post, Series!PostUnanswered,
             Series!Resolve, Series!hosted
    <2> QED
      BY <2>1, <2>2
  <1>3. ASSUME NEW s \in Publication \union {Series!Idle}, proc[p].at # "creating",
               proc' = [proc EXCEPT ![p] = s], posts' \in Nat, comments' \in SUBSET Nat,
               s.at \in Keyed => proc[p].at \in Keyed \/ Series!KeyFree,
               comments \subseteq comments',
               receipt' # None => receipt' = receipt \/ receipt'.comment = 0 \/ mocked' \/
                                  (proc[p].at = "answered" /\ receipt' = proc[p].out),
               s.at = "answered" => (s.out.comment # 0 => s.out.comment \in comments'),
               late \/ comments' = comments \/ (comments = {} /\ proc[p].at = "clear"
                  /\ s.at # "clear" /\ \E x : comments' = {x}),
               s.at = "clear" => comments' = {}
        PROVE  SeriesInv'
    <2>1. SeriesShapes'
      BY <1>1, <1>2, <1>3, <1>21 DEF SeriesShapes
    <2>2. CreationSound'
      BY <1>1, <1>3, PublicationSide
    <2>3. proc'[p] = s /\ \A q \in Procs : q # p => proc'[q] = proc[q]
      BY <1>2, <1>3 DEF SeriesShapes
    <2>4. ASSUME NEW q \in Procs, NEW u \in Procs, proc'[q].at \in Keyed, proc'[u].at \in Keyed
          PROVE  q = u
      <3>1. ASSUME NEW v \in Procs, v # p, proc'[v].at \in Keyed, s.at \in Keyed
            PROVE  FALSE
        BY <1>2, <1>3, <2>3, <3>1 DEF PublicationSound, Series!KeyFree, Keyed
      <3> QED
        BY <1>2, <2>3, <2>4, <3>1 DEF PublicationSound
    <2>5. \A q \in Procs : ~ late /\ proc'[q].at = "clear" => comments' = {}
      <3>1. ASSUME NEW q \in Procs, q # p, ~ late, proc[q].at = "clear"
            PROVE  proc[p].at # "clear" /\ comments = {}
        BY <1>2, <3>1 DEF PublicationSound, Keyed
      <3> QED
        BY <1>3, <2>3, <3>1
    <2>6. Series!OneComment'
      BY <1>1, <1>2, <1>3 DEF PublicationSound, Series!OneComment
    <2>7. receipt' # None /\ ~ mocked' => Named(receipt)'
      BY <1>2, <1>3, <1>21 DEF PublicationSound, Named
    <2>8. \A q \in Procs : proc'[q].at = "answered" =>
             (proc'[q].out.comment # 0 => proc'[q].out.comment \in comments')
      BY <1>2, <1>3, <2>3 DEF PublicationSound, Named
    <2>9. PublicationSound'
      BY <1>1, <2>4, <2>5, <2>6, <2>7, <2>8 DEF PublicationSound, Named
    <2> QED
      BY <2>1, <2>2, <2>9 DEF SeriesInv
  <1>4. /\ Series!Idle.at = "idle" /\ "idle" \notin Keyed
        /\ "reserved" \notin Keyed /\ "creating" \notin Keyed
    BY DEF Series!Idle, Keyed
  <1>5. proc[p].at \in Keyed \union {"reserved"} => proc[p] \in Publication
    BY <1>2, SeriesPoint
  <1>6. comments \in SUBSET Nat /\ posts \in Nat
    BY <1>2 DEF SeriesShapes
  <1>7. ASSUME NEW status \in {"dry_run", "deferred", "ambiguous", "published", "already_published"},
               NEW n \in Nat
        PROVE  /\ Series!Outcome(status, n) \in Outcomes
               /\ Series!Outcome(status, n).comment = n
    BY DEF Series!Outcome, Outcomes
  <1>8. ASSUME NEW outcome \in Series!Offline, Series!PublishOffline(p, outcome)
        PROVE  SeriesInv'
    <2>1. /\ proc[p] = Series!Idle /\ UNCHANGED <<comments, posts, proc>>
          /\ receipt' = IF receipt = None THEN outcome ELSE receipt
          /\ mocked' = (mocked \/ (receipt = None /\ outcome.comment # 0))
      BY <1>8 DEF Series!PublishOffline, Series!Record
    <2>2. receipt' = receipt \/ receipt'.comment = 0 \/ mocked'
      BY <2>1
    <2>3. proc' = [proc EXCEPT ![p] = Series!Idle]
      BY <1>2, <2>1 DEF SeriesShapes
    <2> QED
      BY <1>3, <1>4, <1>6, <2>1, <2>2, <2>3
  <1>9. CASE Series!Reserve(p)
    <2> DEFINE s == [at |-> "reserved", out |-> Series!Outcome("ambiguous", 0)]
    <2>1. /\ proc[p] = Series!Idle /\ UNCHANGED <<comments, posts>>
          /\ proc' = [proc EXCEPT ![p] = s]
          /\ receipt' = IF receipt = None THEN Series!Outcome("ambiguous", 0) ELSE receipt
      BY <1>9 DEF Series!Reserve, Series!Record, Series!hosted
    <2>2. s \in Publication /\ s.at = "reserved"
      BY <1>7 DEF Publication
    <2>3. receipt' = receipt \/ receipt'.comment = 0
      BY <1>7, <2>1
    <2> HIDE DEF s
    <2> QED
      BY <1>3, <1>4, <1>6, <2>1, <2>2, <2>3
  <1>10. ASSUME NEW point \in Keyed \ {"answered"}, proc[p].at \in Keyed \union {"reserved"},
                proc' = [proc EXCEPT ![p].at = point], UNCHANGED <<comments, posts>>,
                receipt' = receipt \/ receipt'.comment = 0,
                proc[p].at \in Keyed \/ Series!KeyFree,
                point = "clear" => comments = {}
         PROVE  SeriesInv'
    <2> DEFINE s == [proc[p] EXCEPT !.at = point]
    <2>1. proc' = [proc EXCEPT ![p] = s]
      BY <1>10
    <2>2. s \in Publication /\ s.at = point
      BY <1>5, <1>10 DEF Publication
    <2> HIDE DEF s
    <2> QED
      BY <1>3, <1>4, <1>6, <1>10, <2>1, <2>2
  <1>11. CASE Series!LockKey(p)
    <2>1. /\ proc[p].at = "reserved" /\ Series!KeyFree /\ UNCHANGED <<comments, posts, receipt>>
          /\ proc' = [proc EXCEPT ![p].at = "locked"]
      BY <1>11 DEF Series!LockKey, Series!At, Series!Goto, Series!hosted
    <2>2. "locked" \in Keyed \ {"answered"}
      BY DEF Keyed
    <2> QED
      BY <1>10, <2>1, <2>2
  <1>12. ASSUME proc[p].at \in Keyed, proc' = [proc EXCEPT ![p] = Series!Idle],
                UNCHANGED <<comments, posts>>,
                receipt' = receipt \/ (proc[p].at = "answered" /\ receipt' = proc[p].out)
         PROVE  SeriesInv'
    BY <1>3, <1>4, <1>6, <1>12
  <1>13. CASE Series!PrepareCall(p)
    <2>1. proc[p].at = "locked" /\ UNCHANGED <<comments, posts>>
      BY <1>13 DEF Series!PrepareCall, Series!At, Series!hosted
    <2>2. CASE Series!Resolvable
      <3>1. receipt' = Series!Outcome("ambiguous", 0) /\ proc' = [proc EXCEPT ![p].at = "prepared"]
        BY <1>13, <2>2 DEF Series!PrepareCall, Series!Goto
      <3>2. receipt'.comment = 0
        BY <1>7, <3>1
      <3>3. "prepared" \in Keyed \ {"answered"} /\ "locked" \in Keyed
        BY DEF Keyed
      <3> QED
        BY <1>10, <2>1, <3>1, <3>2, <3>3
    <2>3. CASE ~ Series!Resolvable
      <3>1. "locked" \in Keyed
        BY DEF Keyed
      <3> QED
        BY <1>12, <1>13, <2>1, <2>3, <3>1 DEF Series!PrepareCall, Series!End
    <2> QED
      BY <2>2, <2>3
  <1>14. ASSUME NEW outcome \in Outcomes, proc[p].at \in {"prepared", "clear"},
                Series!Answer(p, outcome), UNCHANGED receipt,
                posts' \in Nat, comments' \in SUBSET Nat, comments \subseteq comments',
                outcome.comment # 0 => outcome.comment \in comments',
                comments' = comments \/ (proc[p].at = "clear" /\ \E x : comments' = comments \union {x})
         PROVE  SeriesInv'
    <2> DEFINE s == [proc[p] EXCEPT !.at = "answered", !.out = outcome]
    <2>1. proc[p] \in Publication /\ "answered" \in Keyed /\ proc[p].at \in Keyed
      BY <1>5, <1>14 DEF Keyed
    <2>2. proc' = [proc EXCEPT ![p] = s]
      BY <1>2, <1>14 DEF Series!Answer, SeriesShapes
    <2>3. s \in Publication /\ s.at = "answered" /\ s.out = outcome
      BY <1>14, <2>1 DEF Publication
    <2> HIDE DEF s
    <2>4. late \/ comments' = comments \/ (comments = {} /\ proc[p].at = "clear"
                  /\ s.at # "clear" /\ \E x : comments' = {x})
      BY <1>2, <1>14, <2>3 DEF PublicationSound
    <2> QED
      BY <1>3, <1>14, <2>1, <2>2, <2>3, <2>4
  <1>15. CASE Series!LookUp(p)
    <2>1. proc[p].at = "prepared" /\ UNCHANGED <<comments, posts, receipt>> /\ Series!Found(p)
      BY <1>15 DEF Series!LookUp, Series!At, Series!hosted
    <2>2. CASE comments = {} /\ Series!Goto(p, "clear")
      <3>1. "clear" \in Keyed \ {"answered"} /\ "prepared" \in Keyed
        BY DEF Keyed
      <3> QED
        BY <1>10, <2>1, <2>2, <3>1 DEF Series!Goto
    <2>3. ASSUME NEW x \in comments, Series!Answer(p, Series!Outcome("already_published", x))
          PROVE  SeriesInv'
      BY <1>6, <1>7, <1>14, <2>1, <2>3
    <2>4. CASE Series!Answer(p, Series!Outcome("ambiguous", 0))
      BY <1>6, <1>7, <1>14, <2>1, <2>4
    <2> QED
      BY <2>1, <2>2, <2>3, <2>4 DEF Series!Found
  <1>16. CASE Series!CallFails(p)
    BY <1>6, <1>7, <1>14, <1>16 DEF Series!CallFails, Series!hosted
  <1>17. posts + 1 \in Nat /\ comments \union {posts + 1} \in SUBSET Nat
    BY <1>6
  <1>18. CASE Series!Post(p)
    <2>1. /\ proc[p].at = "clear" /\ posts' = posts + 1 /\ UNCHANGED receipt
          /\ comments' = comments \union {posts + 1}
          /\ Series!Answer(p, Series!Outcome("published", posts + 1))
      BY <1>18 DEF Series!Post, Series!At
    <2>2. /\ Series!Outcome("published", posts + 1) \in Outcomes
          /\ Series!Outcome("published", posts + 1).comment = posts + 1
      BY <1>7, <1>17
    <2> QED
      BY <1>14, <1>17, <2>1, <2>2
  <1>19. CASE Series!PostUnanswered(p)
    <2>1. /\ proc[p].at = "clear" /\ posts' = posts + 1 /\ UNCHANGED receipt
          /\ comments' = comments \union {posts + 1} \/ comments' = comments
      BY <1>19 DEF Series!PostUnanswered, Series!At
    <2>2. PICK outcome \in {Series!Outcome("deferred", 0), Series!Outcome("ambiguous", 0)} :
             Series!Answer(p, outcome)
      BY <1>19 DEF Series!PostUnanswered, Series!Unanswered
    <2>3. outcome \in Outcomes /\ outcome.comment = 0
      BY <1>7, <2>2
    <2> QED
      BY <1>6, <1>14, <1>17, <2>1, <2>2, <2>3
  <1>20. CASE Series!Resolve(p)
    <2>1. /\ proc[p].at = "answered" /\ UNCHANGED <<comments, posts>>
          /\ proc' = [proc EXCEPT ![p] = Series!Idle]
          /\ receipt' = receipt \/ receipt' = proc[p].out
      BY <1>20 DEF Series!Resolve, Series!At, Series!End, Series!hosted
    <2>2. "answered" \in Keyed
      BY DEF Keyed
    <2> QED
      BY <1>12, <2>1, <2>2
  <1> QED
    BY <1>8, <1>9, <1>11, <1>13, <1>15, <1>16, <1>18, <1>19, <1>20

\* A killed command leaves what it had written; a call that was given up may land.
LEMMA KillOrLand ==
  ASSUME SeriesInv,
         (\E p \in Procs : Series!Kill(p)) \/ \E n \in 1..MaxPosts : Series!Land(n)
  PROVE  SeriesInv'
  <1>1. SeriesShapes /\ CreationSound /\ PublicationSound
    BY DEF SeriesInv
  <1>2. ASSUME NEW p \in Procs, Series!Kill(p)
        PROVE  SeriesInv'
    <2>1. /\ proc' = [proc EXCEPT ![p] = Series!Idle]
          /\ torn' = (torn \/ proc[p].at = "creating")
          /\ UNCHANGED <<board, manifest, tasks, receipt, comments, posts, late, mocked>>
      BY <1>2 DEF Series!Kill, Series!End, Series!At, Series!hosted
    <2>2. PublicationSound'
      BY <2>1, CreationSide
    <2>3. SeriesShapes'
      BY <1>1, <2>1 DEF SeriesShapes
    <2>4. CASE proc[p].at = "creating"
      <3>1. torn' /\ \A q \in Procs : proc'[q].at # "creating"
        <4>1. proc'[p] = Series!Idle /\ \A q \in Procs : q # p => proc'[q] = proc[q]
          BY <1>1, <2>1 DEF SeriesShapes
        <4>2. Series!Idle.at # "creating"
          BY DEF Series!Idle
        <4> QED
          BY <1>1, <2>1, <2>4, <4>1, <4>2 DEF CreationSound
      <3>2. CreationSound'
        BY <3>1 DEF CreationSound, Series!SeriesWhole
      <3> QED
        BY <2>2, <2>3, <3>2 DEF SeriesInv
    <2>5. CASE proc[p].at # "creating"
      <3>1. torn' = torn
        BY <1>1, <2>1, <2>5 DEF SeriesShapes
      <3>2. CreationSound'
        BY <2>1, <2>5, <3>1, PublicationSide
      <3> QED
        BY <2>2, <2>3, <3>2 DEF SeriesInv
    <2> QED
      BY <2>4, <2>5
  <1>3. ASSUME NEW n \in 1..MaxPosts, Series!Land(n)
        PROVE  SeriesInv'
    <2>1. /\ comments' = comments \union {n} /\ late' = TRUE
          /\ UNCHANGED <<board, manifest, tasks, torn, receipt, posts, mocked, proc>>
      BY <1>3 DEF Series!Land, Series!series
    <2>2. n \in Nat
      BY <1>3
    <2>3. SeriesShapes'
      BY <1>1, <2>1, <2>2 DEF SeriesShapes
    <2>4. CreationSound'
      BY <1>1, <2>1 DEF CreationSound, Series!SeriesWhole, Series!Unlocked, Series!At
    <2>5. PublicationSound'
      BY <1>1, <2>1 DEF PublicationSound, Series!OneComment, Named
    <2> QED
      BY <2>3, <2>4, <2>5 DEF SeriesInv
  <1> QED
    BY <1>2, <1>3

\* The series, its receipt and the commands agree in every reachable state.
THEOREM SeriesInvariance == Series!Spec => []SeriesInv
  <1>1. SeriesInv /\ [Series!Next]_(Series!vars) => SeriesInv'
    <2> SUFFICES ASSUME SeriesInv, [Series!Next]_(Series!vars) PROVE SeriesInv'
      OBVIOUS
    <2>1. CASE UNCHANGED Series!vars
      BY <2>1
      DEF Series!vars, Series!series, Series!hosted, SeriesInv, SeriesShapes, CreationSound,
          Series!SeriesWhole, Series!Unlocked, Series!At, PublicationSound,
          Series!OneComment, Named
    <2>2. ASSUME NEW p \in Procs, Series!Step(p) PROVE SeriesInv'
      BY <2>2, CreationStep, PublicationStep, KillOrLand DEF Series!Step
    <2> QED
      BY <2>1, <2>2, CreationStep, KillOrLand DEF Series!Next
  <1> QED
    BY InitSeries, <1>1, PTL DEF Series!Spec

\* Nobody publishes live, no comment is on the issue and no call is under way.
Silent ==
    /\ \A p \in Procs : proc[p].at \notin Keyed \union {"reserved"}
    /\ comments = {} /\ flying = {}

\* A live publication reserves its receipt before it does anything else, so that nothing
\* happened while there is none; and a mock's receipt is final.
MockInv ==
    /\ receipt = None \/ mocked => Silent
    /\ mocked => receipt # None /\ receipt.status \in Series!Final

\* A step that changes no receipt and starts no publication.
LEMMA StaysSilent ==
  ASSUME SeriesInv, MockInv, NEW p \in Procs, UNCHANGED <<receipt, mocked, comments, flying>>,
         proc' = proc \/ \E s \in Creation \union {Series!Idle} : proc' = [proc EXCEPT ![p] = s]
  PROVE  MockInv'
  <1>1. \A s \in Creation \union {Series!Idle} : s.at \notin Keyed \union {"reserved"}
    BY DEF Creation, Series!Idle, Keyed
  <1>2. Silent => Silent'
    BY <1>1 DEF SeriesInv, SeriesShapes, Silent
  <1> QED
    BY <1>2 DEF MockInv

\* A publication that was reserved or later found no mock's receipt.
LEMMA StepMock ==
  ASSUME SeriesInv, MockInv, [Series!Next]_(Series!vars)
  PROVE  MockInv'
  <1>1. CASE UNCHANGED Series!vars \/ Series!BoardChanges
    BY <1>1 DEF Series!vars, Series!hosted, Series!BoardChanges, MockInv, Silent
  <1>2. ASSUME NEW p \in Procs,
               Series!Plan(p) \/ Series!CreateSqlite(p) \/ Series!CreateGit(p)
               \/ Series!WriteTask(p) \/ Series!CommitSeries(p) \/ Series!CreateFails(p)
               \/ Series!Kill(p)
        PROVE  MockInv'
    <2>1. UNCHANGED <<receipt, mocked, comments, flying>>
      BY <1>2 DEF Series!Plan, Series!CreateSqlite, Series!CreateGit, Series!WriteTask,
                  Series!CommitSeries, Series!CreateFails, Series!Kill, Series!hosted
    <2>2. board \in Nat /\ (proc[p].at = "planned" => proc[p] \in Creation)
      BY SeriesPoint DEF SeriesInv, SeriesShapes
    <2>3. proc' = proc \/ \E s \in Creation \union {Series!Idle} : proc' = [proc EXCEPT ![p] = s]
      <3>1. CASE Series!Plan(p)
        <4>1. [at |-> "planned", digest |-> board] \in Creation
          BY <2>2 DEF Creation
        <4> QED
          BY <3>1, <4>1 DEF Series!Plan
      <3>2. CASE Series!CreateGit(p)
        <4>1. proc[p].at = "planned" /\ proc' = [proc EXCEPT ![p] = [proc[p] EXCEPT !.at = "creating"]]
          BY <3>2 DEF Series!CreateGit, Series!Creatable, Series!At, Series!Goto
        <4>2. [proc[p] EXCEPT !.at = "creating"] \in Creation
          BY <2>2, <4>1 DEF Creation
        <4> QED
          BY <4>1, <4>2
      <3>3. CASE Series!CreateSqlite(p) \/ Series!WriteTask(p) \/ Series!CommitSeries(p)
                 \/ Series!CreateFails(p) \/ Series!Kill(p)
        BY <3>3 DEF Series!CreateSqlite, Series!WriteTask, Series!CommitSeries,
                    Series!CreateFails, Series!Kill, Series!End
      <3> QED
        BY <1>2, <3>1, <3>2, <3>3
    <2> QED
      BY <2>1, <2>3, StaysSilent
  <1>3. ASSUME NEW p \in Procs, NEW outcome \in Series!Offline, Series!PublishOffline(p, outcome)
        PROVE  MockInv'
    <2>1. /\ receipt' = IF receipt = None THEN outcome ELSE receipt
          /\ mocked' = (mocked \/ (receipt = None /\ outcome.comment # 0))
          /\ UNCHANGED <<comments, flying, proc>>
      BY <1>3 DEF Series!PublishOffline, Series!Record
    <2>2. outcome # None /\ (outcome.comment # 0 => outcome.status \in Series!Final)
      <3>1. CASE outcome \in {Series!Outcome(status, 0) : status \in {"dry_run", "deferred", "ambiguous"}}
        BY <3>1, AbsenceAssumption DEF Series!Outcome
      <3>2. ASSUME NEW status \in Series!Final, NEW n \in 1..MaxPosts,
                   outcome = Series!Outcome(status, n)
            PROVE  outcome # None /\ outcome.status \in Series!Final
        <4>1. n \in Nat
          BY <3>2
        <4> QED
          BY <3>2, <4>1, AbsenceAssumption DEF Series!Outcome, Series!Final
      <3> QED
        BY <1>3, <3>1, <3>2 DEF Series!Offline
    <2>3. mocked \in BOOLEAN
      BY DEF SeriesInv, SeriesShapes
    <2>4. mocked' => Silent /\ receipt' # None /\ receipt'.status \in Series!Final
      BY <2>1, <2>2, <2>3 DEF MockInv
    <2>5. receipt' # None
      BY <2>1, <2>2
    <2>6. Silent => Silent'
      BY <2>1 DEF Silent
    <2> QED
      BY <2>4, <2>5, <2>6 DEF MockInv
  <1>4. ASSUME NEW p \in Procs, Series!Reserve(p)
        PROVE  MockInv'
    <2>1. /\ receipt # None => receipt.status \notin Series!Final
          /\ receipt' = IF receipt = None THEN Series!Outcome("ambiguous", 0) ELSE receipt
          /\ mocked' = mocked
      BY <1>4 DEF Series!Reserve, Series!Record, Series!hosted
    <2>2. Series!Outcome("ambiguous", 0) # None
      BY AbsenceAssumption DEF Series!Outcome
    <2> QED
      BY <2>1, <2>2 DEF MockInv
  <1>5. ASSUME NEW p \in Procs,
               Series!LockKey(p) \/ Series!PrepareCall(p) \/ Series!LookUp(p)
               \/ Series!CallFails(p) \/ Series!Post(p) \/ Series!PostUnanswered(p)
               \/ Series!Resolve(p)
        PROVE  MockInv'
    <2>1. proc[p].at \in Keyed \union {"reserved"} /\ mocked' = mocked
      BY <1>5 DEF Series!LockKey, Series!PrepareCall, Series!LookUp, Series!CallFails,
                  Series!Post, Series!PostUnanswered, Series!Resolve, Series!At,
                  Series!hosted, Keyed
    <2>2. receipt # None /\ ~ mocked
      BY <2>1 DEF MockInv, Silent
    <2>3. proc[p].out \in Outcomes
      BY <2>1, SeriesPoint DEF SeriesInv, Publication
    <2>4. receipt' \in {receipt, Series!Outcome("ambiguous", 0), proc[p].out}
      BY <1>5 DEF Series!LockKey, Series!PrepareCall, Series!LookUp, Series!CallFails,
                  Series!Post, Series!PostUnanswered, Series!Resolve
    <2>5. Series!Outcome("ambiguous", 0) # None /\ None \notin Outcomes
      BY AbsenceAssumption DEF Series!Outcome, Outcomes
    <2> QED
      BY <2>1, <2>2, <2>3, <2>4, <2>5 DEF MockInv
  <1>6. ASSUME NEW n \in 1..MaxPosts, Series!Land(n)
        PROVE  MockInv'
    <2>1. flying # {} /\ UNCHANGED <<receipt, mocked>>
      BY <1>6 DEF Series!Land
    <2> QED
      BY <2>1 DEF MockInv, Silent
  <1> QED
    BY <1>1, <1>2, <1>3, <1>4, <1>5, <1>6 DEF Series!Next, Series!Step

\* A series is whole unless a creation was killed, one comment is left unless a call
\* landed late, and the receipt names a comment that is there, unless a mock wrote it, and
\* then there is none: for any number of commands, calls and kills
\* (cmd_issue_series_create, cmd_issue_series_publish).
THEOREM SeriesSafety == Series!Spec => []SeriesSound
  <1>1. Series!Init => MockInv
    BY DEF Series!Init, MockInv, Silent, Keyed, Series!Idle
  <1>2. SeriesInv /\ MockInv /\ [Series!Next]_(Series!vars) => MockInv'
    BY StepMock
  <1>3. SeriesInv /\ MockInv => SeriesSound
    BY DEF SeriesInv, CreationSound, PublicationSound, SeriesSound, Series!SeriesSound,
           Series!ReceiptNamesComment, Named, MockInv, Silent
  <1> QED
    BY <1>1, <1>2, <1>3, SeriesInvariance, PTL DEF Series!Spec
-----------------------------------------------------------------------------
(* The rollback of a checkpoint.                                             *)

Statuses == {"planned", "restore_started", "ambiguous", "rollback_completed"}
Records == [status : Statuses, op : Nat, current : Nat, rollback : Nat \union {None},
            revision : Nat]
Targeting == [at : {"targeted"}, previous : Records \union {None}, current : Nat,
              reconcile : BOOLEAN]
Starting == [at : {"started"}, record : Records, skip : BOOLEAN]
Finishing == [at : {"reverted", "restored"}, record : Records, rollback : Nat]
Commands == Targeting \union Starting \union Finishing

Newest == Len(product)

\* A tree contains work that was committed before it, and operations are planned for
\* trees of the product.
ProductSound ==
    /\ product \in Seq(SUBSET Nat) /\ Newest >= 1 /\ product[1] = {}
    /\ \A i \in 1..Newest : product[i] \subseteq 1..i
    /\ planned \in Seq(SUBSET Nat) /\ undone \in Seq(SUBSET Nat)
    /\ Len(undone) = Len(planned)
    /\ \A op \in 1..Len(planned) : planned[op] \subseteq 1..Newest

\* The work an operation was planned to undo is out of the product.
Gone(op) == product[Newest] \intersect planned[op] = {}

\* The operation's work is out of the product since the revert.  An operation that
\* started at the checkpoint has nothing to undo, and needs no revert.
Settled(op, revert) ==
    /\ revert \in 1..Newest
    /\ product[revert] \intersect planned[op] = {}
    /\ Gone(op)
    /\ revert = 1 => planned[op] = {}

\* A record without a revert was made at the tree its operation was planned for,
\* unless the record of a revert that had been made was lost.
RecordSound(r) ==
    /\ r.op \in 1..Len(planned) /\ r.current \in 1..Newest
    /\ r.current = 1 => planned[r.op] = {}
    /\ r.rollback = None => \/ product[r.current] = planned[r.op]
                            \/ Gone(r.op) /\ r.op \in forgotten
    /\ r.rollback # None => Settled(r.op, r.rollback)

CommandSound(k) ==
    /\ k \in Targeting => /\ k.current \in 1..Newest
                          /\ k.previous # None => RecordSound(k.previous)
    /\ k \in Starting => RecordSound(k.record) /\ (k.skip <=> k.record.rollback # None)
    /\ k \in Finishing => /\ RecordSound(k.record) /\ Settled(k.record.op, k.rollback)
                          /\ k.at = "restored" => k.record.op \in restored

RollbackInv ==
    /\ ProductSound
    /\ Rollback!OnlyPlannedUndone
    /\ journal \in Records \union {None}
    /\ journal # None =>
          /\ RecordSound(journal)
          /\ journal.status = "rollback_completed" =>
                journal.op \in restored /\ journal.rollback # None
    /\ command \in [Operators -> Commands \union {Rollback!Idle}]
    /\ \A p \in Operators : CommandSound(command[p])

\* A command's point tells its state.
LEMMA CommandPoint ==
  /\ \A k \in Targeting : k.at = "targeted"
  /\ \A k \in Starting : k.at = "started"
  /\ \A k \in Finishing : k.at \in {"reverted", "restored"}
  /\ Rollback!Idle.at = "idle"
  BY DEF Targeting, Starting, Finishing, Rollback!Idle

\* An idle command knows nothing.
LEMMA IdleSound == CommandSound(Rollback!Idle)
  <1>1. /\ Rollback!Idle \notin Targeting /\ Rollback!Idle \notin Starting
        /\ Rollback!Idle \notin Finishing
    BY CommandPoint
  <1> QED
    BY <1>1 DEF CommandSound

\* Nothing is planned at the checkpoint.
LEMMA InitRollback == Rollback!Init => RollbackInv
  <1> SUFFICES ASSUME Rollback!Init PROVE RollbackInv
    OBVIOUS
  <1>1. ProductSound
    <2>1. product = <<{}>> /\ planned = <<>> /\ undone = <<>>
      BY DEF Rollback!Init
    <2>2. product \in Seq(SUBSET Nat) /\ Len(product) = 1 /\ product[1] = {}
      BY <2>1
    <2>3. planned \in Seq(SUBSET Nat) /\ undone \in Seq(SUBSET Nat)
          /\ Len(undone) = 0 /\ Len(planned) = 0
      BY <2>1
    <2> QED
      BY <2>2, <2>3 DEF ProductSound, Newest
  <1>2. Rollback!OnlyPlannedUndone
    BY DEF Rollback!Init, Rollback!OnlyPlannedUndone
  <1>3. command \in [Operators -> Commands \union {Rollback!Idle}]
        /\ \A p \in Operators : command[p] = Rollback!Idle
    BY DEF Rollback!Init
  <1> QED
    BY <1>1, <1>2, <1>3, IdleSound DEF RollbackInv, Rollback!Init

\* What has to be known of a step: the product is extended by a tree without work
\* that was out of it before, operations are added, and records only get lost.
Extends ==
    /\ ProductSound'
    /\ \/ UNCHANGED product
       \/ \E tree \in SUBSET Nat : /\ product' = Append(product, tree)
                                   /\ tree \subseteq product[Newest] \union {Newest + 1}
    /\ planned' = planned \/ \E tree \in SUBSET Nat : planned' = Append(planned, tree)
    /\ forgotten \subseteq forgotten' /\ restored \subseteq restored'

\* What is known of a record or a command stays true then.
LEMMA KnownStays ==
  ASSUME ProductSound, Extends
  PROVE  /\ \A op, revert : op \in 1..Len(planned) /\ Settled(op, revert) => Settled(op, revert)'
         /\ \A r : RecordSound(r) => RecordSound(r)'
         /\ \A k : CommandSound(k) => CommandSound(k)'
  <1>1. /\ Newest \in Nat /\ Newest >= 1 /\ Newest' \in Nat /\ Len(planned) \in Nat
        /\ Len(planned') \in Nat /\ Newest \in 1..Newest
    BY DEF ProductSound, Newest, Extends
  <1>2. Newest <= Newest' /\ \A i \in 1..Newest : product'[i] = product[i]
    BY DEF ProductSound, Newest, Extends
  <1>3. Len(planned) <= Len(planned') /\ \A op \in 1..Len(planned) : planned'[op] = planned[op]
    <2>1. CASE planned' = planned
      BY <1>1, <2>1
    <2>2. CASE \E tree \in SUBSET Nat : planned' = Append(planned, tree)
      <3>1. PICK tree \in SUBSET Nat : planned' = Append(planned, tree)
        BY <2>2
      <3>2. planned \in Seq(SUBSET Nat)
        BY DEF ProductSound
      <3> QED
        BY <3>1, <3>2
    <2> QED
      BY <2>1, <2>2 DEF Extends
  <1>4. product'[Newest'] \subseteq product[Newest] \union {Newest + 1}
    <2>1. CASE UNCHANGED product
      BY <2>1 DEF Newest
    <2>2. CASE \E tree \in SUBSET Nat :
                  product' = Append(product, tree) /\ tree \subseteq product[Newest] \union {Newest + 1}
      <3>1. PICK tree \in SUBSET Nat :
               product' = Append(product, tree) /\ tree \subseteq product[Newest] \union {Newest + 1}
        BY <2>2
      <3>2. product \in Seq(SUBSET Nat)
        BY DEF ProductSound
      <3>3. Len(Append(product, tree)) = Len(product) + 1
            /\ Append(product, tree)[Len(product) + 1] = tree
        BY <3>2
      <3>4. product'[Newest'] = tree
        BY <3>1, <3>3 DEF Newest
      <3> QED
        BY <3>1, <3>4
    <2> QED
      BY <2>1, <2>2 DEF Extends
  <1>5. \A op \in 1..Len(planned) : Newest + 1 \notin planned[op]
    BY <1>1 DEF ProductSound
  <1>6. ASSUME NEW op \in 1..Len(planned), Gone(op) PROVE Gone(op)'
    BY <1>3, <1>4, <1>5, <1>6 DEF Gone
  <1>7. ASSUME NEW op \in 1..Len(planned), NEW revert, Settled(op, revert)
        PROVE  Settled(op, revert)'
    <2>1. revert \in 1..Newest /\ revert \in 1..Newest'
      BY <1>1, <1>2, <1>7 DEF Settled
    <2> QED
      BY <1>2, <1>3, <1>6, <1>7, <2>1 DEF Settled
  <1>8. ASSUME NEW r, RecordSound(r) PROVE RecordSound(r)'
    <2>1. /\ r.op \in 1..Len(planned) /\ r.current \in 1..Newest
          /\ r.op \in 1..Len(planned') /\ r.current \in 1..Newest'
      BY <1>1, <1>2, <1>3, <1>8 DEF RecordSound
    <2>2. product'[r.current] = product[r.current] /\ planned'[r.op] = planned[r.op]
      BY <1>2, <1>3, <2>1
    <2>3. forgotten \subseteq forgotten'
      BY DEF Extends
    <2> QED
      BY <1>6, <1>7, <1>8, <2>1, <2>2, <2>3 DEF RecordSound
  <1>9. ASSUME NEW k, CommandSound(k) PROVE CommandSound(k)'
    <2>1. k \in Targeting => (k.current \in 1..Newest' /\ (k.previous # None => RecordSound(k.previous)'))
      BY <1>1, <1>2, <1>8, <1>9 DEF CommandSound
    <2>2. k \in Starting => (RecordSound(k.record)' /\ (k.skip <=> k.record.rollback # None))
      BY <1>8, <1>9 DEF CommandSound
    <2>3. k \in Finishing => /\ RecordSound(k.record)'
                             /\ Settled(k.record.op, k.rollback)'
                             /\ k.at = "restored" => k.record.op \in restored'
      BY <1>7, <1>8, <1>9 DEF CommandSound, RecordSound, Extends
    <2> QED
      BY <2>1, <2>2, <2>3 DEF CommandSound
  <1> QED
    BY <1>7, <1>8, <1>9

\* Nothing of the product or of the operations changes in most steps.
LEMMA QuietExtends ==
  ASSUME ProductSound, UNCHANGED <<product, planned, undone>>,
         forgotten \subseteq forgotten', restored \subseteq restored'
  PROVE  Extends
  BY DEF Extends, ProductSound, Newest

\* A step that extends the product, keeps to what was planned, writes a sound record
\* and leaves its command in a sound state keeps the invariant.
LEMMA StepKeeps ==
  ASSUME RollbackInv, Extends, Rollback!OnlyPlannedUndone',
         \/ UNCHANGED journal
         \/ /\ journal' \in Records /\ RecordSound(journal)'
            /\ journal'.status = "rollback_completed" =>
                  journal'.op \in restored' /\ journal'.rollback # None,
         \/ UNCHANGED command
         \/ \E p \in Operators : \E k \in Commands \union {Rollback!Idle} :
               command' = [command EXCEPT ![p] = k] /\ CommandSound(k)'
  PROVE  RollbackInv'
  <1>1. ProductSound /\ ProductSound'
    BY DEF RollbackInv, Extends
  <1>2. /\ \A r : RecordSound(r) => RecordSound(r)'
        /\ \A k : CommandSound(k) => CommandSound(k)'
    BY <1>1, KnownStays
  <1>3. /\ journal' \in Records \union {None}
        /\ journal' # None =>
              /\ RecordSound(journal)'
              /\ journal'.status = "rollback_completed" =>
                    journal'.op \in restored' /\ journal'.rollback # None
    <2>1. CASE UNCHANGED journal
      <3>1. journal \in Records \union {None}
            /\ (journal # None =>
                  /\ RecordSound(journal)
                  /\ journal.status = "rollback_completed" =>
                        journal.op \in restored /\ journal.rollback # None)
        BY DEF RollbackInv
      <3>2. journal # None => RecordSound(journal)'
        <4> SUFFICES ASSUME journal # None PROVE RecordSound(journal)'
          OBVIOUS
        <4>1. PICK r : r = journal
          OBVIOUS
        <4>2. RecordSound(r)
          BY <3>1, <4>1
        <4>3. RecordSound(r)'
          BY <1>2, <4>2
        <4> QED
          BY <2>1, <4>1, <4>3 DEF RecordSound
      <3> QED
        BY <2>1, <3>1, <3>2 DEF Extends
    <2>2. CASE ~ UNCHANGED journal
      BY <2>2
    <2> QED
      BY <2>1, <2>2
  <1>4. /\ command' \in [Operators -> Commands \union {Rollback!Idle}]
        /\ \A p \in Operators : CommandSound(command[p])'
    <2>1. command \in [Operators -> Commands \union {Rollback!Idle}]
          /\ \A p \in Operators : CommandSound(command[p])
      BY DEF RollbackInv
    <2>2. ASSUME NEW q \in Operators, command'[q] = command[q]
          PROVE  CommandSound(command[q])'
      <3>1. PICK k : k = command[q]
        OBVIOUS
      <3>2. CommandSound(k)'
        BY <1>2, <2>1, <3>1
      <3> QED
        BY <2>2, <3>1, <3>2 DEF CommandSound
    <2>3. CASE UNCHANGED command
      BY <2>1, <2>2, <2>3
    <2>4. CASE \E p \in Operators : \E k \in Commands \union {Rollback!Idle} :
                  command' = [command EXCEPT ![p] = k] /\ CommandSound(k)'
      <3>1. PICK p \in Operators, k \in Commands \union {Rollback!Idle} :
               command' = [command EXCEPT ![p] = k] /\ CommandSound(k)'
        BY <2>4
      <3>2. command'[p] = k /\ \A q \in Operators \ {p} : command'[q] = command[q]
        BY <2>1, <3>1
      <3>3. CommandSound(command[p])'
        BY <3>1, <3>2 DEF CommandSound
      <3>4. command' \in [Operators -> Commands \union {Rollback!Idle}]
        BY <2>1, <3>1
      <3> QED
        BY <2>2, <3>2, <3>3, <3>4
    <2> QED
      BY <2>3, <2>4
  <1> QED
    BY <1>1, <1>3, <1>4 DEF RollbackInv

\* A command's state is the one of its point.
LEMMA CommandAt ==
  ASSUME RollbackInv, NEW p \in Operators
  PROVE  /\ CommandSound(command[p])
         /\ command[p].at = "targeted" => command[p] \in Targeting
         /\ command[p].at = "started" => command[p] \in Starting
         /\ command[p].at \in {"reverted", "restored"} => command[p] \in Finishing
  <1>1. command[p] \in Targeting \union Starting \union Finishing \union {Rollback!Idle}
        /\ CommandSound(command[p])
    BY DEF RollbackInv, Commands
  <1> QED
    BY <1>1, CommandPoint

\* A command reads the journal and the head.
LEMMA TargetSteps ==
  ASSUME RollbackInv, NEW p \in Operators, NEW flag \in BOOLEAN, Rollback!Target(p, flag)
  PROVE  RollbackInv'
  <1> DEFINE next == [at |-> "targeted", previous |-> journal, current |-> Newest,
                      reconcile |-> flag]
  <1>1. /\ command' = [command EXCEPT ![p] = next]
        /\ UNCHANGED <<product, journal, planned, undone, restored, forgotten>>
    BY DEF Rollback!Target, Rollback!Goto, Rollback!Current, Newest, Rollback!history
  <1>2. Newest \in Nat /\ Newest \in 1..Newest /\ ProductSound
    BY DEF RollbackInv, ProductSound, Newest
  <1>3. Extends
    BY <1>1, <1>2, QuietExtends
  <1>4. journal \in Records \union {None} /\ (journal # None => RecordSound(journal))
    BY DEF RollbackInv
  <1>5. /\ next.at = "targeted" /\ next.previous = journal /\ next.current = Newest
        /\ next.reconcile = flag
        /\ next \in Targeting /\ next \in Commands
    BY <1>2, <1>4 DEF Targeting, Commands
  <1> HIDE DEF next
  <1>6. PICK k : k = next
    OBVIOUS
  <1>7. k \notin Starting /\ k \notin Finishing
    BY <1>5, <1>6, CommandPoint
  <1>8. CommandSound(k)
    BY <1>2, <1>4, <1>5, <1>6, <1>7 DEF CommandSound
  <1>9. CommandSound(k)'
    BY <1>2, <1>3, <1>8, KnownStays
  <1>10. Rollback!OnlyPlannedUndone'
    BY <1>1 DEF RollbackInv, Rollback!OnlyPlannedUndone
  <1> QED
    BY <1>1, <1>3, <1>5, <1>6, <1>9, <1>10, StepKeeps

\* A reconciliation continues at the revert's commit, or where the operation started.
LEMMA ReconcileSteps ==
  ASSUME RollbackInv, NEW p \in Operators, Rollback!StartReconcile(p)
  PROVE  RollbackInv'
  <1> DEFINE was == command[p]
             previous == was.previous
             started == Rollback!Record("restore_started", previous.op, was.current,
                                        previous.rollback, previous.revision + 1)
             next == [at |-> "started", record |-> started,
                      skip |-> previous.rollback # None]
  <1>1. /\ was.at = "targeted" /\ previous # None
        /\ Rollback!SameHead(previous, was.current)
        /\ journal' = started
        /\ command' = [command EXCEPT ![p] = next]
        /\ UNCHANGED <<product, planned, undone, restored, forgotten>>
    BY DEF Rollback!StartReconcile, Rollback!At, Rollback!Started, Rollback!Goto,
           Rollback!SkipProduct, Rollback!history
  <1>2. was \in Targeting /\ CommandSound(was)
    BY <1>1, CommandAt
  <1>3. /\ previous \in Records /\ was.current \in Nat /\ RecordSound(previous)
    BY <1>1, <1>2 DEF Targeting, CommandSound
  <1>4. ProductSound /\ Extends
    BY <1>1, QuietExtends DEF RollbackInv
  <1>5. /\ previous.op \in Nat /\ previous.rollback \in Nat \union {None}
        /\ previous.revision + 1 \in Nat
    BY <1>3 DEF Records
  <1>6. /\ started.op = previous.op /\ started.current = was.current
        /\ started.rollback = previous.rollback /\ started.status = "restore_started"
        /\ started \in Records
    BY <1>3, <1>5 DEF Rollback!Record, Records, Statuses
  <1>7. /\ next.record = started /\ next.skip = (previous.rollback # None)
        /\ next.at = "started" /\ next \in Starting /\ next \in Commands
    BY <1>6 DEF Starting, Commands
  <1> HIDE DEF was, previous, started, next
  <1>8. /\ previous.rollback # None => was.current = previous.rollback
        /\ previous.rollback = None => was.current = previous.current
    BY <1>1 DEF Rollback!SameHead
  <1>9. RecordSound(started)
    <2>1. CASE previous.rollback # None
      BY <1>3, <1>6, <1>8, <2>1 DEF RecordSound, Settled
    <2>2. CASE previous.rollback = None
      BY <1>3, <1>6, <1>8, <2>2 DEF RecordSound
    <2> QED
      BY <2>1, <2>2
  <1>10. PICK k : k = next
    OBVIOUS
  <1>11. PICK r : r = started
    OBVIOUS
  <1>12. CommandSound(k)
    <2>1. k \notin Targeting /\ k \notin Finishing
      BY <1>7, <1>10, CommandPoint
    <2> QED
      BY <1>6, <1>7, <1>9, <1>10, <2>1 DEF CommandSound
  <1>13. CommandSound(k)' /\ RecordSound(r)'
    BY <1>4, <1>9, <1>11, <1>12, KnownStays
  <1>14. RecordSound(journal)'
    BY <1>1, <1>11, <1>13 DEF RecordSound
  <1>15. Rollback!OnlyPlannedUndone'
    BY <1>1 DEF RollbackInv, Rollback!OnlyPlannedUndone
  <1>16. /\ journal' \in Records /\ RecordSound(journal)'
         /\ journal'.status # "rollback_completed"
    BY <1>1, <1>6, <1>14
  <1> QED
    BY <1>1, <1>4, <1>7, <1>10, <1>13, <1>15, <1>16, StepKeeps

\* A new operation is planned for the tree that was read.
LEMMA FreshSteps ==
  ASSUME RollbackInv, NEW p \in Operators, NEW flag \in BOOLEAN, Rollback!StartFresh(p, flag)
  PROVE  RollbackInv'
  <1> DEFINE op == Len(planned) + 1
             current == command[p].current
             started == Rollback!Record("restore_started", op, current, None, 2)
             noted == Rollback!Record("planned", op, current, None, 1)
             next == [at |-> "started", record |-> started, skip |-> FALSE]
  <1>1. /\ command[p].at = "targeted"
        /\ \/ journal' = started /\ command' = [command EXCEPT ![p] = next]
           \/ journal' = noted /\ command' = [command EXCEPT ![p] = Rollback!Idle]
        /\ planned' = Append(planned, product[current])
        /\ undone' = Append(undone, {})
        /\ UNCHANGED <<product, restored, forgotten>>
    BY DEF Rollback!StartFresh, Rollback!At, Rollback!Started, Rollback!Goto,
           Rollback!End, Rollback!Tree
  <1>2. current \in Nat /\ current \in 1..Newest
    <2>1. command[p] \in Targeting /\ CommandSound(command[p])
      BY <1>1, CommandAt
    <2> QED
      BY <2>1 DEF Targeting, CommandSound
  <1>3. /\ ProductSound /\ product[current] \in SUBSET Nat /\ product[current] \subseteq 1..Newest
        /\ product[1] = {} /\ Newest \in Nat
    <2>1. ProductSound
      BY DEF RollbackInv
    <2>2. product[current] \in SUBSET Nat /\ product[current] \subseteq 1..current
          /\ product[1] = {} /\ Newest \in Nat
      BY <1>2, <2>1 DEF ProductSound, Newest
    <2>3. 1..current \subseteq 1..Newest
      BY <1>2, <2>2
    <2> QED
      BY <2>1, <2>2, <2>3
  <1>4. /\ planned \in Seq(SUBSET Nat) /\ undone \in Seq(SUBSET Nat)
        /\ Len(planned) \in Nat /\ Len(undone) = Len(planned)
    BY <1>3 DEF ProductSound
  <1>5. /\ planned' \in Seq(SUBSET Nat) /\ Len(planned') = op
        /\ planned'[op] = product[current]
        /\ \A i \in 1..Len(planned) : planned'[i] = planned[i]
    BY <1>1, <1>3, <1>4
  <1>6. /\ undone' \in Seq(SUBSET Nat) /\ Len(undone') = op
        /\ undone'[op] = {}
        /\ \A i \in 1..Len(planned) : undone'[i] = undone[i]
    BY <1>1, <1>4
  <1>7. op \in Nat /\ op \in 1..op /\ \A i \in 1..op : i \in 1..Len(planned) \/ i = op
    BY <1>4
  <1> HIDE DEF op, current
  <1>8. ProductSound'
    <2>1. \A i \in 1..op : planned'[i] \subseteq 1..Newest
      BY <1>3, <1>5, <1>7 DEF ProductSound
    <2> QED
      BY <1>1, <1>3, <1>5, <1>6, <2>1 DEF ProductSound, Newest
  <1>9. Extends
    BY <1>1, <1>3, <1>8 DEF Extends
  <1>10. Rollback!OnlyPlannedUndone'
    <2>1. DOMAIN planned = 1..Len(planned) /\ DOMAIN planned' = 1..op
      BY <1>4, <1>5
    <2> QED
      BY <1>1, <1>5, <1>6, <1>7, <2>1 DEF RollbackInv, Rollback!OnlyPlannedUndone
  <1>11. /\ started.op = op /\ started.current = current /\ started.rollback = None
         /\ started.status = "restore_started" /\ started \in Records
    BY <1>2, <1>7 DEF Rollback!Record, Records, Statuses
  <1>12. /\ noted.op = op /\ noted.current = current /\ noted.rollback = None
         /\ noted.status = "planned" /\ noted \in Records
    BY <1>2, <1>7 DEF Rollback!Record, Records, Statuses
  <1>13. /\ next.record = started /\ next.skip = FALSE
         /\ next.at = "started" /\ next \in Starting /\ next \in Commands
    BY <1>11 DEF Starting, Commands
  <1> HIDE DEF started, noted, next
  <1>14. ASSUME NEW r, r.op = op, r.current = current, r.rollback = None
         PROVE  RecordSound(r)'
    <2>1. op \in 1..Len(planned') /\ current \in 1..Newest'
      BY <1>1, <1>2, <1>5, <1>7 DEF Newest
    <2>2. product'[current] = planned'[op] /\ (current = 1 => planned'[op] = {})
      BY <1>1, <1>3, <1>5
    <2> QED
      BY <1>14, <2>1, <2>2 DEF RecordSound
  <1>15. /\ journal' \in Records /\ journal'.status # "rollback_completed"
         /\ journal'.op = op /\ journal'.current = current /\ journal'.rollback = None
    BY <1>1, <1>11, <1>12
  <1>16. RecordSound(journal)'
    <2>1. PICK r : r = journal'
      OBVIOUS
    <2>2. RecordSound(r)'
      BY <1>14, <1>15, <2>1
    <2> QED
      BY <2>1, <2>2 DEF RecordSound
  <1>17. CASE command' = [command EXCEPT ![p] = Rollback!Idle]
    <2>1. PICK k : k = Rollback!Idle
      OBVIOUS
    <2>2. CommandSound(k)
      BY <2>1, IdleSound
    <2>3. CommandSound(k)'
      BY <1>3, <1>9, <2>2, KnownStays
    <2> QED
      BY <1>9, <1>10, <1>15, <1>16, <1>17, <2>1, <2>3, StepKeeps
  <1>18. CASE journal' = started /\ command' = [command EXCEPT ![p] = next]
    <2>1. PICK k : k = next
      OBVIOUS
    <2>2. PICK r : r = started
      OBVIOUS
    <2>3. RecordSound(r)'
      BY <1>11, <1>14, <2>2
    <2>4. k \notin Targeting /\ k \notin Finishing
      BY <1>13, <2>1, CommandPoint
    <2>5. k.record = r /\ r.rollback = None /\ k.skip = FALSE
      BY <1>11, <1>13, <2>1, <2>2
    <2>6. CommandSound(k)'
      BY <2>3, <2>4, <2>5 DEF CommandSound
    <2> QED
      BY <1>9, <1>10, <1>13, <1>15, <1>16, <1>18, <2>1, <2>6, StepKeeps
  <1> QED
    BY <1>1, <1>17, <1>18

\* A command that has a revert of its operation's work goes on to the task.
LEMMA RevertedKeeps ==
  ASSUME RollbackInv, NEW p \in Operators, NEW record \in Records, NEW revert \in Nat,
         RecordSound(record), Extends, Rollback!OnlyPlannedUndone', UNCHANGED journal,
         Settled(record.op, revert)',
         command' = [command EXCEPT ![p] = [at |-> "reverted", record |-> record,
                                            rollback |-> revert]]
  PROVE  RollbackInv'
  <1> DEFINE next == [at |-> "reverted", record |-> record, rollback |-> revert]
  <1>1. /\ next.at = "reverted" /\ next.record = record /\ next.rollback = revert
        /\ next \in Finishing /\ next \in Commands
    BY DEF Finishing, Commands
  <1>2. command' = [command EXCEPT ![p] = next]
    OBVIOUS
  <1> HIDE DEF next
  <1>3. RecordSound(record)'
    BY KnownStays DEF RollbackInv
  <1>4. next \notin Targeting /\ next \notin Starting
    BY <1>1, CommandPoint
  <1>5. PICK k : k = next
    OBVIOUS
  <1>6. CommandSound(k)'
    BY <1>1, <1>3, <1>4, <1>5 DEF CommandSound
  <1> QED
    BY <1>1, <1>2, <1>5, <1>6, StepKeeps

\* A revert takes the work the operation was planned to undo out of the product.
LEMMA RevertSteps ==
  ASSUME RollbackInv, NEW p \in Operators, Rollback!Revert(p)
  PROVE  RollbackInv'
  <1>1. command[p].at = "started" /\ ~ command[p].skip
        /\ UNCHANGED <<journal, planned, restored, forgotten>>
    BY DEF Rollback!Revert, Rollback!At
  <1>2. PICK record : record = command[p].record
    OBVIOUS
  <1>3. record \in Records /\ RecordSound(record) /\ record.rollback = None
    <2>1. command[p] \in Starting /\ CommandSound(command[p])
      BY <1>1, CommandAt
    <2> QED
      BY <1>1, <1>2, <2>1 DEF Starting, CommandSound
  <1>4. PICK op, current : op = record.op /\ current = record.current
    OBVIOUS
  <1>5. /\ ProductSound /\ Newest \in Nat /\ Newest \in 1..Newest /\ product[Newest] \in SUBSET Nat
        /\ product \in Seq(SUBSET Nat) /\ product[1] = {} /\ product[Newest] \subseteq 1..Newest
    BY DEF RollbackInv, ProductSound, Newest
  <1>6. /\ op \in 1..Len(planned) /\ current \in 1..Newest
        /\ current = 1 => planned[op] = {}
        /\ product[current] = planned[op] \/ (Gone(op) /\ op \in forgotten)
    BY <1>3, <1>4 DEF RecordSound
  <1>7. CASE current = 1
    <2>1. /\ UNCHANGED <<product, undone>>
          /\ command' = [command EXCEPT ![p] = [at |-> "reverted", record |-> record,
                                                rollback |-> 1]]
      BY <1>2, <1>4, <1>7 DEF Rollback!Revert, Rollback!Reverted, Rollback!Goto
    <2>2. Extends
      BY <1>1, <1>5, <2>1, QuietExtends
    <2>3. Rollback!OnlyPlannedUndone'
      BY <1>1, <2>1 DEF RollbackInv, Rollback!OnlyPlannedUndone
    <2>4. Settled(op, 1)'
      BY <1>1, <1>5, <1>6, <1>7, <2>1 DEF Settled, Gone, Newest
    <2> QED
      BY <1>1, <1>3, <1>4, <2>1, <2>2, <2>3, <2>4, RevertedKeeps
  <1>8. CASE current # 1
    <2>1. PICK tree : tree = product[Newest] \ product[current]
      OBVIOUS
    <2>2. /\ product' = Append(product, tree)
          /\ undone' = [undone EXCEPT ![op] = @ \union product[current]]
          /\ command' = [command EXCEPT ![p] = [at |-> "reverted", record |-> record,
                                                rollback |-> Newest + 1]]
      BY <1>2, <1>4, <1>8, <2>1
         DEF Rollback!Revert, Rollback!Reverted, Rollback!Goto, Rollback!Current,
             Rollback!Tree, Newest
    <2>3. tree \in SUBSET Nat /\ tree \subseteq product[Newest] /\ tree \subseteq 1..Newest
      BY <1>5, <2>1
    <2>4. /\ product' \in Seq(SUBSET Nat) /\ Newest' = Newest + 1
          /\ product'[Newest + 1] = tree
          /\ \A i \in 1..Newest : product'[i] = product[i]
      BY <1>5, <2>2, <2>3 DEF Newest
    <2>5. /\ undone \in Seq(SUBSET Nat) /\ Len(undone) = Len(planned)
          /\ planned \in Seq(SUBSET Nat) /\ product[current] \in SUBSET Nat
      BY <1>5, <1>6 DEF ProductSound, Newest
    <2>6. undone[op] \union product[current] \in SUBSET Nat
      BY <1>6, <2>5
    <2>7. /\ undone' \in Seq(SUBSET Nat) /\ Len(undone') = Len(planned)
          /\ undone'[op] = undone[op] \union product[current]
          /\ \A i \in 1..Len(planned) : i # op => undone'[i] = undone[i]
      BY <1>6, <2>2, <2>5, <2>6
    <2>8. ProductSound'
      <3>1. \A i \in 1..(Newest + 1) : i \in 1..Newest \/ i = Newest + 1
        BY <1>5
      <3>2. tree \subseteq 1..(Newest + 1) /\ 1..Newest \subseteq 1..(Newest + 1)
        BY <1>5, <2>3
      <3>3. \A i \in 1..(Newest + 1) : product'[i] \subseteq 1..i
        BY <1>5, <2>4, <3>1, <3>2 DEF ProductSound
      <3>4. \A i \in 1..Len(planned) : planned[i] \subseteq 1..(Newest + 1)
        BY <1>5, <3>2 DEF ProductSound
      <3>5. product'[1] = {} /\ Newest + 1 >= 1
        BY <1>5, <2>4
      <3> QED
        BY <1>1, <2>4, <2>5, <2>7, <3>3, <3>4, <3>5 DEF ProductSound
    <2>9. Extends
      BY <1>1, <2>2, <2>3, <2>8 DEF Extends
    <2>10. product'[Newest'] \intersect planned'[op] = {}
      <3>1. CASE product[current] = planned[op]
        BY <1>1, <2>1, <2>4, <3>1
      <3>2. CASE Gone(op)
        BY <1>1, <2>3, <2>4, <3>2 DEF Gone
      <3> QED
        BY <1>6, <3>1, <3>2
    <2>11. PICK revert : revert = Newest + 1
      OBVIOUS
    <2>12. Settled(op, revert)'
      <3>1. revert \in 1..Newest' /\ revert # 1
        BY <1>5, <2>4, <2>11
      <3>2. product'[revert] \intersect planned'[op] = {} /\ Gone(op)'
        BY <2>4, <2>10, <2>11 DEF Gone
      <3> QED
        BY <3>1, <3>2 DEF Settled
    <2>13. Rollback!OnlyPlannedUndone'
      <3>1. DOMAIN planned = 1..Len(planned) /\ planned' = planned /\ forgotten' = forgotten
        BY <1>1, <2>5
      <3>2. \A i \in 1..Len(planned) : undone[i] \subseteq planned[i] \/ i \in forgotten
        BY <3>1 DEF RollbackInv, Rollback!OnlyPlannedUndone
      <3>3. undone'[op] \subseteq planned[op] \/ op \in forgotten
        BY <1>6, <2>7, <3>2
      <3>4. \A i \in 1..Len(planned) : undone'[i] \subseteq planned[i] \/ i \in forgotten
        BY <2>7, <3>2, <3>3
      <3> QED
        BY <3>1, <3>4 DEF Rollback!OnlyPlannedUndone
    <2>14. revert \in Nat
      BY <1>5, <2>11
    <2> QED
      BY <1>1, <1>3, <1>4, <2>2, <2>9, <2>11, <2>12, <2>13, <2>14, RevertedKeeps
  <1> QED
    BY <1>7, <1>8

\* A recorded revert is taken over.
LEMMA SkipSteps ==
  ASSUME RollbackInv, NEW p \in Operators, Rollback!Skip(p)
  PROVE  RollbackInv'
  <1>1. /\ command[p].at = "started" /\ command[p].skip
        /\ UNCHANGED <<product, journal, planned, undone, restored, forgotten>>
        /\ command' = [command EXCEPT ![p] = [at |-> "reverted", record |-> command[p].record,
                                              rollback |-> command[p].record.rollback]]
    BY DEF Rollback!Skip, Rollback!At, Rollback!Reverted, Rollback!Goto, Rollback!history
  <1>2. PICK record, revert : record = command[p].record /\ revert = record.rollback
    OBVIOUS
  <1>3. record \in Records /\ RecordSound(record) /\ revert # None
    <2>1. command[p] \in Starting /\ CommandSound(command[p])
      BY <1>1, CommandAt
    <2> QED
      BY <1>1, <1>2, <2>1 DEF Starting, CommandSound
  <1>4. revert \in Nat
    BY <1>2, <1>3 DEF Records
  <1>5. ProductSound /\ Extends
    BY <1>1, QuietExtends DEF RollbackInv
  <1>6. Settled(record.op, revert)'
    BY <1>2, <1>3, <1>5, KnownStays DEF RecordSound
  <1>7. Rollback!OnlyPlannedUndone'
    BY <1>1 DEF RollbackInv, Rollback!OnlyPlannedUndone
  <1> QED
    BY <1>1, <1>2, <1>3, <1>4, <1>5, <1>6, <1>7, RevertedKeeps

\* A command records its outcome and ends.
LEMMA OutcomeKeeps ==
  ASSUME RollbackInv, NEW p \in Operators, NEW record \in Records,
         Extends, Rollback!OnlyPlannedUndone', RecordSound(record)',
         record.status = "rollback_completed" => record.op \in restored' /\ record.rollback # None,
         journal' = record \/ UNCHANGED journal,
         command' = [command EXCEPT ![p] = Rollback!Idle]
  PROVE  RollbackInv'
  <1>1. PICK k : k = Rollback!Idle
    OBVIOUS
  <1>2. CommandSound(k)
    BY <1>1, IdleSound
  <1>3. CommandSound(k)'
    BY <1>2, KnownStays DEF RollbackInv
  <1>4. journal' = record => RecordSound(journal)'
    BY DEF RecordSound
  <1> QED
    BY <1>1, <1>3, <1>4, StepKeeps

\* The record of a failed revert names none: the operation's work may be out already.
LEMMA RevertFailsSteps ==
  ASSUME RollbackInv, NEW p \in Operators, NEW flag \in BOOLEAN, Rollback!RevertFails(p, flag)
  PROVE  RollbackInv'
  <1>1. PICK was, r : was = command[p].record
            /\ r = Rollback!Record("ambiguous", was.op, was.current, None, was.revision + 1)
    OBVIOUS
  <1>2. /\ command[p].at = "started" /\ journal' = r
        /\ command' = [command EXCEPT ![p] = Rollback!Idle]
        /\ forgotten' = IF was.rollback # None THEN forgotten \union {was.op} ELSE forgotten
        /\ UNCHANGED <<product, planned, undone, restored>>
    BY <1>1 DEF Rollback!RevertFails, Rollback!At, Rollback!Outcome, Rollback!End, Rollback!Goto
  <1>3. was \in Records /\ RecordSound(was)
    <2>1. command[p] \in Starting /\ CommandSound(command[p])
      BY <1>2, CommandAt
    <2> QED
      BY <1>1, <2>1 DEF Starting, CommandSound
  <1>4. /\ r.op = was.op /\ r.current = was.current /\ r.rollback = None
        /\ r.status = "ambiguous" /\ r \in Records
    <2>1. was.op \in Nat /\ was.current \in Nat /\ was.revision + 1 \in Nat
      BY <1>3 DEF Records
    <2> QED
      BY <1>1, <2>1 DEF Rollback!Record, Records, Statuses
  <1>5. ProductSound /\ Extends
    BY <1>2, QuietExtends DEF RollbackInv
  <1>6. RecordSound(was)'
    BY <1>3, <1>5, KnownStays
  <1>7. RecordSound(r)'
    <2>1. CASE was.rollback # None
      <3>1. Gone(was.op)' /\ was.op \in forgotten'
        BY <1>2, <1>6, <2>1 DEF RecordSound, Settled
      <3> QED
        BY <1>4, <1>6, <3>1 DEF RecordSound
    <2>2. CASE was.rollback = None
      BY <1>4, <1>6, <2>2 DEF RecordSound
    <2> QED
      BY <2>1, <2>2
  <1>8. Rollback!OnlyPlannedUndone'
    BY <1>2, <1>5 DEF RollbackInv, Rollback!OnlyPlannedUndone, Extends
  <1> QED
    BY <1>2, <1>4, <1>5, <1>7, <1>8, OutcomeKeeps

\* The outcome of a command that has a revert names it.
LEMMA SettledOutcome ==
  ASSUME RollbackInv, NEW p \in Operators, NEW status \in Statuses,
         command[p].at \in {"reverted", "restored"},
         status = "rollback_completed" => command[p].at = "restored",
         Rollback!Outcome(p, status, command[p].rollback),
         command' = [command EXCEPT ![p] = Rollback!Idle],
         UNCHANGED <<product, planned, undone, restored, forgotten>>
  PROVE  RollbackInv'
  <1>1. PICK was, revert, r :
            /\ was = command[p].record /\ revert = command[p].rollback
            /\ r = Rollback!Record(status, was.op, was.current, revert, was.revision + 1)
    OBVIOUS
  <1>2. journal' = r
    BY <1>1 DEF Rollback!Outcome
  <1>3. /\ was \in Records /\ RecordSound(was) /\ revert \in Nat /\ Settled(was.op, revert)
        /\ status = "rollback_completed" => was.op \in restored
    <2>1. command[p] \in Finishing /\ CommandSound(command[p])
      BY CommandAt
    <2> QED
      BY <1>1, <2>1 DEF Finishing, CommandSound
  <1>4. revert # None
    BY <1>3, AbsenceAssumption
  <1>5. /\ r.op = was.op /\ r.current = was.current /\ r.rollback = revert
        /\ r.status = status /\ r \in Records
    <2>1. was.op \in Nat /\ was.current \in Nat /\ was.revision + 1 \in Nat
      BY <1>3 DEF Records
    <2> QED
      BY <1>1, <1>3, <2>1 DEF Rollback!Record, Records
  <1>6. ProductSound /\ Extends
    BY QuietExtends DEF RollbackInv
  <1>7. RecordSound(r)
    BY <1>3, <1>4, <1>5 DEF RecordSound
  <1>8. RecordSound(r)'
    BY <1>6, <1>7, KnownStays
  <1>9. Rollback!OnlyPlannedUndone'
    BY DEF RollbackInv, Rollback!OnlyPlannedUndone
  <1> QED
    BY <1>2, <1>3, <1>4, <1>5, <1>6, <1>8, <1>9, OutcomeKeeps

\* The task is restored by a command that has a revert.
LEMMA RestoreSteps ==
  ASSUME RollbackInv, NEW p \in Operators, Rollback!RestoreTask(p)
  PROVE  RollbackInv'
  <1>1. PICK was, next : was = command[p] /\ next = [was EXCEPT !.at = "restored"]
    OBVIOUS
  <1>2. /\ was.at = "reverted" /\ restored' = restored \union {was.record.op}
        /\ command' = [command EXCEPT ![p] = next]
        /\ UNCHANGED <<product, journal, planned, undone, forgotten>>
    BY <1>1 DEF Rollback!RestoreTask, Rollback!At, Rollback!Goto
  <1>3. was \in Finishing /\ CommandSound(was)
    BY <1>1, <1>2, CommandAt
  <1>4. /\ next \in Finishing /\ next \in Commands /\ next.at = "restored"
        /\ next.record = was.record /\ next.rollback = was.rollback
    BY <1>1, <1>3 DEF Finishing, Commands
  <1>5. ProductSound /\ Extends
    BY <1>2, QuietExtends DEF RollbackInv
  <1>6. CommandSound(was)'
    BY <1>3, <1>5, KnownStays
  <1>7. CommandSound(next)'
    <2>1. next \notin Targeting /\ next \notin Starting
      BY <1>4, CommandPoint
    <2> QED
      BY <1>2, <1>3, <1>4, <1>6, <2>1 DEF CommandSound
  <1>8. Rollback!OnlyPlannedUndone'
    BY <1>2 DEF RollbackInv, Rollback!OnlyPlannedUndone
  <1> QED
    BY <1>2, <1>4, <1>5, <1>7, <1>8, StepKeeps

\* Others commit work of their own.
LEMMA WorkSteps ==
  ASSUME RollbackInv, Rollback!Work
  PROVE  RollbackInv'
  <1>1. PICK tree : tree = product[Newest] \union {Newest + 1}
    OBVIOUS
  <1>2. /\ product' = Append(product, tree)
        /\ UNCHANGED <<journal, planned, undone, restored, forgotten, command>>
    BY <1>1 DEF Rollback!Work, Rollback!Current, Rollback!Tree, Rollback!history, Newest
  <1>3. /\ ProductSound /\ Newest \in Nat /\ Newest \in 1..Newest /\ product[Newest] \in SUBSET Nat
        /\ product \in Seq(SUBSET Nat) /\ product[1] = {} /\ product[Newest] \subseteq 1..Newest
    BY DEF RollbackInv, ProductSound, Newest
  <1>4. tree \in SUBSET Nat /\ tree \subseteq 1..(Newest + 1) /\ 1..Newest \subseteq 1..(Newest + 1)
    BY <1>1, <1>3
  <1>5. /\ product' \in Seq(SUBSET Nat) /\ Newest' = Newest + 1
        /\ product'[Newest + 1] = tree
        /\ \A i \in 1..Newest : product'[i] = product[i]
    BY <1>2, <1>3, <1>4 DEF Newest
  <1>6. ProductSound'
    <2>1. \A i \in 1..(Newest + 1) : i \in 1..Newest \/ i = Newest + 1
      BY <1>3
    <2>2. \A i \in 1..(Newest + 1) : product'[i] \subseteq 1..i
      BY <1>3, <1>4, <1>5, <2>1 DEF ProductSound
    <2>3. \A i \in 1..Len(planned) : planned[i] \subseteq 1..(Newest + 1)
      BY <1>3, <1>4 DEF ProductSound
    <2>4. product'[1] = {} /\ Newest + 1 >= 1
      BY <1>3, <1>5
    <2> QED
      BY <1>2, <1>3, <1>5, <2>2, <2>3, <2>4 DEF ProductSound
  <1>7. Extends
    BY <1>1, <1>2, <1>4, <1>6 DEF Extends
  <1>8. Rollback!OnlyPlannedUndone'
    BY <1>2 DEF RollbackInv, Rollback!OnlyPlannedUndone
  <1> QED
    BY <1>2, <1>7, <1>8, StepKeeps

\* Every step of the commands, and of other people, keeps the invariant.
LEMMA RollbackStepsKeep ==
  ASSUME RollbackInv, [Rollback!Next]_(Rollback!vars)
  PROVE  RollbackInv'
  <1> DEFINE Quiet == UNCHANGED <<product, journal, planned, undone, restored, forgotten>>
  <1>1. ASSUME Quiet,
               \/ UNCHANGED command
               \/ \E p \in Operators : command' = [command EXCEPT ![p] = Rollback!Idle]
        PROVE  RollbackInv'
    <2>1. ProductSound /\ Extends
      BY <1>1, QuietExtends DEF RollbackInv
    <2>2. Rollback!OnlyPlannedUndone'
      BY <1>1 DEF RollbackInv, Rollback!OnlyPlannedUndone
    <2>3. PICK k : k = Rollback!Idle
      OBVIOUS
    <2>4. CommandSound(k)
      BY <2>3, IdleSound
    <2>5. CommandSound(k)'
      BY <2>1, <2>4, KnownStays
    <2>6. \/ UNCHANGED command
          \/ \E p \in Operators : \E q \in Commands \union {Rollback!Idle} :
                command' = [command EXCEPT ![p] = q] /\ CommandSound(q)'
      BY <1>1, <2>3, <2>5
    <2> QED
      BY <1>1, <2>1, <2>2, <2>6, StepKeeps
  <1>2. CASE Rollback!CleanUp \/ UNCHANGED Rollback!vars
    BY <1>1, <1>2 DEF Rollback!CleanUp, Rollback!vars, Rollback!history
  <1>3. ASSUME NEW p \in Operators, NEW flag \in BOOLEAN, Rollback!Stop(p, flag)
        PROVE  RollbackInv'
    BY <1>1, <1>3 DEF Rollback!Stop, Rollback!End, Rollback!Goto, Rollback!history
  <1>4. ASSUME NEW p \in Operators, Rollback!RestoreFails(p) PROVE RollbackInv'
    <2>1. "ambiguous" \in Statuses
      BY DEF Statuses
    <2> QED
      BY <1>4, <2>1, SettledOutcome
         DEF Rollback!RestoreFails, Rollback!End, Rollback!Goto, Rollback!history
  <1>5. ASSUME NEW p \in Operators, Rollback!Complete(p) PROVE RollbackInv'
    <2>1. "rollback_completed" \in Statuses
      BY DEF Statuses
    <2> QED
      BY <1>5, <2>1, SettledOutcome
         DEF Rollback!Complete, Rollback!At, Rollback!End, Rollback!Goto, Rollback!history
  <1> QED
    BY <1>2, <1>3, <1>4, <1>5, TargetSteps, ReconcileSteps, FreshSteps, RevertSteps, SkipSteps,
       RevertFailsSteps, RestoreSteps, WorkSteps DEF Rollback!Next

\* The journal, the product and the commands stay in step for any number of operators,
\* operations and commits (cmd_rollback in tools/handoffctl.py).
THEOREM RollbackInvariance == Rollback!Spec => []RollbackInv
  BY InitRollback, RollbackStepsKeep, PTL DEF Rollback!Spec

\* A rollback recorded as completed has its work out of the product and its task
\* restored, and only planned work is undone unless a record left a revert out.
THEOREM RollbackSafety == Rollback!Spec => []RollbackSound
  <1>1. RollbackInv => RollbackSound
    BY DEF RollbackInv, RecordSound, Settled, Gone, Newest, RollbackSound,
           Rollback!RollbackSound, Rollback!CompletedIsTrue, Rollback!Tree, Rollback!Current
  <1> QED
    BY <1>1, RollbackInvariance, PTL
=============================================================================
