------------------------ MODULE BarrierSessionProofs ------------------------
(***************************************************************************)
(* The barrier session implements its contract, and the effects behind it  *)
(* happen at most once and are committed only inside their session, for    *)
(* any number of processes, attempts, operations, crashes and failing      *)
(* commits.                                                                *)
(***************************************************************************)
EXTENDS BarrierSession, SessionView, TLAPS

SessionRows == {r \in Rows : r.rev # 0}

Landed == {"outcome", "refence", "recovering"}

-----------------------------------------------------------------------------
(* The session row and the processes that write it.                          *)

RowShape ==
    /\ row \in SessionRows \union {None}
    /\ proc = [p \in Procs |-> proc[p]]

OneOwner == \A p, q \in Procs : proc[p].at \in Owning /\ proc[q].at \in Owning => p = q

\* Whoever settles an outcome, recovers or fences after a second commit does so
\* over a row; only a failed first commit can leave none, and then the session
\* that was being written is a fresh one.
OwnerFindsRow(p) ==
    /\ proc[p].at \in Landed => row # None
    /\ proc[p].at = "fence" /\ row = None =>
          /\ proc[p].intent.expected = 0
          /\ \E a \in Attempts, st \in Contract!Statuses :
                proc[p].new = Contract!Fresh(a, st, 1)

\* A snapshot is the current row or an earlier one: an earlier attempt, or an
\* earlier revision of the same attempt.
Earlier(s, r) ==
    \/ s = r
    \/ s.att < r.att
    \/ s.att = r.att /\ s.rev < r.rev

SnapshotPast(p) ==
    proc[p].at = "snapped" =>
        /\ row # None
        /\ proc[p].seen \in SessionRows
        /\ Earlier(proc[p].seen, row)

SessionInv ==
    /\ RowShape
    /\ OneOwner
    /\ \A p \in Procs : OwnerFindsRow(p) /\ SnapshotPast(p)

-----------------------------------------------------------------------------
(* What the contract's transitions do to a row.                              *)

\* A fresh session is a row.
LEMMA FreshRow ==
  ASSUME NEW a \in Attempts, NEW st \in Contract!Statuses
  PROVE  /\ Contract!Fresh(a, st, 1) \in SessionRows
         /\ Contract!Fresh(a, st, 1).att = a
  BY DEF Contract!Fresh, SessionRows, Rows

\* An advanced session is the next revision of the same attempt.
LEMMA AdvanceRow ==
  ASSUME NEW s \in SessionRows, NEW st \in Contract!Statuses
  PROVE  /\ Contract!Advance(s, st) \in SessionRows
         /\ Contract!Advance(s, st).att = s.att
         /\ Contract!Advance(s, st).rev = s.rev + 1
  <1>1. s \in Rows /\ s.rev \in Nat /\ s.rev + 1 \in Nat /\ s.rev + 1 # 0
    BY DEF SessionRows, Rows
  <1>2. Contract!Advance(s, st) \in Rows
    BY <1>1 DEF Contract!Advance, Rows
  <1>3. Contract!Advance(s, st).att = s.att /\ Contract!Advance(s, st).rev = s.rev + 1
    BY <1>1 DEF Contract!Advance, Rows
  <1> QED
    BY <1>1, <1>2, <1>3 DEF SessionRows

\* So is one that is bound to a child.
LEMMA BoundRow ==
  ASSUME NEW s \in SessionRows, NEW t \in Targets, NEW op \in Ops
  PROVE  /\ Contract!Bound(s, t, op) \in SessionRows
         /\ Contract!Bound(s, t, op).att = s.att
         /\ Contract!Bound(s, t, op).rev = s.rev + 1
  <1> DEFINE n == Contract!Advance(s, "held")
  <1>1. n \in SessionRows /\ n.att = s.att /\ n.rev = s.rev + 1
    BY AdvanceRow DEF Contract!Statuses
  <1> HIDE DEF n
  <1>2. ASSUME NEW r \in {[n EXCEPT !.fwd = op], [n EXCEPT !.rbk = op]}
        PROVE  r \in SessionRows /\ r.att = s.att /\ r.rev = s.rev + 1
    BY <1>1 DEF SessionRows, Rows
  <1> QED
    BY <1>2 DEF Contract!Bound, n

\* And one that begins to reopen.
LEMMA ReopeningRow ==
  ASSUME NEW s \in SessionRows, NEW t \in Targets
  PROVE  /\ Contract!Reopening(s, t) \in SessionRows
         /\ Contract!Reopening(s, t).att = s.att
         /\ Contract!Reopening(s, t).rev = s.rev + 1
  <1> DEFINE n == Contract!Advance(s, "releasing")
  <1>1. n \in SessionRows /\ n.att = s.att /\ n.rev = s.rev + 1
    BY AdvanceRow DEF Contract!Statuses
  <1> HIDE DEF n
  <1>2. [n EXCEPT !.target = t] \in SessionRows
        /\ [n EXCEPT !.target = t].att = s.att
        /\ [n EXCEPT !.target = t].rev = s.rev + 1
    BY <1>1 DEF SessionRows, Rows
  <1> QED
    BY <1>2 DEF Contract!Reopening, n

\* A step of the contract leaves a row that is later than the one it found.
LEMMA ContractMoves ==
  ASSUME row \in SessionRows \union {None}, Contract!Next
  PROVE  /\ row' \in SessionRows /\ row' # None
         /\ row = None \/ Earlier(row, row')
  <1>1. CASE \E a \in Attempts : Contract!Open(a)
    <2>1. PICK a \in Attempts : Contract!Open(a)
      BY <1>1
    <2>2. PICK st \in Contract!Statuses : row' = Contract!Fresh(a, st, 1)
      BY <2>1 DEF Contract!Open, Contract!Statuses
    <2> QED
      BY <2>1, <2>2, FreshRow, NoneAssumption DEF Contract!Open, SessionRows
  <1>2. CASE \E a \in Attempts : Contract!Replace(a)
    <2>1. PICK a \in Attempts : Contract!Replace(a)
      BY <1>2
    <2>2. row' \in SessionRows /\ row'.att = a
      BY <2>1, FreshRow DEF Contract!Replace, Contract!Statuses
    <2>3. row.att \in Nat /\ a \in Nat
      BY <2>1, BarrierAssumption DEF Contract!Replace, SessionRows, Rows
    <2>4. row.att < row'.att
      BY <2>1, <2>2, <2>3 DEF Contract!Replace
    <2> QED
      BY <2>2, <2>4, NoneAssumption DEF Earlier, SessionRows
  <1>3. CASE \/ \E t \in Targets, op \in Ops : Contract!Bind(t, op)
             \/ \E t \in Targets : Contract!BeginReopen(t)
             \/ Contract!CompleteReopen
             \/ Contract!Fence
    <2>1. row \in SessionRows
      BY <1>3 DEF Contract!Bind, Contract!BeginReopen, Contract!CompleteReopen, Contract!Fence
    <2>2. row' \in SessionRows /\ row'.att = row.att /\ row'.rev = row.rev + 1
      BY <1>3, <2>1, BoundRow, ReopeningRow, AdvanceRow
      DEF Contract!Bind, Contract!BeginReopen, Contract!CompleteReopen, Contract!Fence,
          Contract!Statuses
    <2>3. row.rev \in Nat
      BY <2>1 DEF SessionRows, Rows
    <2> QED
      BY <2>2, <2>3, NoneAssumption DEF Earlier, SessionRows
  <1> QED
    BY <1>1, <1>2, <1>3 DEF Contract!Next, Targets

\* What is earlier than a row is earlier than every later row.
LEMMA EarlierTrans ==
  ASSUME NEW s \in SessionRows, NEW r \in SessionRows, NEW u \in SessionRows,
         Earlier(s, r), Earlier(r, u)
  PROVE  Earlier(s, u)
  <1>1. \A x \in SessionRows : x.att \in Nat /\ x.rev \in Nat
    BY BarrierAssumption DEF SessionRows, Rows
  <1> QED
    BY <1>1 DEF Earlier

\* A snapshot of the current revision of the current attempt is the current row.
LEMMA SnapshotCurrent ==
  ASSUME SessionInv, NEW p \in Procs, proc[p].at = "snapped",
         row.att = proc[p].seen.att, row.rev = proc[p].seen.rev
  PROVE  row \in SessionRows /\ row # None /\ proc[p].seen = row
  <1>1. SnapshotPast(p) /\ row \in SessionRows
    BY DEF SessionInv, SnapshotPast, RowShape
  <1>2. row.att \in Nat /\ row.rev \in Nat
    BY <1>1, BarrierAssumption DEF SessionRows, Rows
  <1> QED
    BY <1>1, <1>2 DEF SnapshotPast, Earlier

-----------------------------------------------------------------------------
(* Every step is a step of the contract or leaves the row alone.             *)

\* A transition computed from a snapshot is written only over that very row.
LEMMA CasMoves ==
  ASSUME SessionInv, NEW p \in Procs, NEW new \in SessionRows, proc[p].at = "snapped",
         new.att = proc[p].seen.att, Cas(p, new)
  PROVE  /\ row \in SessionRows /\ row # None /\ proc[p].seen = row
         /\ Write(p, row.rev, new, "committed")
  <1>1. SnapshotPast(p)
    BY DEF SessionInv
  <1>2. proc[p].seen.rev # 0
    BY <1>1 DEF SnapshotPast, SessionRows
  <1>3. row.rev = proc[p].seen.rev /\ row.att = new.att
    BY <1>1, <1>2 DEF Cas, CasAdmits, Replaces, SnapshotPast
  <1> QED
    BY <1>3, SnapshotCurrent DEF Cas

\* The first commit of a transition either lands or changes no row.
LEMMA WriteMoves ==
  ASSUME NEW p \in Procs, NEW expected, NEW new, NEW outcome,
         Write(p, expected, new, outcome)
  PROVE  row' = new \/ row' = row
  BY DEF Write, durable

\* Creating, provisioning and reconciling open a session or replace a finished or
\* a fenced one by a newer attempt.
LEMMA OpeningMoves ==
  ASSUME SessionInv, NEW p \in Procs, NEW a \in Attempts,
         Create(p, a) \/ ProvisionReleased(p, a) \/ ReconcileAmbiguous(p, a)
  PROVE  row' = row \/ Contract!Next
  <1>1. CASE Create(p, a)
    <2> DEFINE new == Contract!Fresh(a, "held", 1)
    <2>1. row' = new \/ row' = row
      BY <1>1, WriteMoves DEF Create
    <2>2. row = None \/ (row # None /\ row.status = "released" /\ a > row.att)
      <3>1. new.att = a
        BY FreshRow DEF Contract!Statuses
      <3>2. row = None \/ row.rev # 0
        BY DEF SessionInv, RowShape, SessionRows
      <3>3. CasAdmits(0, new)
        BY <1>1 DEF Create
      <3> HIDE DEF new
      <3>4. CASE Replaces(0, new)
        BY <3>1, <3>4 DEF Replaces
      <3>5. row.rev = 0 => row = None
        BY <3>2
      <3> QED
        BY <3>3, <3>4, <3>5 DEF CasAdmits
    <2>3. CASE row = None /\ row' = new
      BY <2>3 DEF Contract!Next, Contract!Open
    <2>4. CASE row # None /\ row' = new
      BY <2>2, <2>4 DEF Contract!Next, Contract!Replace
    <2> QED
      BY <2>1, <2>3, <2>4
  <1>2. CASE ProvisionReleased(p, a)
    BY <1>2, WriteMoves DEF ProvisionReleased, Contract!Next, Contract!Open
  <1>3. CASE ReconcileAmbiguous(p, a)
    BY <1>3, WriteMoves DEF ReconcileAmbiguous, Contract!Next, Contract!Replace
  <1> QED
    BY <1>1, <1>2, <1>3

\* A snapshot's transition is the contract's transition of the row.
LEMMA TransitionMoves ==
  ASSUME SessionInv, NEW p \in Procs,
         \/ \E t \in Targets, op \in Ops : BindChild(p, t, op)
         \/ \E t \in Targets : BeginReopen(p, t)
         \/ CompleteReopen(p) \/ MarkAmbiguous(p)
  PROVE  /\ row' = row \/ Contract!Next
         /\ row \in SessionRows /\ row # None
         /\ \E new \in SessionRows :
                LockFree /\ new.att = row.att /\ Write(p, row.rev, new, "committed")
  <1>0. proc[p].at = "snapped" /\ proc[p].seen \in SessionRows
    BY DEF SessionInv, SnapshotPast, BindChild, BeginReopen, CompleteReopen, MarkAmbiguous
  <1> DEFINE seen == proc[p].seen
  <1>1. CASE \E t \in Targets, op \in Ops : BindChild(p, t, op)
    <2>1. PICK t \in Targets, op \in Ops : BindChild(p, t, op)
      BY <1>1
    <2>2. Contract!Bound(seen, t, op) \in SessionRows
          /\ Contract!Bound(seen, t, op).att = seen.att
      BY <1>0, BoundRow
    <2>3. /\ row \in SessionRows /\ row # None /\ seen = row
          /\ Write(p, row.rev, Contract!Bound(seen, t, op), "committed")
      BY <1>0, <2>1, <2>2, CasMoves DEF BindChild
    <2>4. row' = Contract!Bound(row, t, op) \/ row' = row
      BY <2>3, WriteMoves
    <2> QED
      BY <2>1, <2>2, <2>3, <2>4
      DEF BindChild, Cas, Contract!Next, Contract!Bind, Targets
  <1>2. CASE \E t \in Targets : BeginReopen(p, t)
    <2>1. PICK t \in Targets : BeginReopen(p, t)
      BY <1>2
    <2>2. Contract!Reopening(seen, t) \in SessionRows
          /\ Contract!Reopening(seen, t).att = seen.att
      BY <1>0, ReopeningRow
    <2>3. /\ row \in SessionRows /\ row # None /\ seen = row
          /\ Write(p, row.rev, Contract!Reopening(seen, t), "committed")
      BY <1>0, <2>1, <2>2, CasMoves DEF BeginReopen
    <2>4. row' = Contract!Reopening(row, t) \/ row' = row
      BY <2>3, WriteMoves
    <2> QED
      BY <2>1, <2>2, <2>3, <2>4
      DEF BeginReopen, Cas, Contract!Next, Contract!BeginReopen, Targets
  <1>3. ASSUME NEW st \in {"released", "ambiguous"}, Cas(p, Contract!Advance(seen, st))
        PROVE  /\ row \in SessionRows /\ row # None /\ seen = row
               /\ row' = Contract!Advance(row, st) \/ row' = row
               /\ \E new \in SessionRows :
                      LockFree /\ new.att = row.att /\ Write(p, row.rev, new, "committed")
    <2>1. Contract!Advance(seen, st) \in SessionRows
          /\ Contract!Advance(seen, st).att = seen.att
      BY <1>0, AdvanceRow DEF Contract!Statuses
    <2>2. /\ row \in SessionRows /\ row # None /\ seen = row
          /\ Write(p, row.rev, Contract!Advance(seen, st), "committed")
      BY <1>0, <1>3, <2>1, CasMoves
    <2> QED
      BY <1>3, <2>1, <2>2, WriteMoves DEF Cas
  <1>4. CASE CompleteReopen(p)
    BY <1>3, <1>4 DEF CompleteReopen, Contract!Next, Contract!CompleteReopen
  <1>5. CASE MarkAmbiguous(p)
    BY <1>3, <1>5 DEF MarkAmbiguous, Contract!Next, Contract!Fence
  <1> QED
    BY <1>1, <1>2, <1>4, <1>5

\* A fence after a failed commit marks the row it finds, or opens the session
\* that was being written as an ambiguous one.
LEMMA FenceMoves ==
  ASSUME SessionInv, NEW p \in Procs, FenceWrite(p) \/ FenceRecovery(p)
  PROVE  row' = row \/ Contract!Next
  <1>1. CASE FenceWrite(p) /\ row # None
    BY <1>1 DEF FenceWrite, Contract!Next, Contract!Fence
  <1>2. CASE FenceWrite(p) /\ row = None
    <2>1. OwnerFindsRow(p) /\ proc[p].at = "fence"
      BY <1>2 DEF SessionInv, FenceWrite
    <2>2. proc[p].intent.expected = 0
      BY <1>2, <2>1 DEF OwnerFindsRow
    <2>3. PICK a \in Attempts, st \in Contract!Statuses :
             proc[p].new = Contract!Fresh(a, st, 1)
      BY <1>2, <2>1 DEF OwnerFindsRow
    <2>4. row' = [Contract!Fresh(a, st, 1) EXCEPT !.status = "ambiguous", !.rev = 1]
      BY <1>2, <2>2, <2>3 DEF FenceWrite
    <2>5. row' = Contract!Fresh(a, "ambiguous", 1)
      BY <2>4 DEF Contract!Fresh
    <2> QED
      BY <1>2, <2>5 DEF Contract!Next, Contract!Open
  <1>3. CASE FenceRecovery(p)
    <2>1. row # None
      BY <1>3 DEF SessionInv, OwnerFindsRow, FenceRecovery, Landed
    <2> QED
      BY <1>3, <2>1 DEF FenceRecovery, Contract!Next, Contract!Fence
  <1> QED
    BY <1>1, <1>2, <1>3

\* Every step of a process is a step of the contract or leaves the row alone.
LEMMA StepMoves ==
  ASSUME SessionInv, NEW p \in Procs, Step(p)
  PROVE  row' = row \/ Contract!Next
  <1>1. CASE \E a \in Attempts :
                 Create(p, a) \/ ProvisionReleased(p, a) \/ ReconcileAmbiguous(p, a)
    BY <1>1, OpeningMoves
  <1>2. CASE \/ \E t \in Targets, op \in Ops : BindChild(p, t, op)
             \/ \E t \in Targets : BeginReopen(p, t)
             \/ CompleteReopen(p) \/ MarkAmbiguous(p)
    BY <1>2, TransitionMoves
  <1>3. CASE FenceWrite(p) \/ FenceRecovery(p)
    BY <1>3, FenceMoves
  <1>4. CASE FinishEffect(p) \/ RecoverEffects(p) \/ RecoverRow(p)
    BY <1>4
    DEF FinishEffect, RecoverEffects, RecoverRow, Recovering, StillBound, Stands, RecoveryAdmitted,
        Contract!Next, Contract!Fence
  <1>5. CASE \/ Snapshot(p) \/ GiveUp(p) \/ PublishOutcome(p) \/ PublishFails(p)
             \/ \E t \in Targets, op \in Ops : PrepareEffect(p, t, op)
             \/ \E result \in {"receipt", "rejected", "raised"} : RunEffect(p, result)
             \/ FinishRefused(p) \/ RecoverReconciled(p) \/ RecoverIntents(p) \/ Crash(p)
    BY <1>5
    DEF Snapshot, GiveUp, PublishOutcome, PublishFails, PrepareEffect, RunEffect,
        FinishRefused, RecoverReconciled, RecoverIntents, Crash, Recovering, durable
  <1> QED
    BY <1>1, <1>2, <1>3, <1>4, <1>5 DEF Step

-----------------------------------------------------------------------------
(* The invariant of the session.                                             *)

\* Before the first session there is neither a row nor a process at work.
LEMMA InitSession == Init => SessionInv
  BY DEF Init, SessionInv, RowShape, OneOwner, OwnerFindsRow, SnapshotPast, Idle, Owning,
         Landed

\* A process that moves to a state s keeps the invariant of the session if the
\* row moved as the contract says and s claims nothing the row does not show.
LEMMA ProcStep ==
  ASSUME SessionInv, NEW p \in Procs, NEW s, proc' = [proc EXCEPT ![p] = s],
         row' = row \/ Contract!Next,
         s.at \in Owning => LockFree \/ proc[p].at \in Owning,
         s.at \in Landed => row' # None,
         s.at = "fence" /\ row' = None =>
             /\ s.intent.expected = 0
             /\ \E a \in Attempts, st \in Contract!Statuses : s.new = Contract!Fresh(a, st, 1),
         s.at = "snapped" => row' # None /\ s.seen = row'
  PROVE  SessionInv'
  <1>1. proc'[p] = s /\ \A q \in Procs \ {p} : proc'[q] = proc[q]
    BY DEF SessionInv, RowShape
  <1>2. row' \in SessionRows \union {None} /\ (row # None => row' # None)
        /\ (row # None => Earlier(row, row'))
    BY ContractMoves DEF SessionInv, RowShape, Earlier
  <1>3. RowShape'
    <2>1. proc' = [q \in Procs |-> proc'[q]]
      BY DEF SessionInv, RowShape
    <2> QED
      BY <1>2, <2>1 DEF RowShape
  <1>4. OneOwner'
    <2> SUFFICES ASSUME NEW q \in Procs, NEW r \in Procs,
                        proc'[q].at \in Owning, proc'[r].at \in Owning
                 PROVE  q = r
      BY DEF OneOwner
    <2> QED
      BY <1>1 DEF SessionInv, OneOwner, LockFree
  <1>5. ASSUME NEW q \in Procs PROVE OwnerFindsRow(q)'
    <2>1. CASE q = p
      BY <1>1, <2>1 DEF OwnerFindsRow
    <2>2. CASE q # p
      BY <1>1, <1>2, <2>2 DEF SessionInv, OwnerFindsRow
    <2> QED
      BY <2>1, <2>2
  <1>6. ASSUME NEW q \in Procs PROVE SnapshotPast(q)'
    <2>1. CASE q = p
      <3> SUFFICES ASSUME s.at = "snapped"
                   PROVE  row' # None /\ s.seen \in SessionRows /\ Earlier(s.seen, row')
        BY <1>1, <2>1 DEF SnapshotPast
      <3> QED
        BY <1>2 DEF Earlier
    <2>2. CASE q # p
      <3> SUFFICES ASSUME proc[q].at = "snapped"
                   PROVE  /\ row' # None /\ proc[q].seen \in SessionRows
                          /\ Earlier(proc[q].seen, row')
        BY <1>1, <2>2 DEF SnapshotPast
      <3>1. row # None /\ proc[q].seen \in SessionRows /\ Earlier(proc[q].seen, row)
        BY DEF SessionInv, SnapshotPast
      <3>2. row \in SessionRows /\ row' \in SessionRows
        BY <1>2, <3>1 DEF SessionInv, RowShape
      <3> QED
        BY <1>2, <3>1, <3>2, EarlierTrans
    <2> QED
      BY <2>1, <2>2
  <1> QED
    BY <1>3, <1>4, <1>5, <1>6 DEF SessionInv

\* A process that leaves the lock, or starts running an effect outside it, claims
\* nothing of the row.
LEMMA QuietStep ==
  ASSUME SessionInv, NEW p \in Procs, NEW s, proc' = [proc EXCEPT ![p] = s],
         s.at \in {"idle", "effect", "ran"}, row' = row \/ Contract!Next
  PROVE  SessionInv'
  <1>1. s.at \notin Owning /\ s.at \notin Landed /\ s.at # "fence" /\ s.at # "snapped"
    BY DEF Owning, Landed
  <1> QED
    BY <1>1, ProcStep

\* A process that takes the lock to go on over a row finds that row.
LEMMA LandedStep ==
  ASSUME SessionInv, NEW p \in Procs, NEW s, proc' = [proc EXCEPT ![p] = s],
         s.at \in Landed, LockFree \/ proc[p].at \in Owning, row # None,
         row' = row \/ Contract!Next
  PROVE  SessionInv'
  <1>1. s.at # "fence" /\ s.at # "snapped"
    BY DEF Landed
  <1>2. row' # None
    BY ContractMoves DEF SessionInv, RowShape
  <1> QED
    BY <1>1, <1>2, ProcStep

\* The first commit: when it lands there is a row, and when it fails before there
\* is one, the session it wrote is a fresh one.
LEMMA WriteStep ==
  ASSUME SessionInv, NEW p \in Procs, NEW expected, NEW new \in SessionRows, NEW outcome,
         Write(p, expected, new, outcome), LockFree, row' = row \/ Contract!Next,
         row = None => /\ expected = 0
                       /\ \E a \in Attempts, st \in Contract!Statuses :
                              new = Contract!Fresh(a, st, 1)
  PROVE  SessionInv'
  <1> DEFINE next(point) == [at |-> point, intent |-> Intent(expected, new),
                             new |-> new, outcome |-> outcome]
  <1>1. new # None
    BY NoneAssumption DEF SessionRows
  <1>2. CASE proc' = [proc EXCEPT ![p] = next("outcome")] /\ row' = new
    <2>1. next("outcome").at = "outcome"
      OBVIOUS
    <2> HIDE DEF next
    <2> QED
      BY <1>1, <1>2, <2>1, ProcStep DEF Owning
  <1>3. CASE proc' = [proc EXCEPT ![p] = next("fence")]
    <2>1. /\ next("fence").at = "fence" /\ next("fence").new = new
          /\ next("fence").intent.expected = expected
      BY DEF Intent
    <2> HIDE DEF next
    <2>2. row' = None => row = None
      BY ContractMoves DEF SessionInv, RowShape
    <2>3. next("fence").at \notin Landed
      BY <2>1 DEF Landed
    <2> QED
      BY <1>3, <2>1, <2>2, <2>3, ProcStep
  <1> QED
    BY <1>2, <1>3 DEF Write, Goto

\* Every step of a process keeps the invariant of the session.
LEMMA StepSession ==
  ASSUME SessionInv, NEW p \in Procs, Step(p)
  PROVE  SessionInv'
  <1>0. row' = row \/ Contract!Next
    BY StepMoves
  <1>1. ASSUME NEW a \in Attempts,
               Create(p, a) \/ ProvisionReleased(p, a) \/ ReconcileAmbiguous(p, a)
        PROVE  SessionInv'
    <2>1. /\ "held" \in Contract!Statuses /\ "released" \in Contract!Statuses
          /\ LockFree
      BY <1>1 DEF Contract!Statuses, Create, ProvisionReleased, ReconcileAmbiguous
    <2>2. CASE Create(p, a)
      <3>1. Write(p, 0, Contract!Fresh(a, "held", 1), "committed")
        BY <2>2 DEF Create
      <3> QED
        BY <1>0, <2>1, <3>1, FreshRow, WriteStep
    <2>3. CASE ProvisionReleased(p, a)
      <3>1. Write(p, 0, Contract!Fresh(a, "released", 1), "committed")
        BY <2>3 DEF ProvisionReleased
      <3> QED
        BY <1>0, <2>1, <3>1, FreshRow, WriteStep
    <2>4. CASE ReconcileAmbiguous(p, a)
      <3>1. Write(p, row.rev, Contract!Fresh(a, "held", 1), "reconciled") /\ row # None
        BY <2>4 DEF ReconcileAmbiguous
      <3> QED
        BY <1>0, <2>1, <3>1, FreshRow, WriteStep
    <2> QED
      BY <1>1, <2>2, <2>3, <2>4
  <1>2. CASE \/ \E t \in Targets, op \in Ops : BindChild(p, t, op)
             \/ \E t \in Targets : BeginReopen(p, t)
             \/ CompleteReopen(p) \/ MarkAmbiguous(p)
    BY <1>0, <1>2, TransitionMoves, WriteStep
  <1>3. CASE Snapshot(p)
    <2> DEFINE s == [at |-> "snapped", seen |-> row]
    <2>1. s.at = "snapped" /\ s.seen = row
      OBVIOUS
    <2>2. proc' = [proc EXCEPT ![p] = s] /\ row' = row /\ row # None
      BY <1>3 DEF Snapshot, Goto, durable
    <2> HIDE DEF s
    <2> QED
      BY <2>1, <2>2, ProcStep DEF Owning, Landed
  <1>4. Idle.at = "idle"
    BY DEF Idle
  <1> DEFINE refence == [at |-> "refence"]
             recovering == [at |-> "recovering"]
  <1>5. refence.at \in Landed /\ recovering.at \in Landed
    BY DEF Landed
  <1> HIDE DEF refence, recovering
  <1>6. CASE proc' = [proc EXCEPT ![p] = Idle]
    BY <1>0, <1>4, <1>6, QuietStep
  <1>7. CASE \/ GiveUp(p) \/ PublishOutcome(p) \/ FenceWrite(p) \/ FenceRecovery(p)
             \/ FinishRefused(p) \/ Crash(p)
    BY <1>6, <1>7
    DEF GiveUp, PublishOutcome, FenceWrite, FenceRecovery, FinishRefused, Crash, Goto
  <1>8. CASE PublishFails(p)
    <2>1. proc[p].at \in Owning /\ row # None
      BY <1>8 DEF SessionInv, OwnerFindsRow, PublishFails, Owning, Landed
    <2>2. CASE proc' = [proc EXCEPT ![p] = refence]
      BY <1>0, <1>5, <2>1, <2>2, LandedStep
    <2> QED
      BY <1>6, <1>8, <2>2 DEF PublishFails, Goto, refence
  <1>9. CASE FinishEffect(p)
    <2>1. LockFree /\ row # None
      BY <1>9 DEF FinishEffect, StillBound, Stands
    <2>2. CASE proc' = [proc EXCEPT ![p] = refence]
      BY <1>0, <1>5, <2>1, <2>2, LandedStep
    <2> QED
      BY <1>6, <1>9, <2>2 DEF FinishEffect, Goto, refence
  <1>10. CASE RecoverEffects(p) \/ RecoverReconciled(p) \/ RecoverRow(p) \/ RecoverIntents(p)
    <2>1. (LockFree \/ proc[p].at \in Owning) /\ row # None
      BY <1>10
      DEF RecoverEffects, RecoverReconciled, RecoverRow, RecoverIntents, RecoveryAdmitted,
          SessionInv, OwnerFindsRow, Owning, Landed
    <2>2. CASE proc' = [proc EXCEPT ![p] = refence] \/ proc' = [proc EXCEPT ![p] = recovering]
      BY <1>0, <1>5, <2>1, <2>2, LandedStep
    <2> QED
      BY <1>6, <1>10, <2>2
      DEF RecoverEffects, RecoverReconciled, RecoverRow, RecoverIntents, Recovering, Goto,
          refence, recovering
  <1>11. ASSUME NEW t \in Targets, NEW op \in Ops, PrepareEffect(p, t, op)
         PROVE  SessionInv'
    <2> DEFINE intent == [op |-> op, att |-> row.att, rev |-> row.rev,
                          outcome |-> "prepared"]
    <2> DEFINE s == [at |-> "effect", intent |-> intent]
    <2>1. s.at = "effect"
      OBVIOUS
    <2>2. (proc' = [proc EXCEPT ![p] = s] \/ proc' = proc) /\ row' = row
      BY <1>11 DEF PrepareEffect, Goto
    <2> HIDE DEF s
    <2>3. CASE proc' = [proc EXCEPT ![p] = s]
      BY <2>1, <2>2, <2>3, QuietStep
    <2>4. CASE proc' = proc
      BY <2>2, <2>4
      DEF SessionInv, RowShape, OneOwner, OwnerFindsRow, SnapshotPast, Earlier
    <2> QED
      BY <2>2, <2>3, <2>4
  <1>12. ASSUME NEW result \in {"receipt", "rejected", "raised"}, RunEffect(p, result)
         PROVE  SessionInv'
    <2> DEFINE s == [at |-> "ran", intent |-> proc[p].intent, outcome |-> OutcomeOf(result)]
    <2>1. s.at = "ran"
      OBVIOUS
    <2>2. proc' = [proc EXCEPT ![p] = s] /\ row' = row
      BY <1>12 DEF RunEffect, Goto, durable
    <2> HIDE DEF s
    <2> QED
      BY <2>1, <2>2, QuietStep
  <1> QED
    BY <1>1, <1>2, <1>3, <1>7, <1>8, <1>9, <1>10, <1>11, <1>12 DEF Step

\* The session's invariant holds in every reachable state: one process at a time is
\* inside the operation lock, and no snapshot is ahead of the row.
THEOREM SessionInvariance == Spec => []SessionInv
  <1>1. SessionInv /\ [Next]_vars => SessionInv'
    <2> SUFFICES ASSUME SessionInv, [Next]_vars PROVE SessionInv'
      OBVIOUS
    <2>1. CASE \E p \in Procs : Step(p)
      BY <2>1, StepSession
    <2>2. CASE AuthorityMoves \/ UNCHANGED vars
      BY <2>2
      DEF AuthorityMoves, vars, durable, SessionInv, RowShape, OneOwner, OwnerFindsRow,
          SnapshotPast, Earlier
    <2> QED
      BY <2>1, <2>2 DEF Next
  <1> QED
    BY <1>1, InitSession, PTL DEF Spec

\* The durable session implements the contract: through every crash, failing commit,
\* stale snapshot and recovery, a step of the store is a transition of the contract
\* or leaves the row alone.
THEOREM Refinement == Spec => RefinesContract
  <1>1. Init => Contract!Init
    BY DEF Init, Contract!Init
  <1>2. SessionInv /\ [Next]_vars => [Contract!Next]_row
    <2> SUFFICES ASSUME SessionInv, [Next]_vars PROVE row' = row \/ Contract!Next
      OBVIOUS
    <2>1. CASE \E p \in Procs : Step(p)
      BY <2>1, StepMoves
    <2>2. CASE AuthorityMoves \/ UNCHANGED vars
      BY <2>2 DEF AuthorityMoves, vars, durable
    <2> QED
      BY <2>1, <2>2 DEF Next
  <1> QED
    BY <1>1, <1>2, SessionInvariance, PTL DEF Spec, RefinesContract, Contract!Spec

-----------------------------------------------------------------------------
(* What the users of the session see of the store.                           *)

RowSeen == IF row = None THEN NoSession ELSE [op |-> row.att, status |-> row.status]

\* An attempt that was released, fenced or replaced.
AttemptOver(a) ==
    /\ row # None
    /\ row.att > a \/ (row.att = a /\ row.status \in {"released", "ambiguous"})

\* What a transition of the contract does to attempt and status.
LEMMA ContractViews ==
  ASSUME row \in SessionRows \union {None}, Contract!Next
  PROVE  /\ row' # None /\ row'.att \in Nat \ {0}
         /\ row = None => row'.status \in FirstStatuses
         /\ row # None =>
               \/ /\ row.status \in {"released", "ambiguous"}
                  /\ row'.att > row.att /\ row'.status = "held"
               \/ /\ row'.att = row.att
                  /\ \/ row'.status = row.status
                     \/ row'.status \in StatusAfter(row.status)
  <1>0. row' \in SessionRows /\ row' # None /\ row'.att \in Nat \ {0}
    BY ContractMoves, BarrierAssumption DEF SessionRows, Rows
  <1>1. CASE \E a \in Attempts : Contract!Open(a)
    BY <1>0, <1>1 DEF Contract!Open, Contract!Fresh, FirstStatuses
  <1>2. CASE \E a \in Attempts : Contract!Replace(a)
    BY <1>0, <1>2 DEF Contract!Replace, Contract!Fresh
  <1>3. ASSUME row # None, NEW n \in SessionRows, NEW st \in Contract!Statuses,
               n = Contract!Advance(row, st)
        PROVE  n.att = row.att /\ n.status = st
    BY <1>3 DEF Contract!Advance, SessionRows, Rows
  <1>4. ASSUME row # None, NEW st \in Contract!Statuses
        PROVE  Contract!Advance(row, st) \in SessionRows
    BY <1>4, AdvanceRow
  <1>5. CASE \E t \in Targets, op \in Ops : Contract!Bind(t, op)
    <2> PICK t \in Targets, op \in Ops : Contract!Bind(t, op)
      BY <1>5
    <2> PICK n \in SessionRows : n = Contract!Advance(row, "held")
      BY <1>4 DEF Contract!Bind, Contract!Statuses
    <2>1. row # None /\ row.status = "held" /\ n.att = row.att /\ n.status = "held"
      BY <1>3 DEF Contract!Bind, Contract!CanBind, Contract!Statuses
    <2>2. row' \in {[n EXCEPT !.fwd = op], [n EXCEPT !.rbk = op]}
      BY DEF Contract!Bind, Contract!Bound
    <2>3. row'.att = n.att /\ row'.status = n.status
      BY <2>2 DEF SessionRows, Rows
    <2> QED
      BY <1>0, <2>1, <2>3
  <1>6. CASE \E t \in Targets : Contract!BeginReopen(t)
    <2> PICK t \in Targets : Contract!BeginReopen(t)
      BY <1>6
    <2> PICK n \in SessionRows : n = Contract!Advance(row, "releasing")
      BY <1>4 DEF Contract!BeginReopen, Contract!Statuses
    <2>1. row # None /\ row.status = "held" /\ n.att = row.att /\ n.status = "releasing"
      BY <1>3 DEF Contract!BeginReopen, Contract!CanBeginReopen, Contract!Statuses
    <2>2. row' = [n EXCEPT !.target = t]
      BY DEF Contract!BeginReopen, Contract!Reopening
    <2>3. row'.att = n.att /\ row'.status = n.status
      BY <2>2 DEF SessionRows, Rows
    <2> QED
      BY <1>0, <2>1, <2>3 DEF StatusAfter
  <1>7. CASE Contract!CompleteReopen
    <2> PICK n \in SessionRows : n = Contract!Advance(row, "released")
      BY <1>4, <1>7 DEF Contract!CompleteReopen, Contract!Statuses
    <2>1. row # None /\ row.status = "releasing" /\ row' = n
      BY <1>7 DEF Contract!CompleteReopen, Contract!CanCompleteReopen
    <2>2. n.att = row.att /\ n.status = "released"
      BY <1>3, <2>1 DEF Contract!Statuses
    <2> QED
      BY <1>0, <2>1, <2>2 DEF StatusAfter
  <1>8. CASE Contract!Fence
    <2> PICK n \in SessionRows : n = Contract!Advance(row, "ambiguous")
      BY <1>4, <1>8 DEF Contract!Fence, Contract!Statuses
    <2>1. row # None /\ row' = n
      BY <1>8 DEF Contract!Fence
    <2>2. n.att = row.att /\ n.status = "ambiguous"
      BY <1>3, <2>1 DEF Contract!Statuses
    <2>3. row.status = "ambiguous" \/ "ambiguous" \in StatusAfter(row.status)
      BY <2>1 DEF StatusAfter, SessionRows, Rows, Contract!Statuses
    <2> QED
      BY <1>0, <2>1, <2>2, <2>3
  <1> QED
    BY <1>1, <1>2, <1>5, <1>6, <1>7, <1>8 DEF Contract!Next, Targets

\* The users of the session see it move along SessionView only, whatever crashes,
\* failing commits and recoveries the store goes through (_cas_locked,
\* _recover_prepared_locked, _mark_ambiguous_after_commit_failure): the moves the
\* upgrade engine is ready for.
THEOREM SeenFollows == Spec => [][SessionFollows(RowSeen, RowSeen')]_RowSeen
  <1>1. SessionInv /\ [Contract!Next]_row => [SessionFollows(RowSeen, RowSeen')]_RowSeen
    <2> SUFFICES ASSUME SessionInv, [Contract!Next]_row, RowSeen' # RowSeen
                 PROVE  SessionFollows(RowSeen, RowSeen')
      OBVIOUS
    <2>1. Contract!Next /\ row \in SessionRows \union {None}
      BY DEF RowSeen, SessionInv, RowShape
    <2>2. row # None => row.att \in Nat \ {0}
      BY <2>1, BarrierAssumption DEF SessionRows, Rows
    <2>3. row' # None /\ RowSeen' = [op |-> row'.att, status |-> row'.status]
      BY <2>1, ContractViews DEF RowSeen
    <2>4. CASE row = None
      BY <2>1, <2>3, <2>4, ContractViews DEF RowSeen, NoSession, SessionFollows
    <2>5. CASE row # None
      <3>1. RowSeen = [op |-> row.att, status |-> row.status]
        BY <2>5 DEF RowSeen
      <3>2. row'.att = row.att => row'.status # row.status
        BY <2>3, <3>1
      <3> QED
        BY <2>1, <2>2, <2>3, <2>5, <3>1, <3>2, ContractViews DEF SessionFollows
    <2> QED
      BY <2>4, <2>5
  <1>2. Contract!Spec => [][Contract!Next]_row
    BY PTL DEF Contract!Spec
  <1> QED
    BY <1>1, <1>2, Refinement, SessionInvariance, PTL DEF RefinesContract

\* An attempt that was released, fenced as ambiguous or replaced never holds the
\* barrier again, through any crash, recovery or reconciliation (the terminal rows of
\* STATUS_TRANSITIONS, and the newer fence _cas_locked asks of a replacement).
THEOREM AttemptStaysOver ==
  ASSUME NEW a \in Attempts
  PROVE  Spec => [](AttemptOver(a) => []AttemptOver(a))
  <1>1. SessionInv /\ [Contract!Next]_row /\ AttemptOver(a) => AttemptOver(a)'
    <2> SUFFICES ASSUME SessionInv, Contract!Next, AttemptOver(a) PROVE AttemptOver(a)'
      BY DEF AttemptOver
    <2>1. row \in SessionRows /\ row # None /\ row.att \in Nat /\ a \in Nat
      BY BarrierAssumption DEF SessionInv, RowShape, AttemptOver, SessionRows, Rows
    <2>2. /\ row' # None /\ row'.att \in Nat
          /\ \/ /\ row.status \in {"released", "ambiguous"}
                /\ row'.att > row.att /\ row'.status = "held"
             \/ /\ row'.att = row.att
                /\ \/ row'.status = row.status
                   \/ row'.status \in StatusAfter(row.status)
      BY <2>1, ContractViews
    <2>3. row.status \in {"released", "ambiguous"} => StatusAfter(row.status) \subseteq {"ambiguous"}
      BY DEF StatusAfter
    <2> QED
      BY <2>1, <2>2, <2>3 DEF AttemptOver
  <1>2. Contract!Spec => [][Contract!Next]_row
    BY PTL DEF Contract!Spec
  <1> QED
    BY <1>1, <1>2, Refinement, SessionInvariance, PTL DEF RefinesContract

-----------------------------------------------------------------------------
(* The effect journal and the processes that run effects.                    *)

Running(p) == proc[p].at \in {"effect", "ran"}

EffectShape ==
    /\ history \in [Attempts -> Endings \union {None}]
    /\ effects \subseteq EffectRows
    /\ applied \in [Ops -> Nat]
    /\ row = None => effects = {}

OneRecord == \A e, f \in effects : e.op = f.op => e = f

\* An operation whose effect is running is on record as prepared, or already
\* fenced; its effect has not happened before it runs, and after it has run the
\* outcome the process carries is the truth.
RunRecorded(p) ==
    Running(p) =>
        /\ proc[p].intent \in EffectRows
        /\ \E e \in effects : e.op = proc[p].intent.op
        /\ \A e \in effects :
              e.op = proc[p].intent.op => e.outcome \in {"prepared", "ambiguous"}
        /\ proc[p].at = "effect" => applied[proc[p].intent.op] = 0
        /\ proc[p].at = "ran" =>
              /\ proc[p].outcome \in {"committed", "rejected", "ambiguous"}
              /\ proc[p].outcome = "committed" => applied[proc[p].intent.op] = 1
              /\ proc[p].outcome = "rejected" => applied[proc[p].intent.op] = 0

\* No operation is run by two processes.
RunnersDiffer ==
    \A p, q \in Procs :
        Running(p) /\ Running(q) /\ proc[p].intent.op = proc[q].intent.op => p = q

\* What took place is on record.
AppliedRecorded ==
    \A op \in Ops : applied[op] # 0 => \E e \in effects : e.op = op

EffectInv ==
    /\ EffectShape
    /\ OneRecord
    /\ \A p \in Procs : RunRecorded(p)
    /\ RunnersDiffer
    /\ AppliedRecorded
    /\ EffectsSound

\* The session of an attempt is the current one or its end is on record.
Kept(a) ==
    \/ a = row.att
    \/ history[a] # None /\ history[a].status \in {"released", "ambiguous"}

\* Before the first session no effect is on record.
LEMMA InitEffects == Init => EffectInv
  <1> SUFFICES ASSUME Init PROVE EffectInv
    OBVIOUS
  <1>1. EffectShape /\ OneRecord /\ AppliedRecorded /\ EffectsSound
    BY DEF Init, EffectShape, OneRecord, AppliedRecorded, EffectsSound, EffectAtMostOnce,
           EffectJournalTrue, EffectSessionKept
  <1>2. \A p \in Procs : ~ Running(p)
    BY DEF Init, Running, Idle
  <1> QED
    BY <1>1, <1>2 DEF EffectInv, RunRecorded, RunnersDiffer

-----------------------------------------------------------------------------
(* A replaced session is archived.                                           *)

\* The first commit archives the session it replaces, which was finished or fenced.
LEMMA WriteKeeps ==
  ASSUME SessionInv, EffectInv, NEW p \in Procs, NEW expected, NEW new \in SessionRows,
         NEW outcome, Write(p, expected, new, outcome),
         row # None => new.att = row.att \/ row.status \in {"released", "ambiguous"}
  PROVE  /\ history' \in [Attempts -> Endings \union {None}]
         /\ row # None => \A a \in Attempts : Kept(a) => Kept(a)'
  <1>1. history \in [Attempts -> Endings \union {None}]
    BY DEF EffectInv, EffectShape
  <1>2. CASE row' = row /\ history' = history
    BY <1>1, <1>2 DEF Kept
  <1>3. CASE row' = new /\ history' = Archived(new)
    <2>1. CASE row = None \/ row.att = new.att
      BY <1>1, <1>3, <2>1 DEF Kept, Archived
    <2>2. CASE row # None /\ row.att # new.att
      <3> DEFINE end == [status |-> row.status, rev |-> row.rev]
      <3>1. row \in Rows /\ row.att \in Attempts
        BY <2>2 DEF SessionInv, RowShape, SessionRows, Rows
      <3>2. end \in Endings /\ end.status \in {"released", "ambiguous"} /\ end # None
        BY <2>2, <3>1, NoneAssumption DEF Endings, Rows
      <3>3. history' = [history EXCEPT ![row.att] = end]
        BY <1>3, <2>2 DEF Archived
      <3> HIDE DEF end
      <3>4. history'[row.att] = end /\ \A a \in Attempts \ {row.att} : history'[a] = history[a]
        BY <1>1, <3>1, <3>3
      <3>5. history' \in [Attempts -> Endings \union {None}]
        BY <1>1, <3>1, <3>2, <3>3
      <3> QED
        BY <3>2, <3>4, <3>5 DEF Kept
    <2> QED
      BY <2>1, <2>2
  <1> QED
    BY <1>2, <1>3 DEF Write, durable

\* Every step of a process keeps the session of every recorded effect.
LEMMA StepKeeps ==
  ASSUME SessionInv, EffectInv, NEW p \in Procs, Step(p)
  PROVE  /\ history' \in [Attempts -> Endings \union {None}]
         /\ row # None => \A a \in Attempts : Kept(a) => Kept(a)'
  <1>0. history \in [Attempts -> Endings \union {None}]
    BY DEF EffectInv, EffectShape
  <1>1. CASE history' = history /\ (row # None => row'.att = row.att)
    BY <1>0, <1>1 DEF Kept
  <1>2. ASSUME NEW a \in Attempts, Create(p, a)
        PROVE  /\ history' \in [Attempts -> Endings \union {None}]
               /\ row # None => \A b \in Attempts : Kept(b) => Kept(b)'
    <2> DEFINE new == Contract!Fresh(a, "held", 1)
    <2>1. new \in SessionRows
      BY FreshRow DEF Contract!Statuses
    <2>2. CasAdmits(0, new) /\ Write(p, 0, new, "committed")
      BY <1>2 DEF Create
    <2> HIDE DEF new
    <2>3. row = None \/ row.rev # 0
      BY DEF SessionInv, RowShape, SessionRows
    <2>4. row # None => row.status = "released"
      BY <2>2, <2>3 DEF CasAdmits, Replaces
    <2> QED
      BY <2>1, <2>2, <2>4, WriteKeeps
  <1>3. ASSUME NEW a \in Attempts, ProvisionReleased(p, a) \/ ReconcileAmbiguous(p, a)
        PROVE  /\ history' \in [Attempts -> Endings \union {None}]
               /\ row # None => \A b \in Attempts : Kept(b) => Kept(b)'
    <2>1. Contract!Fresh(a, "released", 1) \in SessionRows
          /\ Contract!Fresh(a, "held", 1) \in SessionRows
      BY FreshRow DEF Contract!Statuses
    <2> QED
      BY <1>3, <2>1, WriteKeeps DEF ProvisionReleased, ReconcileAmbiguous
  <1>4. CASE \/ \E t \in Targets, op \in Ops : BindChild(p, t, op)
             \/ \E t \in Targets : BeginReopen(p, t)
             \/ CompleteReopen(p) \/ MarkAmbiguous(p)
    BY <1>4, TransitionMoves, WriteKeeps
  <1>5. row # None => Contract!Advance(row, "ambiguous").att = row.att
    BY AdvanceRow DEF SessionInv, RowShape, Contract!Statuses
  <1>6. CASE \/ FenceWrite(p) \/ FenceRecovery(p) \/ FinishEffect(p) \/ RecoverEffects(p)
             \/ RecoverRow(p)
    BY <1>1, <1>5, <1>6
    DEF FenceWrite, FenceRecovery, FinishEffect, RecoverEffects, RecoverRow, Recovering
  <1>7. CASE \/ Snapshot(p) \/ GiveUp(p) \/ PublishOutcome(p) \/ PublishFails(p)
             \/ \E t \in Targets, op \in Ops : PrepareEffect(p, t, op)
             \/ \E result \in {"receipt", "rejected", "raised"} : RunEffect(p, result)
             \/ FinishRefused(p) \/ RecoverReconciled(p) \/ RecoverIntents(p) \/ Crash(p)
    BY <1>1, <1>7
    DEF Snapshot, GiveUp, PublishOutcome, PublishFails, PrepareEffect, RunEffect,
        FinishRefused, RecoverReconciled, RecoverIntents, Crash, Recovering, durable
  <1> QED
    BY <1>2, <1>3, <1>4, <1>6, <1>7 DEF Step

-----------------------------------------------------------------------------
(* What settling does to the journal.                                        *)

\* Settling changes the outcome of the chosen records and nothing else.
LEMMA SettledRecords ==
  ASSUME EffectInv, NEW chosen \in SUBSET effects,
         NEW o \in {"committed", "rejected", "ambiguous"}, effects' = Settled(chosen, o)
  PROVE  /\ effects' \subseteq EffectRows
         /\ \A f \in effects' :
               \E e \in effects : /\ e.op = f.op /\ e.att = f.att
                                  /\ f = e \/ (e \in chosen /\ f.outcome = o)
         /\ \A e \in effects : \E f \in effects' : f.op = e.op
         /\ OneRecord'
  <1> DEFINE done(e) == [e EXCEPT !.outcome = o]
  <1>1. effects \subseteq EffectRows /\ OneRecord
    BY DEF EffectInv, EffectShape
  <1>2. \A e \in effects : /\ done(e) \in EffectRows /\ done(e).op = e.op
                           /\ done(e).att = e.att /\ done(e).outcome = o
    BY <1>1 DEF EffectRows
  <1>3. \A f : f \in effects' <=> \/ f \in effects /\ f \notin chosen
                                  \/ \E e \in chosen : f = done(e)
    BY DEF Settled
  <1> HIDE DEF done
  <1>4. effects' \subseteq EffectRows
    BY <1>1, <1>2, <1>3
  <1>5. \A f \in effects' :
            \E e \in effects : /\ e.op = f.op /\ e.att = f.att
                               /\ f = e \/ (e \in chosen /\ f.outcome = o)
    BY <1>2, <1>3
  <1>6. \A e \in effects : \E f \in effects' : f.op = e.op
    BY <1>2, <1>3
  <1>7. OneRecord'
    <2> SUFFICES ASSUME NEW f \in effects', NEW g \in effects', f.op = g.op
                 PROVE  f = g
      BY DEF OneRecord
    <2>1. PICK d \in effects : d.op = f.op /\ ((f = d /\ d \notin chosen) \/ (d \in chosen /\ f = done(d)))
      BY <1>2, <1>3
    <2>2. PICK e \in effects : e.op = g.op /\ ((g = e /\ e \notin chosen) \/ (e \in chosen /\ g = done(e)))
      BY <1>2, <1>3
    <2>3. d = e
      BY <1>1, <2>1, <2>2 DEF OneRecord
    <2> QED
      BY <2>1, <2>2, <2>3
  <1> QED
    BY <1>4, <1>5, <1>6, <1>7

-----------------------------------------------------------------------------
(* The invariant of the effects.                                             *)

\* A process that stops running, or never ran, may settle records as ambiguous, or
\* the record of the effect it ran as that effect ended.
LEMMA SettleStep ==
  ASSUME SessionInv, EffectInv, NEW p \in Procs, Step(p),
         NEW s, s.at \notin {"effect", "ran"}, proc' = [proc EXCEPT ![p] = s],
         UNCHANGED applied,
         NEW chosen \in SUBSET effects, NEW o \in {"committed", "rejected", "ambiguous"},
         effects' = Settled(chosen, o),
         o # "ambiguous" =>
             /\ proc[p].at = "ran" /\ proc[p].outcome = o
             /\ \A e \in chosen : e.op = proc[p].intent.op
  PROVE  EffectInv'
  <1>1. /\ effects' \subseteq EffectRows
        /\ \A f \in effects' :
              \E e \in effects : /\ e.op = f.op /\ e.att = f.att
                                 /\ f = e \/ (e \in chosen /\ f.outcome = o)
        /\ \A e \in effects : \E f \in effects' : f.op = e.op
        /\ OneRecord'
    BY SettledRecords
  <1>2. /\ EffectShape /\ RunnersDiffer /\ AppliedRecorded /\ EffectsSound
        /\ \A q \in Procs : RunRecorded(q)
    BY DEF EffectInv
  <1>3. proc'[p] = s /\ \A q \in Procs \ {p} : proc'[q] = proc[q]
    BY DEF SessionInv, RowShape
  <1>4. ~ Running(p)' /\ \A q \in Procs : Running(q)' => q # p /\ Running(q)
    BY <1>3 DEF Running
  <1>5. /\ history' \in [Attempts -> Endings \union {None}]
        /\ row # None => \A a \in Attempts : Kept(a) => Kept(a)'
    BY StepKeeps
  <1>6. row' = None => row = None
    BY StepMoves, ContractMoves DEF SessionInv, RowShape
  <1>7. EffectShape'
    BY <1>1, <1>2, <1>5, <1>6 DEF EffectShape
  <1>8. ASSUME NEW q \in Procs PROVE RunRecorded(q)'
    <2> SUFFICES ASSUME Running(q)' PROVE RunRecorded(q)'
      BY DEF RunRecorded
    <2>1. q # p /\ Running(q) /\ proc'[q] = proc[q]
      BY <1>3, <1>4
    <2>2. RunRecorded(q)
      BY <1>2
    <2>3. \E f \in effects' : f.op = proc[q].intent.op
      BY <1>1, <2>1, <2>2 DEF RunRecorded
    <2>4. ASSUME NEW f \in effects', f.op = proc[q].intent.op
          PROVE  f.outcome \in {"prepared", "ambiguous"}
      <3>1. PICK e \in effects : e.op = f.op /\ (f = e \/ (e \in chosen /\ f.outcome = o))
        BY <1>1
      <3>2. CASE f = e
        BY <2>1, <2>2, <2>4, <3>1, <3>2 DEF RunRecorded
      <3>3. CASE e \in chosen /\ f.outcome = o /\ o # "ambiguous"
        <4>1. Running(p) /\ proc[p].intent.op = proc[q].intent.op
          BY <2>4, <3>1, <3>3 DEF Running
        <4> QED
          BY <1>2, <2>1, <4>1 DEF RunnersDiffer
      <3> QED
        BY <3>1, <3>2, <3>3
    <2> QED
      BY <2>1, <2>2, <2>3, <2>4 DEF RunRecorded, Running
  <1>9. RunnersDiffer'
    BY <1>2, <1>3, <1>4 DEF RunnersDiffer
  <1>10. AppliedRecorded'
    <2> SUFFICES ASSUME NEW op \in Ops, applied[op] # 0
                 PROVE  \E f \in effects' : f.op = op
      BY DEF AppliedRecorded
    <2> QED
      BY <1>1, <1>2 DEF AppliedRecorded
  <1>11. EffectAtMostOnce'
    BY <1>2 DEF EffectsSound, EffectAtMostOnce
  <1>12. EffectJournalTrue'
    <2> SUFFICES ASSUME NEW f \in effects'
                 PROVE  /\ f.outcome = "committed" => applied[f.op] = 1
                        /\ f.outcome = "rejected" => applied[f.op] = 0
      BY DEF EffectJournalTrue
    <2>1. PICK e \in effects : e.op = f.op /\ (f = e \/ (e \in chosen /\ f.outcome = o))
      BY <1>1
    <2>2. CASE f = e
      BY <1>2, <2>2 DEF EffectsSound, EffectJournalTrue
    <2>3. CASE e \in chosen /\ f.outcome = o /\ o # "ambiguous"
      <3>1. /\ proc[p].at = "ran" /\ proc[p].outcome = o
            /\ f.op = proc[p].intent.op /\ RunRecorded(p)
        BY <1>2, <2>1, <2>3
      <3> QED
        BY <2>3, <3>1 DEF RunRecorded, Running
    <2> QED
      BY <2>1, <2>2, <2>3
  <1>13. EffectSessionKept'
    <2> SUFFICES ASSUME NEW f \in effects' PROVE Kept(f.att)'
      BY DEF EffectSessionKept, Kept
    <2>1. PICK e \in effects : e.att = f.att
      BY <1>1
    <2>2. Kept(e.att) /\ e.att \in Attempts /\ row # None
      BY <1>2 DEF EffectsSound, EffectSessionKept, Kept, EffectShape, EffectRows
    <2>3. \A a \in Attempts : Kept(a) => Kept(a)'
      BY <1>5, <2>2
    <2> QED
      BY <2>1, <2>2, <2>3
  <1> QED
    BY <1>1, <1>7, <1>8, <1>9, <1>10, <1>11, <1>12, <1>13 DEF EffectInv, EffectsSound

\* An effect is prepared for an operation that was never recorded, so nobody runs it
\* and it never took place.
LEMMA PrepareStep ==
  ASSUME SessionInv, EffectInv, NEW p \in Procs, NEW t \in Targets, NEW op \in Ops,
         PrepareEffect(p, t, op)
  PROVE  EffectInv'
  <1> DEFINE i == [op |-> op, att |-> row.att, rev |-> row.rev, outcome |-> "prepared"]
             s == [at |-> "effect", intent |-> i]
  <1>1. /\ EffectShape /\ OneRecord /\ RunnersDiffer /\ AppliedRecorded /\ EffectsSound
        /\ \A q \in Procs : RunRecorded(q)
    BY DEF EffectInv
  <1>2. row \in Rows /\ row # None /\ UNCHANGED <<row, history, applied>>
    BY DEF PrepareEffect, SessionInv, RowShape, SessionRows, happened
  <1>3. i \in EffectRows /\ i.op = op /\ i.att = row.att /\ i.outcome = "prepared"
    BY <1>2 DEF EffectRows, Rows
  <1>4. s.at = "effect" /\ s.intent = i
    OBVIOUS
  <1>5. \/ effects' = effects \union {i} /\ proc' = [proc EXCEPT ![p] = s]
        \/ effects' \in {effects, effects \union {i}} /\ proc' = proc
    BY DEF PrepareEffect, Goto
  <1> HIDE DEF i, s
  <1>6. \A e \in effects : e.op # op
    BY DEF PrepareEffect, Unrecorded
  <1>7. effects \subseteq effects' /\ \A e \in effects' : e \in effects \/ e = i
    BY <1>5
  <1>8. applied[op] = 0
    BY <1>1, <1>6 DEF AppliedRecorded
  <1>9. \A q \in Procs : Running(q) => proc[q].intent.op # op
    BY <1>1, <1>6 DEF RunRecorded
  <1>10. \A q \in Procs : proc'[q] = proc[q] \/ (q = p /\ proc'[q] = s /\ i \in effects')
    BY <1>5 DEF SessionInv, RowShape
  <1>11. EffectShape'
    BY <1>1, <1>2, <1>3, <1>7 DEF EffectShape
  <1>12. OneRecord'
    BY <1>1, <1>3, <1>6, <1>7 DEF OneRecord
  <1>13. ASSUME NEW q \in Procs PROVE RunRecorded(q)'
    <2>1. CASE proc'[q] = proc[q]
      <3> SUFFICES ASSUME Running(q) PROVE RunRecorded(q)'
        BY <2>1 DEF RunRecorded, Running
      <3>1. RunRecorded(q) /\ proc[q].intent.op # op
        BY <1>1, <1>9
      <3> QED
        BY <1>2, <1>3, <1>7, <2>1, <3>1 DEF RunRecorded, Running
    <2>2. CASE proc'[q] = s /\ i \in effects'
      <3>1. \A e \in effects' : e.op = op => e = i
        BY <1>6, <1>7
      <3> QED
        BY <1>2, <1>3, <1>4, <1>8, <2>2, <3>1 DEF RunRecorded, Running
    <2> QED
      BY <1>10, <2>1, <2>2
  <1>14. RunnersDiffer'
    <2> SUFFICES ASSUME NEW q \in Procs, NEW r \in Procs, Running(q)', Running(r)',
                        proc'[q].intent.op = proc'[r].intent.op
                 PROVE  q = r
      BY DEF RunnersDiffer
    <2>1. CASE proc'[q] = proc[q] /\ proc'[r] = proc[r]
      BY <1>1, <2>1 DEF RunnersDiffer, Running
    <2>2. CASE proc'[q] = s /\ proc'[r] = proc[r] /\ q = p
      BY <1>3, <1>4, <1>9, <2>2 DEF Running
    <2>3. CASE proc'[r] = s /\ proc'[q] = proc[q] /\ r = p
      BY <1>3, <1>4, <1>9, <2>3 DEF Running
    <2> QED
      BY <1>10, <2>1, <2>2, <2>3
  <1>15. AppliedRecorded'
    BY <1>1, <1>2, <1>7 DEF AppliedRecorded
  <1>16. EffectsSound'
    BY <1>1, <1>2, <1>3, <1>7
    DEF EffectsSound, EffectAtMostOnce, EffectJournalTrue, EffectSessionKept
  <1> QED
    BY <1>11, <1>12, <1>13, <1>14, <1>15, <1>16 DEF EffectInv

\* What finish_authority_effect is told, outcome by outcome.
LEMMA Outcomes ==
  /\ OutcomeOf("receipt") = "committed"
  /\ OutcomeOf("rejected") = "rejected"
  /\ OutcomeOf("raised") = "ambiguous"
  BY Zenon DEF OutcomeOf

\* The effect takes place once at most, and the outcome carried away is true of it.
LEMMA RunStep ==
  ASSUME SessionInv, EffectInv, NEW p \in Procs,
         NEW result \in {"receipt", "rejected", "raised"}, RunEffect(p, result)
  PROVE  EffectInv'
  <1> DEFINE i == proc[p].intent
             s == [at |-> "ran", intent |-> i, outcome |-> OutcomeOf(result)]
  <1>1. /\ EffectShape /\ OneRecord /\ RunnersDiffer /\ AppliedRecorded /\ EffectsSound
        /\ \A q \in Procs : RunRecorded(q)
    BY DEF EffectInv
  <1>2. UNCHANGED <<row, history, effects>> /\ proc' = [proc EXCEPT ![p] = s]
    BY DEF RunEffect, durable, Goto
  <1>3. /\ s.at = "ran" /\ s.intent = i /\ s.outcome = OutcomeOf(result)
    OBVIOUS
  <1>4. Running(p) /\ proc[p].at = "effect"
    BY DEF RunEffect, Running
  <1>5. /\ i \in EffectRows /\ i.op \in Ops /\ applied[i.op] = 0
        /\ \E e \in effects : e.op = i.op
        /\ \A e \in effects : e.op = i.op => e.outcome \in {"prepared", "ambiguous"}
    BY <1>1, <1>4 DEF RunRecorded, EffectRows
  <1>6. /\ applied' \in [Ops -> Nat]
        /\ \A op \in Ops \ {i.op} : applied'[op] = applied[op]
        /\ applied'[i.op] \in {0, 1}
        /\ result = "receipt" => applied'[i.op] = 1
        /\ result = "rejected" => applied'[i.op] = 0
    <2>1. applied \in [Ops -> Nat]
      BY <1>1 DEF EffectShape
    <2>2. /\ applied' \in {applied, [applied EXCEPT ![i.op] = @ + 1]}
          /\ result = "receipt" => applied' = [applied EXCEPT ![i.op] = @ + 1]
          /\ result = "rejected" => applied' = applied
      BY DEF RunEffect
    <2>3. [applied EXCEPT ![i.op] = @ + 1] = [applied EXCEPT ![i.op] = 1]
      BY <1>5, <2>1
    <2> HIDE DEF i
    <2> QED
      BY <1>5, <2>1, <2>2, <2>3
  <1>7. \/ s.outcome = "committed" /\ result = "receipt"
        \/ s.outcome = "rejected" /\ result = "rejected"
        \/ s.outcome = "ambiguous" /\ result = "raised"
    BY <1>3, Outcomes
  <1> HIDE DEF i, s
  <1>8. proc'[p] = s /\ \A q \in Procs \ {p} : proc'[q] = proc[q]
    BY <1>2 DEF SessionInv, RowShape
  <1>9. EffectShape'
    BY <1>1, <1>2, <1>6 DEF EffectShape
  <1>10. OneRecord'
    BY <1>1, <1>2 DEF OneRecord
  <1>11. ASSUME NEW q \in Procs PROVE RunRecorded(q)'
    <2>1. CASE q = p
      BY <1>2, <1>3, <1>5, <1>6, <1>7, <1>8, <2>1 DEF RunRecorded, Running
    <2>2. CASE q # p
      <3> SUFFICES ASSUME Running(q) PROVE RunRecorded(q)'
        BY <1>8, <2>2 DEF RunRecorded, Running
      <3>1. proc[q].intent.op # i.op /\ RunRecorded(q)
        BY <1>1, <1>4, <2>2 DEF RunnersDiffer, i
      <3>2. proc[q].intent.op \in Ops
        BY <3>1 DEF RunRecorded, EffectRows
      <3> QED
        BY <1>2, <1>6, <1>8, <2>2, <3>1, <3>2 DEF RunRecorded, Running
    <2> QED
      BY <2>1, <2>2
  <1>12. RunnersDiffer'
    BY <1>1, <1>3, <1>4, <1>8 DEF RunnersDiffer, Running, i
  <1>13. AppliedRecorded'
    BY <1>1, <1>2, <1>5, <1>6 DEF AppliedRecorded
  <1>14. EffectAtMostOnce'
    <2> SUFFICES ASSUME NEW op \in Ops PROVE applied'[op] <= 1
      BY DEF EffectAtMostOnce
    <2>1. CASE op = i.op
      BY <1>6, <2>1
    <2>2. CASE op # i.op
      BY <1>1, <1>6, <2>2 DEF EffectsSound, EffectAtMostOnce
    <2> QED
      BY <2>1, <2>2
  <1>15. EffectJournalTrue'
    <2> SUFFICES ASSUME NEW e \in effects
                 PROVE  /\ e.outcome = "committed" => applied'[e.op] = 1
                        /\ e.outcome = "rejected" => applied'[e.op] = 0
      BY <1>2 DEF EffectJournalTrue
    <2>1. e.op \in Ops
      BY <1>1 DEF EffectShape, EffectRows
    <2>2. CASE e.op = i.op
      BY <1>5, <2>2
    <2>3. CASE e.op # i.op
      BY <1>1, <1>6, <2>1, <2>3 DEF EffectsSound, EffectJournalTrue
    <2> QED
      BY <2>2, <2>3
  <1>16. EffectSessionKept'
    BY <1>1, <1>2 DEF EffectsSound, EffectSessionKept
  <1> QED
    BY <1>9, <1>10, <1>11, <1>12, <1>13, <1>14, <1>15, <1>16 DEF EffectInv, EffectsSound

\* A step of a process that is not running an effect afterwards: it settles some
\* records, or none, as ambiguous, or the record of the effect it ran as that effect
\* ended, and then the session the effect was prepared under still stands.
Settles(p) ==
    /\ proc'[p].at \notin {"effect", "ran"}
    /\ proc' = [proc EXCEPT ![p] = proc'[p]]
    /\ UNCHANGED happened
    /\ \E chosen \in SUBSET effects, o \in {"committed", "rejected", "ambiguous"} :
          /\ effects' = Settled(chosen, o)
          /\ o # "ambiguous" => /\ proc[p].at = "ran" /\ proc[p].outcome = o
                                /\ Stands(proc[p].intent) /\ chosen = {proc[p].intent}

\* A step of a process settles records, prepares an effect or runs one.
LEMMA StepKinds ==
  ASSUME SessionInv, EffectInv, NEW p \in Procs, Step(p)
  PROVE  \/ Settles(p)
         \/ \E t \in Targets, op \in Ops : PrepareEffect(p, t, op)
         \/ \E result \in {"receipt", "rejected", "raised"} : RunEffect(p, result)
  <1> DEFINE refence == [at |-> "refence"]
             recovering == [at |-> "recovering"]
  <1>1. /\ Idle.at = "idle" /\ refence.at = "refence" /\ recovering.at = "recovering"
    BY DEF Idle
  <1> HIDE DEF refence, recovering
  <1>2. ASSUME NEW s, s.at \notin {"effect", "ran"}, proc' = [proc EXCEPT ![p] = s]
        PROVE  proc'[p].at \notin {"effect", "ran"} /\ proc' = [proc EXCEPT ![p] = proc'[p]]
    BY <1>2 DEF SessionInv, RowShape
  <1>3. ASSUME NEW s, s.at \notin {"effect", "ran"}, proc' = [proc EXCEPT ![p] = s],
               UNCHANGED <<effects, happened>>
        PROVE  Settles(p)
    <2>1. {} \in SUBSET effects /\ effects' = Settled({}, "ambiguous")
      BY <1>3 DEF Settled
    <2> QED
      BY <1>2, <1>3, <2>1 DEF Settles
  <1>4. ASSUME NEW s \in {Idle, refence}, proc' = [proc EXCEPT ![p] = s],
               effects' = Settled(Unresolved, "ambiguous"), UNCHANGED happened
        PROVE  Settles(p)
    <2>1. Unresolved \in SUBSET effects /\ s.at \notin {"effect", "ran"}
      BY <1>1, <1>4 DEF Unresolved
    <2> QED
      BY <1>2, <1>4, <2>1 DEF Settles
  <1>5. ASSUME NEW expected, NEW new, NEW outcome, Write(p, expected, new, outcome)
        PROVE  Settles(p)
    <2> DEFINE next(point) == [at |-> point, intent |-> Intent(expected, new),
                               new |-> new, outcome |-> outcome]
    <2>1. next("outcome").at = "outcome" /\ next("fence").at = "fence"
      OBVIOUS
    <2>2. /\ UNCHANGED <<effects, happened>>
          /\ \/ proc' = [proc EXCEPT ![p] = next("outcome")]
             \/ proc' = [proc EXCEPT ![p] = next("fence")]
      BY <1>5 DEF Write, Goto, durable
    <2> HIDE DEF next
    <2> QED
      BY <1>3, <2>1, <2>2
  <1>6. CASE \/ \E a \in Attempts :
                   Create(p, a) \/ ProvisionReleased(p, a) \/ ReconcileAmbiguous(p, a)
             \/ \E t \in Targets, op \in Ops : BindChild(p, t, op)
             \/ \E t \in Targets : BeginReopen(p, t)
             \/ CompleteReopen(p) \/ MarkAmbiguous(p)
    BY <1>5, <1>6
    DEF Create, ProvisionReleased, ReconcileAmbiguous, BindChild, BeginReopen,
        CompleteReopen, MarkAmbiguous, Cas
  <1>7. CASE Snapshot(p)
    <2> DEFINE s == [at |-> "snapped", seen |-> row]
    <2>1. s.at = "snapped"
      OBVIOUS
    <2>2. proc' = [proc EXCEPT ![p] = s] /\ UNCHANGED <<effects, happened>>
      BY <1>7 DEF Snapshot, Goto, durable
    <2> HIDE DEF s
    <2> QED
      BY <1>3, <2>1, <2>2
  <1>8. CASE \/ GiveUp(p) \/ PublishOutcome(p) \/ PublishFails(p) \/ FenceWrite(p)
             \/ FinishRefused(p) \/ RecoverReconciled(p) \/ RecoverRow(p)
             \/ RecoverIntents(p) \/ Crash(p)
    <2>1. /\ UNCHANGED <<effects, happened>>
          /\ \E s \in {Idle, refence, recovering} : proc' = [proc EXCEPT ![p] = s]
      BY <1>8
      DEF GiveUp, PublishOutcome, PublishFails, FenceWrite, FinishRefused,
          RecoverReconciled, RecoverRow, RecoverIntents, Crash, Recovering, Goto, durable,
          refence, recovering
    <2> QED
      BY <1>1, <1>3, <2>1
  <1>9. CASE FenceRecovery(p)
    BY <1>4, <1>9 DEF FenceRecovery, Goto
  <1>10. CASE RecoverEffects(p)
    <2>1. /\ UNCHANGED happened
          /\ \E s \in {Idle, refence} : proc' = [proc EXCEPT ![p] = s]
          /\ effects' \in {effects, Settled(Unresolved, "ambiguous")}
      BY <1>10 DEF RecoverEffects, Recovering, Goto, refence
    <2> QED
      BY <1>1, <1>3, <1>4, <2>1
  <1>11. CASE FinishEffect(p)
    <2> DEFINE o == proc[p].outcome
    <2>1. /\ UNCHANGED happened
          /\ \E s \in {Idle, refence} : proc' = [proc EXCEPT ![p] = s]
          /\ effects' \in {effects, Settled({proc[p].intent}, o)}
      BY <1>11 DEF FinishEffect, Goto, refence
    <2>2. /\ proc[p].at = "ran" /\ proc[p].intent \in effects /\ Stands(proc[p].intent)
          /\ o \in {"committed", "rejected", "ambiguous"}
      BY <1>11 DEF FinishEffect, StillBound, EffectInv, RunRecorded, Running
    <2>3. CASE effects' = effects
      BY <1>1, <1>3, <2>1, <2>3
    <2>4. CASE effects' = Settled({proc[p].intent}, o)
      <3>1. {proc[p].intent} \in SUBSET effects
        BY <2>2
      <3> QED
        BY <1>1, <1>2, <2>1, <2>2, <2>4, <3>1 DEF Settles
    <2> QED
      BY <2>1, <2>3, <2>4
  <1> QED
    BY <1>6, <1>7, <1>8, <1>9, <1>10, <1>11 DEF Step

\* Every step of a process keeps the invariant of the effects.
LEMMA StepEffects ==
  ASSUME SessionInv, EffectInv, NEW p \in Procs, Step(p)
  PROVE  EffectInv'
  <1>1. CASE Settles(p)
    <2>1. /\ proc'[p].at \notin {"effect", "ran"} /\ proc' = [proc EXCEPT ![p] = proc'[p]]
          /\ UNCHANGED applied
      BY <1>1 DEF Settles, happened
    <2>2. PICK chosen \in SUBSET effects, o \in {"committed", "rejected", "ambiguous"} :
              /\ effects' = Settled(chosen, o)
              /\ o # "ambiguous" => /\ proc[p].at = "ran" /\ proc[p].outcome = o
                                    /\ \A e \in chosen : e.op = proc[p].intent.op
      BY <1>1 DEF Settles
    <2> QED
      BY <2>1, <2>2, SettleStep
  <1> QED
    BY <1>1, StepKinds, PrepareStep, RunStep

\* The effects' invariant holds in every reachable state: what is running, what is on
\* record and what took place agree.
THEOREM EffectInvariance == Spec => []EffectInv
  <1>1. SessionInv /\ EffectInv /\ [Next]_vars => EffectInv'
    <2> SUFFICES ASSUME SessionInv, EffectInv, [Next]_vars PROVE EffectInv'
      OBVIOUS
    <2>1. CASE \E p \in Procs : Step(p)
      BY <2>1, StepEffects
    <2>2. CASE AuthorityMoves \/ UNCHANGED vars
      <3>1. UNCHANGED <<row, history, effects, proc, applied>>
        BY <2>2 DEF AuthorityMoves, vars, durable, happened
      <3> QED
        BY <3>1
        DEF EffectInv, EffectShape, OneRecord, RunRecorded, Running, RunnersDiffer,
            AppliedRecorded, EffectsSound, EffectAtMostOnce, EffectJournalTrue,
            EffectSessionKept
    <2> QED
      BY <2>1, <2>2 DEF Next
  <1> QED
    BY <1>1, InitEffects, SessionInvariance, PTL DEF Spec

\* The authority effect of an operation takes place at most once, the journal tells the
\* truth about it, and the session it ran under is on record, for any number of
\* processes, attempts, operations and faults.
THEOREM EffectSoundness == Spec => []EffectsSound
  <1>1. EffectInv => EffectsSound
    BY DEF EffectInv
  <1> QED
    BY <1>1, EffectInvariance, PTL

-----------------------------------------------------------------------------
(* Effects and the sessions they were prepared under.                        *)

\* The session an effect was prepared under is not after the current one.
Behind(intent) ==
    \/ intent.att < row.att
    \/ intent.att = row.att /\ intent.rev <= row.rev

\* What took place out of its session took place.
OutsideApplied == \A op \in Ops : op \in outside => applied[op] # 0

\* A running effect belongs to the current session or to an earlier one, and if its
\* session still stands after it ran, it ran inside it.
RunBehind(p) ==
    Running(p) =>
        /\ row # None /\ Behind(proc[p].intent)
        /\ proc[p].at = "ran" /\ Stands(proc[p].intent) => proc[p].intent.op \notin outside

WithinInv ==
    /\ OutsideApplied
    /\ \A p \in Procs : RunBehind(p)
    /\ EffectsInSession

\* The session of an attempt is the current one or was reopened.
NotPassed(a) ==
    \/ a = row.att
    \/ history[a] # None /\ history[a].status = "released"

\* A session that no longer stands never stands again.
LEMMA SessionsPass ==
  ASSUME SessionInv, NEW p \in Procs, Step(p), row # None,
         NEW i \in EffectRows, Behind(i)
  PROVE  /\ row' # None
         /\ Behind(i)'
         /\ Stands(i)' => Stands(i) /\ row' = row
  <1>1. CASE row' = row
    BY <1>1 DEF Behind, Stands
  <1>2. CASE row' # row
    <2>1. /\ row \in SessionRows /\ row' \in SessionRows /\ row' # None
          /\ Earlier(row, row')
      BY <1>2, StepMoves, ContractMoves DEF SessionInv, RowShape
    <2>2. /\ row.att \in Nat /\ row.rev \in Nat /\ row'.att \in Nat /\ row'.rev \in Nat
          /\ i.att \in Nat /\ i.rev \in Nat
      BY <2>1, BarrierAssumption DEF SessionRows, Rows, EffectRows
    <2>3. row.att < row'.att \/ (row.att = row'.att /\ row.rev < row'.rev)
      BY <1>2, <2>1 DEF Earlier
    <2> QED
      BY <2>1, <2>2, <2>3 DEF Behind, Stands
  <1> QED
    BY <1>1, <1>2

\* The first commit archives the session it replaces, so one that was reopened is on
\* record as reopened.
LEMMA WritePasses ==
  ASSUME SessionInv, EffectInv, NEW p \in Procs, NEW expected, NEW new \in SessionRows,
         NEW outcome, Write(p, expected, new, outcome), row # None,
         new.att = row.att \/ row.status = "released",
         NEW a \in Attempts, NotPassed(a)
  PROVE  NotPassed(a)'
  <1>1. history \in [Attempts -> Endings \union {None}]
    BY DEF EffectInv, EffectShape
  <1>2. CASE row' = row /\ history' = history
    BY <1>2 DEF NotPassed
  <1>3. CASE row' = new /\ history' = Archived(new)
    <2>1. CASE row.att = new.att
      BY <1>3, <2>1 DEF NotPassed, Archived
    <2>2. CASE row.att # new.att
      <3> DEFINE end == [status |-> row.status, rev |-> row.rev]
      <3>1. row \in Rows /\ row.att \in Attempts
        BY DEF SessionInv, RowShape, SessionRows, Rows
      <3>2. end \in Endings /\ end.status = "released" /\ end # None
        BY <2>2, <3>1, NoneAssumption DEF Endings, Rows
      <3>3. history' = [history EXCEPT ![row.att] = end]
        BY <1>3, <2>2 DEF Archived
      <3> HIDE DEF end
      <3>4. history'[row.att] = end /\ \A b \in Attempts \ {row.att} : history'[b] = history[b]
        BY <1>1, <3>1, <3>3
      <3> QED
        BY <3>2, <3>4 DEF NotPassed
    <2> QED
      BY <2>1, <2>2
  <1> QED
    BY <1>2, <1>3 DEF Write, durable

\* While an effect is unresolved a session is replaced only once it was reopened.
LEMMA StepPasses ==
  ASSUME SessionInv, EffectInv, NEW p \in Procs, Step(p), row # None, Unresolved # {},
         NEW a \in Attempts, NotPassed(a)
  PROVE  NotPassed(a)'
  <1>1. CASE history' = history /\ row'.att = row.att
    BY <1>1 DEF NotPassed
  <1>2. ASSUME NEW b \in Attempts, Create(p, b)
        PROVE  NotPassed(a)'
    <2> DEFINE new == Contract!Fresh(b, "held", 1)
    <2>1. new \in SessionRows
      BY FreshRow DEF Contract!Statuses
    <2>2. CasAdmits(0, new) /\ Write(p, 0, new, "committed")
      BY <1>2 DEF Create
    <2> HIDE DEF new
    <2>3. row.rev # 0
      BY DEF SessionInv, RowShape, SessionRows
    <2>4. row.status = "released"
      BY <2>2, <2>3 DEF CasAdmits, Replaces
    <2> QED
      BY <2>1, <2>2, <2>4, WritePasses
  <1>3. ASSUME NEW b \in Attempts, ProvisionReleased(p, b) \/ ReconcileAmbiguous(p, b)
        PROVE  NotPassed(a)'
    BY <1>3 DEF ProvisionReleased, ReconcileAmbiguous
  <1>4. CASE \/ \E t \in Targets, op \in Ops : BindChild(p, t, op)
             \/ \E t \in Targets : BeginReopen(p, t)
             \/ CompleteReopen(p) \/ MarkAmbiguous(p)
    BY <1>4, TransitionMoves, WritePasses
  <1>5. Contract!Advance(row, "ambiguous").att = row.att
    BY AdvanceRow DEF SessionInv, RowShape, Contract!Statuses
  <1>6. CASE \/ FenceWrite(p) \/ FenceRecovery(p) \/ FinishEffect(p) \/ RecoverEffects(p)
             \/ RecoverRow(p)
    <2>1. history' = history /\ row'.att = row.att
      BY <1>5, <1>6
      DEF FenceWrite, FenceRecovery, FinishEffect, RecoverEffects, RecoverRow, Recovering
    <2> QED
      BY <1>1, <2>1
  <1>7. CASE \/ Snapshot(p) \/ GiveUp(p) \/ PublishOutcome(p) \/ PublishFails(p)
             \/ \E t \in Targets, op \in Ops : PrepareEffect(p, t, op)
             \/ \E result \in {"receipt", "rejected", "raised"} : RunEffect(p, result)
             \/ FinishRefused(p) \/ RecoverReconciled(p) \/ RecoverIntents(p) \/ Crash(p)
    BY <1>1, <1>7
    DEF Snapshot, GiveUp, PublishOutcome, PublishFails, PrepareEffect, RunEffect,
        FinishRefused, RecoverReconciled, RecoverIntents, Crash, Recovering, durable
  <1> QED
    BY <1>2, <1>3, <1>4, <1>6, <1>7 DEF Step

\* Settling keeps effects inside their sessions: an effect becomes committed only while
\* its session stands.
LEMMA SettlesWithin ==
  ASSUME SessionInv, EffectInv, WithinInv, NEW p \in Procs, Step(p), Settles(p)
  PROVE  WithinInv'
  <1>1. PICK chosen \in SUBSET effects, o \in {"committed", "rejected", "ambiguous"} :
            /\ effects' = Settled(chosen, o)
            /\ o # "ambiguous" => /\ proc[p].at = "ran" /\ proc[p].outcome = o
                                  /\ Stands(proc[p].intent) /\ chosen = {proc[p].intent}
    BY DEF Settles
  <1>2. UNCHANGED <<applied, outside>>
    BY DEF Settles, happened
  <1>3. \A f \in effects' :
            \E e \in effects : /\ e.op = f.op /\ e.att = f.att
                               /\ f = e \/ (e \in chosen /\ f.outcome = o)
    BY <1>1, SettledRecords
  <1>4. OutsideApplied'
    BY <1>2 DEF WithinInv, OutsideApplied
  <1>5. ASSUME NEW q \in Procs PROVE RunBehind(q)'
    <2> SUFFICES ASSUME Running(q)' PROVE RunBehind(q)'
      BY DEF RunBehind
    <2>1. q # p /\ Running(q) /\ proc'[q] = proc[q]
      BY DEF Settles, Running, SessionInv, RowShape
    <2>2. /\ row # None /\ Behind(proc[q].intent) /\ proc[q].intent \in EffectRows
          /\ proc[q].at = "ran" /\ Stands(proc[q].intent) => proc[q].intent.op \notin outside
      BY <2>1 DEF WithinInv, RunBehind, EffectInv, RunRecorded
    <2>3. ASSUME NEW i \in EffectRows, i = proc[q].intent
          PROVE  row' # None /\ Behind(i)' /\ (Stands(i)' => Stands(i))
      BY <2>2, <2>3, SessionsPass
    <2> QED
      BY <1>2, <2>1, <2>2, <2>3 DEF RunBehind, Running, Behind, Stands
  <1>6. CommittedInSession'
    <2> SUFFICES ASSUME NEW f \in effects', f.outcome = "committed" PROVE f.op \notin outside
      BY <1>2 DEF CommittedInSession
    <2>1. PICK e \in effects : e.op = f.op /\ (f = e \/ (e \in chosen /\ f.outcome = o))
      BY <1>3
    <2>2. CASE f = e
      BY <2>2 DEF WithinInv, EffectsInSession, CommittedInSession
    <2>3. CASE e \in chosen /\ f.outcome = o
      <3>1. proc[p].at = "ran" /\ Stands(proc[p].intent) /\ f.op = proc[p].intent.op
        BY <1>1, <2>1, <2>3
      <3> QED
        BY <3>1 DEF WithinInv, RunBehind, Running
    <2> QED
      BY <2>1, <2>2, <2>3
  <1>7. UnresolvedNotPassed'
    <2> SUFFICES ASSUME NEW f \in effects', f.outcome = "prepared" PROVE NotPassed(f.att)'
      BY DEF UnresolvedNotPassed, Unresolved, NotPassed
    <2>1. f \in effects
      BY <1>1, <1>3
    <2>2. f \in Unresolved /\ f.att \in Attempts /\ row # None
      BY <2>1 DEF Unresolved, EffectInv, EffectShape, EffectRows
    <2>3. NotPassed(f.att)
      BY <2>2 DEF WithinInv, EffectsInSession, UnresolvedNotPassed, NotPassed
    <2> QED
      BY <2>2, <2>3, StepPasses
  <1> QED
    BY <1>4, <1>5, <1>6, <1>7 DEF WithinInv, EffectsInSession

\* An effect is prepared under the session that stands.
LEMMA PrepareWithin ==
  ASSUME SessionInv, EffectInv, WithinInv, NEW p \in Procs, NEW t \in Targets,
         NEW op \in Ops, PrepareEffect(p, t, op)
  PROVE  WithinInv'
  <1> DEFINE i == [op |-> op, att |-> row.att, rev |-> row.rev, outcome |-> "prepared"]
             s == [at |-> "effect", intent |-> i]
  <1>1. row \in Rows /\ row # None /\ UNCHANGED <<row, history, applied, outside>>
    BY DEF PrepareEffect, SessionInv, RowShape, SessionRows, happened
  <1>2. i.att = row.att /\ i.rev = row.rev /\ i.outcome = "prepared" /\ row.rev \in Nat
    BY <1>1 DEF Rows
  <1>3. s.at = "effect" /\ s.intent = i
    OBVIOUS
  <1>4. /\ \A e \in effects' : e \in effects \/ e = i
        /\ \A q \in Procs : proc'[q] = proc[q] \/ proc'[q] = s
    BY DEF PrepareEffect, Goto, SessionInv, RowShape
  <1> HIDE DEF i, s
  <1>5. OutsideApplied'
    BY <1>1 DEF WithinInv, OutsideApplied
  <1>6. ASSUME NEW q \in Procs PROVE RunBehind(q)'
    <2>1. CASE proc'[q] = proc[q]
      BY <1>1, <2>1 DEF WithinInv, RunBehind, Running, Behind, Stands
    <2>2. CASE proc'[q] = s
      BY <1>1, <1>2, <1>3, <2>2 DEF RunBehind, Behind
    <2> QED
      BY <1>4, <2>1, <2>2
  <1>7. EffectsInSession'
    BY <1>1, <1>2, <1>4
    DEF WithinInv, EffectsInSession, CommittedInSession, UnresolvedNotPassed, Unresolved
  <1> QED
    BY <1>5, <1>6, <1>7 DEF WithinInv

\* An effect that takes place is on record as prepared or fenced, and counts as out of
\* its session only when that session no longer stands.
LEMMA RunWithin ==
  ASSUME SessionInv, EffectInv, WithinInv, NEW p \in Procs,
         NEW result \in {"receipt", "rejected", "raised"}, RunEffect(p, result)
  PROVE  WithinInv'
  <1> DEFINE i == proc[p].intent
             s == [at |-> "ran", intent |-> i, outcome |-> OutcomeOf(result)]
  <1>1. UNCHANGED <<row, history, effects>> /\ proc' = [proc EXCEPT ![p] = s]
    BY DEF RunEffect, durable, Goto
  <1>2. s.at = "ran" /\ s.intent = i
    OBVIOUS
  <1>3. /\ Running(p) /\ proc[p].at = "effect"
        /\ i.op \in Ops /\ applied[i.op] = 0 /\ applied \in [Ops -> Nat]
        /\ \A e \in effects : e.op = i.op => e.outcome \in {"prepared", "ambiguous"}
    BY DEF RunEffect, Running, EffectInv, RunRecorded, EffectRows, EffectShape
  <1>4. /\ applied' \in {applied, [applied EXCEPT ![i.op] = @ + 1]}
        /\ outside' = IF applied' # applied /\ ~ Stands(i)
                      THEN outside \union {i.op} ELSE outside
    BY DEF RunEffect
  <1> HIDE DEF i, s
  <1>5. i.op \notin outside
    BY <1>3 DEF WithinInv, OutsideApplied
  <1>6. OutsideApplied'
    <2> SUFFICES ASSUME NEW op \in Ops, op \in outside' PROVE applied'[op] # 0
      BY DEF OutsideApplied
    <2>1. CASE op = i.op
      BY <1>3, <1>4, <1>5, <2>1
    <2>2. CASE op # i.op
      BY <1>3, <1>4, <2>2 DEF WithinInv, OutsideApplied
    <2> QED
      BY <2>1, <2>2
  <1>7. proc'[p] = s /\ \A q \in Procs \ {p} : proc'[q] = proc[q]
    BY <1>1 DEF SessionInv, RowShape
  <1>8. ASSUME NEW q \in Procs PROVE RunBehind(q)'
    <2>1. CASE q = p
      <3>1. row # None /\ Behind(i)
        BY <1>3 DEF WithinInv, RunBehind, i
      <3> QED
        BY <1>1, <1>2, <1>4, <1>5, <1>7, <2>1, <3>1 DEF RunBehind, Behind, Stands
    <2>2. CASE q # p
      <3> SUFFICES ASSUME Running(q) PROVE RunBehind(q)'
        BY <1>7, <2>2 DEF RunBehind, Running
      <3>1. proc[q].intent.op # i.op /\ RunBehind(q)
        BY <1>3, <2>2 DEF EffectInv, RunnersDiffer, WithinInv, i
      <3> QED
        BY <1>1, <1>4, <1>7, <2>2, <3>1 DEF RunBehind, Running, Behind, Stands
    <2> QED
      BY <2>1, <2>2
  <1>9. CommittedInSession'
    BY <1>1, <1>3, <1>4 DEF WithinInv, EffectsInSession, CommittedInSession
  <1>10. UnresolvedNotPassed'
    BY <1>1 DEF WithinInv, EffectsInSession, UnresolvedNotPassed, Unresolved
  <1> QED
    BY <1>6, <1>8, <1>9, <1>10 DEF WithinInv, EffectsInSession

\* An effect is on record as committed only if it took place while the session it was
\* prepared under stood, although it runs with no lock held and that session may be
\* reopened or fenced meanwhile; and an effect without an outcome belongs to the current
\* session or to one that was reopened over it.
THEOREM EffectsWithinSession == Spec => []EffectsInSession
  <1>1. Init => WithinInv
    <2> SUFFICES ASSUME Init PROVE WithinInv
      OBVIOUS
    <2>1. \A p \in Procs : ~ Running(p)
      BY DEF Init, Running, Idle
    <2> QED
      BY <2>1
      DEF Init, WithinInv, OutsideApplied, RunBehind, EffectsInSession, CommittedInSession,
          UnresolvedNotPassed, Unresolved
  <1>2. SessionInv /\ EffectInv /\ WithinInv /\ [Next]_vars => WithinInv'
    <2> SUFFICES ASSUME SessionInv, EffectInv, WithinInv, [Next]_vars PROVE WithinInv'
      OBVIOUS
    <2>1. ASSUME NEW p \in Procs, Step(p) PROVE WithinInv'
      BY <2>1, StepKinds, SettlesWithin, PrepareWithin, RunWithin
    <2>2. CASE AuthorityMoves \/ UNCHANGED vars
      <3>1. UNCHANGED <<row, history, effects, proc, applied, outside>>
        BY <2>2 DEF AuthorityMoves, vars, durable, happened
      <3> QED
        BY <3>1
        DEF WithinInv, OutsideApplied, RunBehind, Running, Behind, Stands, EffectsInSession,
            CommittedInSession, UnresolvedNotPassed, Unresolved
    <2> QED
      BY <2>1, <2>2 DEF Next
  <1>3. WithinInv => EffectsInSession
    BY DEF WithinInv
  <1> QED
    BY <1>1, <1>2, <1>3, SessionInvariance, EffectInvariance, PTL DEF Spec

=============================================================================
