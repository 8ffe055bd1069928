------------------------ MODULE UpgradeSupportProofs ------------------------
(***************************************************************************)
(* What an upgrade's phases rest on: exclusion, freshness and order of the *)
(* lock domain, the one-use commit of an authority, and the selection of a *)
(* runtime, for any number of processes, files, retries and failures.      *)
(***************************************************************************)
EXTENDS MCUpgradeSupport, TLAPS

-----------------------------------------------------------------------------
(* The lock domain.                                                          *)

Sessions == [attempt : Nat, status : {"released", "held", "releasing", "ambiguous"},
             rev : Nat, at : Nat]
States == [op : ScopeOps \cup {"none", "bound", "write", "create", "reconcile"},
           n : 0 .. 3, fd : Seq(Nat), attempt : Nat, rev : Nat, node : Nat, seen : Nat]

\* The variables have the shapes the actions give them.
Shapes ==
    /\ node \in [Locks -> Nat]
    /\ session \in Sessions
    /\ authority \in Nat
    /\ proc \in [Procs -> States]

\* A process has opened the locks it holds and at most one more; outside the
\* domain it has none.
Opened(p) ==
    /\ Len(proc[p].fd) \in {proc[p].n, proc[p].n + 1} /\ Len(proc[p].fd) <= 3
    /\ ~ Entering(p) => proc[p].n = 0 /\ proc[p].fd = <<>>

\* Whatever happened to the files since, the control and the authority lock a
\* process opened are the ones the binding names.
Named(p) ==
    /\ Len(proc[p].fd) >= 2 => proc[p].fd[2] = 0
    /\ Len(proc[p].fd) >= 3 => proc[p].fd[3] = 0

\* One process at a time holds the control lock.
ControlExclusive == \A p, q \in Procs : proc[p].n >= 2 /\ proc[q].n >= 2 => p = q

\* What a writer and a scope found when they took the last lock still holds.
Admitted(p) ==
    Inside(p) => /\ Writer(p) => Admits(p)
                 /\ Scoped(p) => Recheck(p)

Inv ==
    /\ Shapes
    /\ \A p \in Procs : Opened(p) /\ Named(p) /\ Admitted(p)
    /\ ControlExclusive
    /\ HeldIsFresh

\* Whatever operation a scope is opened for, it is opened on an active session only.
LEMMA AllowedActive == \A op : Allowed(op) \subseteq {"held", "releasing"}
  BY Zenon DEF Allowed

\* Before the first command nobody holds a lock.
LEMMA InitInv == Init => Inv
  <1> SUFFICES ASSUME Init PROVE Inv
    OBVIOUS
  <1>1. Shapes
    BY DEF Init, Shapes, Sessions, States, Idle
  <1>2. \A p \in Procs : proc[p].op = "none" /\ proc[p].n = 0 /\ proc[p].fd = <<>>
    BY DEF Init, Idle
  <1>3. \A p \in Procs : Opened(p) /\ Named(p) /\ Admitted(p)
    <2> TAKE p \in Procs
    <2>1. Opened(p)
      BY <1>2 DEF Opened
    <2>2. Named(p)
      BY <1>2 DEF Named
    <2>3. Admitted(p)
      BY <1>2 DEF Admitted, Inside
    <2> QED
      BY <2>1, <2>2, <2>3
  <1>4. ControlExclusive
    BY <1>2 DEF ControlExclusive
  <1>5. HeldIsFresh
    BY DEF Init, HeldIsFresh
  <1> QED
    BY <1>1, <1>3, <1>4, <1>5 DEF Inv

\* The states in which a process holds nothing and waits for nothing.
Parked == {r \in States : r.n = 0 /\ r.fd = <<>>}

\* Whatever else happens, a process that ends its step without locks keeps what
\* the invariant says of the processes, unless another one was inside while the
\* session or the authority changed.
LEMMA ParkInv ==
  ASSUME Inv, NEW p \in Procs, NEW r \in Parked,
         proc' = [proc EXCEPT ![p] = r], UNCHANGED node,
         session' \in Sessions, authority' \in Nat, HeldIsFresh',
         Inside(p) \/ UNCHANGED <<session, authority>>
  PROVE  Inv'
  <1> USE DEF Inv
  <1>1. Shapes'
    BY DEF Shapes, Parked
  <1>2. proc'[p] = r /\ \A q \in Procs \ {p} : proc'[q] = proc[q]
    BY DEF Shapes
  <1>3. r.n = 0 /\ r.fd = <<>>
    BY DEF Parked
  <1>4. ControlExclusive'
    BY <1>2, <1>3 DEF ControlExclusive
  <1>5. ASSUME NEW q \in Procs PROVE Opened(q)' /\ Named(q)' /\ Admitted(q)'
    <2>1. CASE q = p
      <3>1. Opened(q)'
        BY <2>1, <1>2, <1>3 DEF Opened
      <3>2. Named(q)'
        BY <2>1, <1>2, <1>3 DEF Named
      <3>3. Admitted(q)'
        BY <2>1, <1>2, <1>3 DEF Admitted, Inside
      <3> QED
        BY <3>1, <3>2, <3>3
    <2>2. CASE q # p
      <3>1. proc'[q] = proc[q]
        BY <2>2, <1>2
      <3>2. Opened(q)' /\ Named(q)'
        BY <3>1 DEF Opened, Named, Entering
      <3>3. CASE Inside(p)
        <4>1. ~ Inside(q)
          BY <3>3, <2>2 DEF ControlExclusive, Inside
        <4> QED
          BY <3>1, <3>2, <4>1 DEF Admitted, Inside, Entering
      <3>4. CASE UNCHANGED <<session, authority>>
        BY <3>1, <3>2, <3>4
        DEF Admitted, Inside, Entering, Writer, Scoped, Admits, Recheck
      <3> QED
        BY <3>3, <3>4
    <2> QED
      BY <2>1, <2>2
  <1> QED
    BY <1>1, <1>4, <1>5

\* Opening a lock file: the control and the authority lock are opened only
\* while their paths are the files the binding names.
LEMMA OpenInv ==
  ASSUME Inv, NEW p \in Procs, Open(p)
  PROVE  Inv'
  <1> USE DEF Inv
  <1>1. /\ proc[p] \in States /\ proc[p].n \in 0 .. 2 /\ Len(proc[p].fd) = proc[p].n
        /\ proc[p].fd \in Seq(Nat)
    BY DEF Open, Opened, Waiting, Inside, Shapes, States
  <1>2. NextLock(p) \in Locks
    BY <1>1 DEF NextLock, Order, Locks
  <1> DEFINE fd == Append(proc[p].fd, node[NextLock(p)])
  <1>3. node[NextLock(p)] \in Nat
    BY <1>2 DEF Shapes
  <1>4. fd \in Seq(Nat) /\ Len(fd) = proc[p].n + 1
        /\ \A i \in 1 .. proc[p].n : fd[i] = proc[p].fd[i]
        /\ fd[proc[p].n + 1] = node[NextLock(p)]
    BY <1>1, <1>3
  <1>5. /\ proc' = [proc EXCEPT ![p].fd = fd]
        /\ UNCHANGED <<node, session, authority>>
    BY DEF Open
  <1> HIDE DEF fd
  <1>6. Shapes'
    BY <1>4, <1>5 DEF Shapes, States
  <1>7. /\ proc'[p].fd = fd /\ proc'[p].n = proc[p].n /\ proc'[p].op = proc[p].op
        /\ \A q \in Procs \ {p} : proc'[q] = proc[q]
    BY <1>5 DEF Shapes, States
  <1>8. ControlExclusive'
    BY <1>7 DEF ControlExclusive
  <1>9. ASSUME NEW q \in Procs, q # p PROVE Opened(q)' /\ Named(q)' /\ Admitted(q)'
    BY <1>5, <1>7, <1>9
    DEF Opened, Named, Entering, Admitted, Inside, Writer, Scoped, Admits, Recheck
  <1>10. Opened(p)' /\ Admitted(p)'
    BY <1>1, <1>4, <1>7 DEF Opened, Admitted, Inside, Entering, Open
  <1>11. Named(p)'
    <2>1. CASE proc[p].n = 0
      <3>1. Len(proc'[p].fd) = 1
        BY <2>1, <1>4, <1>7
      <3> QED
        BY <3>1 DEF Named
    <2>2. CASE proc[p].n = 1
      <3>1. NextLock(p) = "control"
        BY <2>2 DEF NextLock, Order
      <3>2. node["control"] = 0
        BY <3>1 DEF Open, MayOpen, Bound
      <3> QED
        <4>1. Len(proc'[p].fd) = 2 /\ proc'[p].fd[2] = 0
          BY <2>2, <3>1, <3>2, <1>4, <1>7
        <4> QED
          BY <4>1 DEF Named
    <2>3. CASE proc[p].n = 2
      <3>1. NextLock(p) = "authority"
        BY <2>3 DEF NextLock, Order
      <3>2. node["authority"] = 0
        BY <3>1 DEF Open, MayOpen, Bound
      <3> QED
        BY <2>3, <3>1, <3>2, <1>1, <1>4, <1>7 DEF Named
    <2> QED
      BY <1>1, <2>1, <2>2, <2>3
  <1>12. HeldIsFresh'
    BY <1>5 DEF HeldIsFresh
  <1> QED
    BY <1>6, <1>8, <1>9, <1>10, <1>11, <1>12

\* Taking a lock: it is the named file, nobody else holds it, and what the
\* process must find true is verified under it.
LEMMA LockInv ==
  ASSUME Inv, NEW p \in Procs, Lock(p)
  PROVE  Inv'
  <1> USE DEF Inv
  <1>1. proc[p].n \in 0 .. 2 /\ Len(proc[p].fd) = proc[p].n + 1
    BY DEF Lock, Waiting, Opened, Shapes, States
  <1>2. Captured(p) \in Nat
    BY DEF Captured, Shapes, States, Locks
  <1>3. /\ \A q \in Procs \ {p} : proc'[q] = proc[q]
        /\ UNCHANGED <<node, session, authority>>
    BY DEF Lock, Shapes
  <1>4. proc' = [proc EXCEPT ![p] = [proc[p] EXCEPT !.n = @ + 1, !.node = Captured(p)]]
    BY DEF Lock
  <1>5. Shapes'
    <2>1. proc[p].n + 1 \in 0 .. 3 /\ proc[p] \in States
      BY <1>1 DEF Shapes
    <2>2. [proc[p] EXCEPT !.n = @ + 1, !.node = Captured(p)] \in States
      BY <2>1, <1>2 DEF States
    <2> QED
      BY <2>2, <1>3, <1>4 DEF Shapes
  <1>6. /\ proc'[p].fd = proc[p].fd /\ proc'[p].op = proc[p].op
        /\ proc'[p].n = proc[p].n + 1
        /\ proc'[p].attempt = proc[p].attempt /\ proc'[p].rev = proc[p].rev
    BY <1>4 DEF Shapes, States
  <1>7. ASSUME NEW q \in Procs, q # p PROVE Opened(q)' /\ Named(q)' /\ Admitted(q)'
    BY <1>3, <1>7
    DEF Opened, Named, Entering, Admitted, Inside, Writer, Scoped, Admits, Recheck
  <1>8. Opened(p)' /\ Named(p)'
    BY <1>1, <1>6 DEF Opened, Named, Entering, Lock, Waiting
  <1>9. ControlExclusive'
    <2>1. CASE proc[p].n = 1
      <3>1. NextLock(p) = "control" /\ proc[p].fd[2] = 0
        BY <2>1, <1>1 DEF NextLock, Order, Named
      <3>2. \A q \in Procs : ~ Holds(q, "control", 0)
        BY <2>1, <3>1 DEF Lock, Free
      <3>3. ASSUME NEW q \in Procs, proc[q].n >= 2 PROVE FALSE
        <4>0. proc[q].n \in 0 .. 3
          BY DEF Shapes, States
        <4>1. proc[q].n \in 2 .. 3
          BY <3>3, <4>0
        <4>2. proc[q].fd[2] = 0 /\ 2 \in 1 .. proc[q].n
          <5>1. Len(proc[q].fd) >= 2
            BY <4>1 DEF Opened
          <5> QED
            BY <4>1, <5>1 DEF Named
        <4>3. Order(proc[q].op)[2] = "control"
          BY DEF Order
        <4> QED
          BY <4>2, <4>3, <3>2 DEF Holds
      <3> QED
        BY <3>3, <1>3 DEF ControlExclusive
    <2>2. CASE proc[p].n = 0
      <3>1. ~ (proc'[p].n >= 2)
        BY <2>2, <1>6
      <3> QED
        BY <3>1, <1>3 DEF ControlExclusive
    <2>3. CASE proc[p].n = 2
      BY <2>3, <1>3, <1>6 DEF ControlExclusive
    <2> QED
      BY <1>1, <2>1, <2>2, <2>3
  <1>10. Admitted(p)'
    <2>1. CASE proc[p].n = 2
      <3>1. ProvenAuthority(p)
        BY <2>1 DEF Lock, Proven, NextLock, Order
      <3> QED
        BY <3>1, <1>3, <1>6
        DEF ProvenAuthority, Admitted, Writer, Scoped, Admits, Recheck
    <2>2. CASE proc[p].n # 2
      BY <2>2, <1>1, <1>6 DEF Admitted, Inside
    <2> QED
      BY <2>1, <2>2
  <1>11. HeldIsFresh'
    BY <1>3 DEF HeldIsFresh
  <1> QED
    BY <1>5, <1>7, <1>8, <1>9, <1>10, <1>11

\* Replacing a lock file touches no process and no session.
LEMMA ReplaceInv ==
  ASSUME Inv, NEW l \in Locks, Replace(l)
  PROVE  Inv'
  BY DEF Inv, Replace, Shapes, Opened, Named, Admitted, ControlExclusive, HeldIsFresh,
         Inside, Entering, Writer, Scoped, Admits, Recheck

\* A process that leaves holds nothing, and every state a step gives it without
\* locks is a parked one.
LEMMA ParkedStates ==
  ASSUME Inv, NEW p \in Procs
  PROVE  /\ Idle \in Parked /\ Released(p) \in Parked
         /\ ~ Entering(p) => proc[p] \in Parked
  <1>1. Idle \in Parked
    BY DEF Idle, Parked, States
  <1>2. proc[p] \in States
    BY DEF Inv, Shapes
  <1>3. [proc[p] EXCEPT !.op = "bound", !.n = 0, !.fd = <<>>] \in Parked
    <2> DEFINE r == [proc[p] EXCEPT !.op = "bound", !.n = 0, !.fd = <<>>]
    <2>1. <<>> \in Seq(Nat) /\ 0 \in 0 .. 3
      OBVIOUS
    <2>2. r \in States
      BY <1>2, <2>1 DEF States
    <2>3. r.n = 0 /\ r.fd = <<>>
      BY <1>2 DEF States
    <2> QED
      BY <2>2, <2>3 DEF Parked
  <1>4. ~ Entering(p) => proc[p] \in Parked
    <2> SUFFICES ASSUME ~ Entering(p) PROVE proc[p] \in Parked
      OBVIOUS
    <2>1. Opened(p)
      BY DEF Inv
    <2> QED
      BY <1>2, <2>1 DEF Opened, Parked
  <1> QED
    BY <1>1, <1>3, <1>4 DEF Released

\* A change of the session, made inside: a held session that stays held or a new
\* one is at the authority's revision.
LEMMA ActInv ==
  ASSUME Inv, NEW p \in Procs,
         \/ Write(p) \/ BindChild(p) \/ BeginReopen(p) \/ CompleteReopen(p)
         \/ MarkAmbiguous(p) \/ Create(p) \/ Reconcile(p)
  PROVE  Inv'
  <1> USE ParkedStates
  <1>1. CASE Write(p)
    <2>1. session.status = "released"
      BY <1>1 DEF Inv, Write, Admitted, Admits
    <2>2. authority' \in Nat /\ HeldIsFresh' /\ session' \in Sessions
      BY <1>1, <2>1 DEF Inv, Shapes, Write, HeldIsFresh
    <2> QED
      BY <1>1, <2>2, ParkInv DEF Write, Leave
  <1>2. ASSUME NEW op, NEW from, NEW status \in {"released", "held", "releasing", "ambiguous"},
               status = "held" => from = {"held"},
               Change(p, op, from, status)
        PROVE  Inv'
    <2>a. session.rev + 1 \in Nat /\ session \in Sessions
      BY DEF Inv, Shapes, Sessions
    <2>1. [Released(p) EXCEPT !.rev = session.rev + 1] \in Parked
      BY <2>a DEF Parked, States
    <2>b. session' = [session EXCEPT !.status = status, !.rev = @ + 1]
      BY <1>2 DEF Change
    <2>c. session' \in Sessions
      BY <2>a, <2>b DEF Sessions
    <2>d. session'.status = status /\ session'.at = session.at
      BY <2>a, <2>b DEF Sessions
    <2>2. session' \in Sessions /\ HeldIsFresh' /\ authority' \in Nat
      BY <1>2, <2>c, <2>d DEF Inv, Shapes, Change, HeldIsFresh
    <2> QED
      BY <1>2, <2>1, <2>2, ParkInv DEF Change
  <1>3. CASE BindChild(p) \/ BeginReopen(p) \/ CompleteReopen(p) \/ MarkAmbiguous(p)
    BY <1>3, <1>2 DEF BindChild, BeginReopen, CompleteReopen, MarkAmbiguous
  <1>4. CASE Create(p) \/ Reconcile(p)
    <2>1. Inside(p) /\ Fresh(p) /\ Install(p)
      BY <1>4 DEF Create, Reconcile
    <2>2. session' \in Sessions /\ HeldIsFresh' /\ authority' \in Nat
      BY <2>1 DEF Inv, Shapes, Sessions, States, Install, Fresh, HeldIsFresh
    <2> QED
      BY <2>1, <2>2, ParkInv DEF Install, Leave
  <1> QED
    BY <1>1, <1>3, <1>4

\* Binding, entering and every way of leaving without an effect.
LEMMA QuietInv ==
  ASSUME Inv, NEW p \in Procs,
         \/ BindWriter(p) \/ BindScope(p)
         \/ \E op \in {"create", "reconcile"} : Prepare(p, op)
         \/ \E op \in ScopeOps : Enter(p, op)
         \/ Refuse(p) \/ Timeout(p) \/ Crash(p) \/ Read(p)
  PROVE  Inv'
  <1> USE ParkedStates
  <1>1. UNCHANGED <<node, session, authority>>
    BY DEF BindWriter, BindScope, Prepare, Enter, Refuse, Timeout, Crash, Read
  <1>2. session' \in Sessions /\ authority' \in Nat /\ HeldIsFresh'
    BY <1>1 DEF Inv, Shapes, HeldIsFresh
  <1>3. \E r \in Parked : proc' = [proc EXCEPT ![p] = r]
    <2>1. CASE BindWriter(p)
      <3>1. [Idle EXCEPT !.op = "write", !.attempt = session.attempt] \in Parked
        BY DEF Idle, Parked, States, Inv, Shapes, Sessions
      <3> QED
        BY <2>1, <3>1 DEF BindWriter
    <2>2. CASE BindScope(p)
      <3>1. [Idle EXCEPT !.op = "bound", !.attempt = session.attempt,
                         !.rev = session.rev, !.node = node["common"]] \in Parked
        BY DEF Idle, Parked, States, Inv, Shapes, Sessions, Locks
      <3> QED
        BY <2>2, <3>1 DEF BindScope
    <2>3. ASSUME NEW op \in {"create", "reconcile"}, Prepare(p, op)
          PROVE  \E r \in Parked : proc' = [proc EXCEPT ![p] = r]
      <3>1. [Idle EXCEPT !.op = op, !.attempt = session.attempt,
                         !.rev = session.rev, !.seen = authority] \in Parked
        BY DEF Idle, Parked, States, Inv, Shapes, Sessions
      <3> QED
        BY <2>3, <3>1 DEF Prepare
    <2>4. ASSUME NEW op \in ScopeOps, Enter(p, op)
          PROVE  \E r \in Parked : proc' = [proc EXCEPT ![p] = r]
      <3>1. proc[p] \in Parked
        BY <2>4 DEF Enter, Entering, ScopeOps
      <3>2. [proc[p] EXCEPT !.op = op] \in Parked
        BY <3>1 DEF Parked, States
      <3> QED
        BY <2>4, <3>2 DEF Enter
    <2>5. CASE Refuse(p) \/ Timeout(p) \/ Read(p) \/ Crash(p)
      BY <2>5 DEF Refuse, Timeout, Read, Crash, Leave
    <2> QED
      BY <2>1, <2>2, <2>3, <2>4, <2>5
  <1> QED
    BY <1>1, <1>2, <1>3, ParkInv

\* Every step of the domain keeps the invariant.
LEMMA StepInv ==
  ASSUME Inv, [Next]_vars
  PROVE  Inv'
  <1>1. ASSUME NEW p \in Procs, Step(p) PROVE Inv'
    BY <1>1, QuietInv, OpenInv, LockInv, ActInv DEF Step
  <1>2. CASE UNCHANGED vars
    BY <1>2
    DEF vars, Inv, Shapes, Opened, Named, Admitted, ControlExclusive, HeldIsFresh,
        Inside, Entering, Writer, Scoped, Admits, Recheck
  <1> QED
    BY <1>1, <1>2, ReplaceInv DEF Next

\* The locks a process holds are the named ones and what it was admitted on
\* still holds, in every reachable state.
THEOREM Invariance == Spec => []Inv
  <1>1. Inv /\ [Next]_vars => Inv'
    BY StepInv
  <1> QED
    BY InitInv, <1>1, PTL DEF Spec

\* Two processes are never inside the domain together, for any number of
\* processes and of replaced lock files.
THEOREM Exclusion == Spec => []DomainExclusive
  <1>1. Inv => DomainExclusive
    BY DEF Inv, ControlExclusive, DomainExclusive, Inside
  <1> QED
    BY <1>1, Invariance, PTL

\* A held session is at the authority's revision, and whoever works in a scope
\* works in the session it was bound to.
THEOREM Freshness == Spec => []SessionsFresh
  <1>1. Inv => SessionsFresh
    BY AllowedActive DEF Inv, SessionsFresh, ScopeIsFresh, Admitted, Recheck
  <1> QED
    BY <1>1, Invariance, PTL

\* No two processes wait for each other's locks: each would wait for a lock that
\* comes later in the order than every lock the other holds.
THEOREM WaitOrder == Spec => []NoWaitCycle
  <1>1. ASSUME Inv, NEW p \in Procs, NEW q \in Procs, Waiting(p),
               Holds(q, NextLock(p), proc[p].fd[proc[p].n + 1])
        PROVE  proc[p].n < proc[q].n
    <2>1. proc[p].n \in 0 .. 2 /\ proc[q].n \in 0 .. 3
      BY <1>1 DEF Inv, Shapes, States, Waiting, Opened
    <2>2. PICK i \in 1 .. proc[q].n : Order(proc[q].op)[i] = Order(proc[p].op)[proc[p].n + 1]
      BY <1>1 DEF Holds, NextLock
    <2>3. i \in 1 .. 3 /\ proc[p].n + 1 \in 1 .. 3
      BY <2>1
    <2>4. i = proc[p].n + 1
      <3>1. \A j \in 1 .. 3, k \in 1 .. 3 :
               <<"common", "control", "authority">>[j] = <<"common", "control", "authority">>[k]
                 => j = k
        <4>1. 1 .. 3 = {1, 2, 3}
          OBVIOUS
        <4> QED
          BY <4>1
      <3> QED
        BY <2>2, <2>3, <3>1 DEF Order
    <2> QED
      BY <2>1, <2>4
  <1>2. Inv => NoWaitCycle
    <2> SUFFICES ASSUME Inv, NEW p \in Procs, NEW q \in Procs,
                        Waiting(p), Holds(q, NextLock(p), proc[p].fd[proc[p].n + 1]),
                        Waiting(q), Holds(p, NextLock(q), proc[q].fd[proc[q].n + 1])
                 PROVE  FALSE
      BY DEF NoWaitCycle
    <2>1. proc[p].n < proc[q].n /\ proc[q].n < proc[p].n
      BY <1>1
    <2>2. Shapes
      BY DEF Inv
    <2>3. proc[p].n \in 0 .. 3 /\ proc[q].n \in 0 .. 3
      BY <2>2 DEF Shapes, States
    <2> QED
      BY <2>1, <2>3
  <1> QED
    BY <1>2, Invariance, PTL

\* The authority is written only while the session is released, by a command
\* that found that very session.
THEOREM Fencing == Spec => WritesFenced
  <1>1. ASSUME Inv, [Next]_vars, NEW p \in Procs, authority' # authority, Inside(p)
        PROVE  session.status = "released" /\ proc[p].attempt = session.attempt
    <2>1. PICK q \in Procs : Write(q)
      BY <1>1
      DEF Next, Step, vars, Replace, BindWriter, BindScope, Prepare, Enter, Open, Lock,
          Refuse, Timeout, Crash, Read, Change, BindChild, BeginReopen, CompleteReopen,
          MarkAmbiguous, Create, Reconcile, Install
    <2>2. q = p
      BY <1>1, <2>1 DEF Inv, ControlExclusive, Write, Inside
    <2> QED
      BY <1>1, <2>1, <2>2 DEF Inv, Admitted, Admits, Write
  <1>2. Inv /\ [Next]_vars =>
          (\A p \in Procs : authority' # authority /\ Inside(p) =>
              session.status = "released" /\ proc[p].attempt = session.attempt)
    BY <1>1
  <1> QED
    BY <1>2, Invariance, PTL DEF Spec, WritesFenced
-----------------------------------------------------------------------------
(* The authority commit.                                                     *)

Parts == {"payload", "board"}
Stages == {"clean", "tree", "index"}
Unlanded == {"prepared", "clean", "ready", "replaced", "added", "staged", "committing",
             "connected", "begun"}
Caps == [at : Unlanded \union {"bound", "returned", "confirmed", "done"}, admission : Nat,
         node : 0..MaxNode, head : Nat, opened : 0..MaxNode, after : Nat,
         out : {"none", "rejected", "ambiguous", "committed"}]

CommitShapes ==
    /\ backend \in {"git", "sqlite"}
    /\ admission \in Nat /\ at \in 0..MaxNode
    /\ history \in [0..MaxNode -> Seq(SUBSET Parts)]
    /\ files \in [Parts -> Stages]
    /\ intent \in {"none", "rejected", "prepared", "ambiguous", "committed"}
    /\ cap \in Caps \union {Commit!Idle}

\* The payload is in no commit of any repository or database.
Untouched == Commit!Landings = {} /\ landed = {}

\* The payload landed where and under what the capability was bound to.
CommitProven(c) ==
    /\ landed = {[node |-> c.node, under |-> c.admission]}
    /\ c.after \in DOMAIN history[c.node]
    /\ "payload" \in history[c.node][c.after]

\* A capability knows an admission and a repository that were current when it was
\* bound; both only ever get newer.  Until the effect nothing has landed.  While
\* the repository is still the one it was bound to, the payload is where the last
\* step left it; and what is found unchanged after the effect was so during it.
CapSound(c) ==
    /\ c.admission <= admission /\ c.node <= at
    /\ IF c.at = "bound" THEN intent \in {"none", "rejected"} ELSE intent = "prepared"
    /\ c.at \in Unlanded \union {"bound"} => Untouched
    /\ c.at = "replaced" /\ at = c.node => files["payload"] = "tree"
    /\ c.at \in {"added", "staged", "committing"} /\ at = c.node => files["payload"] = "index"
    /\ c.at = "connected" => c.node <= c.opened /\ c.opened <= at
    /\ c.at = "begun" => c.opened = c.node
    /\ c.at = "returned" /\ at = c.node /\ admission = c.admission => CommitProven(c)
    /\ c.at = "confirmed" => CommitProven(c)
    /\ IF c.at = "done" THEN /\ c.out # "none"
                             /\ c.out = "rejected" => Untouched
                             /\ c.out = "committed" => CommitProven(c)
                        ELSE c.out = "none"

CommitInv ==
    /\ CommitShapes
    /\ \A x, y \in Commit!Landings : x = y
    /\ intent \in {"none", "rejected"} => Untouched
    /\ cap # Commit!Idle => CapSound(cap)

\* Nobody's capability is an idle one.
LEMMA CapNotIdle == \A c \in Caps : c # Commit!Idle
  BY DEF Caps, Commit!Idle

\* A fresh authority has no effect.
LEMMA InitCommit == Commit!Init => CommitInv
  <1> SUFFICES ASSUME Commit!Init PROVE CommitInv
    OBVIOUS
  <1>1. CommitShapes
    <2>1. files \in [Parts -> Stages]
      BY DEF Commit!Init, Commit!Clean, Parts, Stages
    <2>2. history \in [0..MaxNode -> Seq(SUBSET Parts)]
      BY DEF Commit!Init
    <2> QED
      BY <2>1, <2>2, SupportAssumption DEF Commit!Init, CommitShapes
  <1>2. Untouched
    BY DEF Commit!Init, Untouched, Commit!Landings
  <1> QED
    BY <1>1, <1>2 DEF CommitInv, Commit!Init, Untouched

\* A commit is appended to one history: what was landed stays, and the payload
\* has landed once more if the commit contains it.
LEMMA LandGrows ==
  ASSUME CommitShapes, NEW n \in 0..MaxNode, NEW c \in SUBSET Parts, Commit!Land(n, c)
  PROVE  /\ history' \in [0..MaxNode -> Seq(SUBSET Parts)]
         /\ \A m \in 0..MaxNode : \A i \in DOMAIN history[m] :
               i \in DOMAIN history'[m] /\ history'[m][i] = history[m][i]
         /\ Len(history[n]) + 1 \in DOMAIN history'[n]
         /\ history'[n][Len(history[n]) + 1] = c
         /\ "payload" \notin c => Commit!Landings' = Commit!Landings /\ landed' = landed
         /\ "payload" \in c =>
               /\ Commit!Landings' = Commit!Landings \union {<<n, Len(history[n]) + 1>>}
               /\ landed' = landed \union {[node |-> n, under |-> admission]}
  <1> DEFINE k == Len(history[n]) + 1
  <1>1. history[n] \in Seq(SUBSET Parts) /\ Len(history[n]) \in Nat
    BY DEF CommitShapes
  <1>2. history' = [history EXCEPT ![n] = Append(history[n], c)] /\ k \in 1..MaxCommits
    BY <1>1, SupportAssumption DEF Commit!Land
  <1>3. /\ Append(history[n], c) \in Seq(SUBSET Parts)
        /\ DOMAIN Append(history[n], c) = 1..k
        /\ DOMAIN history[n] = 1..Len(history[n])
        /\ Append(history[n], c)[k] = c
        /\ \A i \in DOMAIN history[n] : Append(history[n], c)[i] = history[n][i]
    BY <1>1
  <1>4. history' \in [0..MaxNode -> Seq(SUBSET Parts)]
    BY <1>2, <1>3 DEF CommitShapes
  <1>5. \A m \in 0..MaxNode : m # n => history'[m] = history[m]
    BY <1>2 DEF CommitShapes
  <1>6. history'[n] = Append(history[n], c)
    BY <1>2 DEF CommitShapes
  <1>7. k \in DOMAIN history'[n] /\ history'[n][k] = c
    BY <1>1, <1>3, <1>6
  <1>8. \A m \in 0..MaxNode : \A i \in DOMAIN history[m] :
            i \in DOMAIN history'[m] /\ history'[m][i] = history[m][i]
    BY <1>1, <1>3, <1>5, <1>6
  <1>9. \A m \in 0..MaxNode : \A i \in DOMAIN history'[m] :
            i \in DOMAIN history[m] \/ (m = n /\ i = k)
    BY <1>1, <1>3, <1>5, <1>6
  <1> HIDE DEF k
  <1>10. Commit!Landings' = Commit!Landings \union
             (IF "payload" \in c THEN {<<n, k>>} ELSE {})
    BY <1>2, <1>7, <1>8, <1>9 DEF Commit!Landings
  <1>11. landed' = IF "payload" \in c THEN landed \union {[node |-> n, under |-> admission]}
                                      ELSE landed
    BY DEF Commit!Land
  <1> QED
    BY <1>4, <1>7, <1>8, <1>10, <1>11 DEF k

\* A step of the capability that touches neither a history nor the journal
\* leaves what has landed alone.
LEMMA LandingsStay ==
  ASSUME UNCHANGED <<history, landed>>
  PROVE  /\ Commit!Landings' = Commit!Landings
         /\ Untouched => Untouched'
         /\ \A c : CommitProven(c) => CommitProven(c)'
  BY DEF Commit!Landings, Untouched, CommitProven

\* Whoever is at a point of the protocol holds a capability.
LEMMA Holding ==
  ASSUME CommitInv, NEW point, Commit!At(point), point # "idle"
  PROVE  cap \in Caps /\ cap # Commit!Idle /\ CapSound(cap) /\ cap.at = point
  BY CapNotIdle DEF CommitInv, CommitShapes, Commit!At, Commit!Idle

\* Checks move the capability on or reject the effect, and touch nothing else.
LEMMA CheckedStep ==
  ASSUME CommitInv, NEW from \in Unlanded, NEW to \in Unlanded, NEW holds \in BOOLEAN,
         Commit!Checked(from, holds, to),
         to \in {"clean", "ready"}
           \/ (from = "added" /\ to = "staged")
           \/ (from = "staged" /\ to = "committing")
           \/ (from = "connected" /\ to = "begun" /\ (holds => at = cap.node))
  PROVE  CommitInv'
  <1>1. cap \in Caps /\ cap # Commit!Idle /\ CapSound(cap) /\ cap.at = from
    BY Holding DEF Commit!Checked, Unlanded
  <1>2. UNCHANGED <<backend, admission, at, history, files, intent, landed>>
    BY DEF Commit!Checked
  <1>3. Untouched /\ Untouched' /\ Commit!Landings' = Commit!Landings
    BY <1>1, <1>2, LandingsStay DEF CapSound, Unlanded
  <1>4. intent = "prepared" /\ cap.admission <= admission /\ cap.node <= at
    BY <1>1 DEF CapSound, Unlanded
  <1>5. CASE holds
    <2>1. cap' = [cap EXCEPT !.at = to]
      BY <1>5 DEF Commit!Checked, Commit!Goto
    <2>2. cap' \in Caps
      BY <1>1, <2>1 DEF Caps
    <2>3. /\ cap'.at = to /\ cap'.admission = cap.admission /\ cap'.node = cap.node
          /\ cap'.opened = cap.opened /\ cap'.out = cap.out
      BY <1>1, <2>1 DEF Caps
    <2>4. at \in 0..MaxNode /\ cap.node \in 0..MaxNode /\ cap.opened \in 0..MaxNode
      BY <1>1 DEF CommitInv, CommitShapes, Caps
    <2>5. to = "begun" => cap.opened = cap.node
      BY <1>1, <1>5, <2>4, SupportAssumption DEF CapSound
    <2>6. cap.out = "none"
      BY <1>1 DEF CapSound, Unlanded
    <2>7. to \in {"staged", "committing"} /\ at = cap.node => files["payload"] = "index"
      BY <1>1 DEF CapSound
    <2>8. CapSound(cap)'
      BY <1>2, <1>3, <1>4, <2>3, <2>5, <2>6, <2>7 DEF CapSound, Unlanded
    <2> QED
      BY <1>2, <1>3, <2>2, <2>8 DEF CommitInv, CommitShapes
  <1>6. CASE ~ holds
    <2>1. cap' = [cap EXCEPT !.at = "done", !.out = "rejected"]
      BY <1>6 DEF Commit!Checked, Commit!Done
    <2>2. cap' \in Caps
      BY <1>1, <2>1 DEF Caps
    <2>3. /\ cap'.at = "done" /\ cap'.admission = cap.admission /\ cap'.node = cap.node
          /\ cap'.out = "rejected"
      BY <1>1, <2>1 DEF Caps
    <2>4. CapSound(cap)'
      BY <1>2, <1>3, <1>4, <2>3 DEF CapSound, Unlanded
    <2> QED
      BY <1>2, <1>3, <2>2, <2>4 DEF CommitInv, CommitShapes
  <1> QED
    BY <1>5, <1>6

\* The journal's steps: binding, preparing, finishing, crashing and recovering.
LEMMA JournalStep ==
  ASSUME CommitInv,
         Commit!Bind \/ Commit!Prepare \/ Commit!Finish \/ Commit!Crash \/ Commit!Recover
  PROVE  CommitInv'
  <1>1. UNCHANGED <<backend, admission, at, history, files, landed>>
    BY DEF Commit!Bind, Commit!Prepare, Commit!Finish, Commit!Crash, Commit!Recover
  <1>2. Commit!Landings' = Commit!Landings /\ (Untouched => Untouched')
    BY <1>1, LandingsStay
  <1>3. CASE Commit!Bind
    <2>1. cap' = [at |-> "bound", admission |-> admission, node |-> at, head |-> Commit!Tip,
                  opened |-> at, after |-> 0, out |-> "none"]
          /\ intent \in {"none", "rejected"} /\ intent' = intent
      BY <1>3 DEF Commit!Bind, Commit!Bindable
    <2>2. Commit!Tip \in Nat /\ admission \in Nat /\ at \in 0..MaxNode
      BY DEF CommitInv, CommitShapes, Commit!Tip
    <2>3. cap' \in Caps
      BY <2>1, <2>2 DEF Caps
    <2>4. cap'.at = "bound" /\ cap'.admission = admission /\ cap'.node = at /\ cap'.out = "none"
      BY <2>1
    <2>5. CapSound(cap)'
      BY <1>1, <1>2, <2>1, <2>2, <2>4, SupportAssumption DEF CommitInv, CapSound, Unlanded
    <2> QED
      BY <1>1, <1>2, <2>1, <2>3, <2>5 DEF CommitInv, CommitShapes
  <1>4. CASE Commit!Prepare
    <2>1. cap \in Caps /\ CapSound(cap) /\ cap.at = "bound"
      BY <1>4, Holding DEF Commit!Prepare
    <2>2. CASE admission = cap.admission
      <3>1. cap' = [cap EXCEPT !.at = "prepared"] /\ intent' = "prepared"
        BY <1>4, <2>2 DEF Commit!Prepare, Commit!Goto
      <3>2. /\ cap' \in Caps /\ cap'.at = "prepared" /\ cap'.out = cap.out
            /\ cap'.admission = cap.admission /\ cap'.node = cap.node
        BY <2>1, <3>1 DEF Caps, Unlanded
      <3>3. CapSound(cap)'
        BY <1>1, <1>2, <2>1, <3>1, <3>2 DEF CapSound, Unlanded
      <3> QED
        BY <1>1, <1>2, <3>1, <3>2, <3>3 DEF CommitInv, CommitShapes
    <2>3. CASE admission # cap.admission
      BY <1>1, <1>2, <1>4, <2>3 DEF Commit!Prepare, CommitInv, CommitShapes
    <2> QED
      BY <2>2, <2>3
  <1>5. CASE Commit!Finish
    <2>1. cap \in Caps /\ CapSound(cap) /\ cap.at = "done"
      BY <1>5, Holding DEF Commit!Finish
    <2>2. intent' \in {"rejected", "prepared", "ambiguous", "committed"}
          /\ (intent' = "rejected" => Untouched) /\ cap' = Commit!Idle
      BY <1>5, <2>1 DEF Commit!Finish, CapSound, Caps
    <2> QED
      BY <1>1, <1>2, <2>2 DEF CommitInv, CommitShapes
  <1>6. CASE Commit!Crash \/ Commit!Recover
    BY <1>1, <1>2, <1>6 DEF Commit!Crash, Commit!Recover, CommitInv, CommitShapes
  <1> QED
    BY <1>3, <1>4, <1>5, <1>6

\* The files are staged, or the effect is in doubt before it is attempted.
LEMMA StagingStep ==
  ASSUME CommitInv,
         Commit!ReplaceTarget \/ Commit!AddTarget \/ Commit!StagingFails \/ Commit!Connect
  PROVE  CommitInv'
  <1>1. UNCHANGED <<backend, admission, at, history, intent, landed>>
    BY DEF Commit!ReplaceTarget, Commit!AddTarget, Commit!StagingFails, Commit!Doubt,
           Commit!Connect
  <1>2. Commit!Landings' = Commit!Landings /\ (Untouched => Untouched')
    BY <1>1, LandingsStay
  <1>3. cap \in Caps /\ CapSound(cap) /\ cap.at \in {"ready", "replaced"}
    BY Holding
    DEF Commit!ReplaceTarget, Commit!AddTarget, Commit!StagingFails, Commit!Connect
  <1>4. /\ Untouched /\ intent = "prepared" /\ cap.admission <= admission /\ cap.node <= at
        /\ cap.out = "none"
    BY <1>3 DEF CapSound, Unlanded
  <1>5. files \in [Parts -> Stages] /\ at \in 0..MaxNode
    BY DEF CommitInv, CommitShapes
  <1>6. CASE Commit!ReplaceTarget
    <2>1. cap' = [cap EXCEPT !.at = "replaced"] /\ files' = [files EXCEPT !["payload"] = "tree"]
      BY <1>6 DEF Commit!ReplaceTarget, Commit!Goto
    <2>2. /\ cap' \in Caps /\ cap'.at = "replaced" /\ cap'.out = cap.out
          /\ cap'.admission = cap.admission /\ cap'.node = cap.node
      BY <1>3, <2>1 DEF Caps, Unlanded
    <2>3. files' \in [Parts -> Stages] /\ files'["payload"] = "tree"
      BY <1>5, <2>1 DEF Parts, Stages
    <2>4. CapSound(cap)'
      BY <1>1, <1>2, <1>4, <2>2, <2>3 DEF CapSound, Unlanded
    <2> QED
      BY <1>1, <1>2, <1>4, <2>2, <2>3, <2>4 DEF CommitInv, CommitShapes
  <1>7. CASE Commit!AddTarget
    <2>1. /\ cap' = [cap EXCEPT !.at = "added"] /\ cap.at = "replaced"
          /\ files' = [files EXCEPT !["payload"] =
                          IF files["payload"] = "tree" THEN "index" ELSE files["payload"]]
      BY <1>7 DEF Commit!AddTarget, Commit!Goto, Commit!At
    <2>2. /\ cap' \in Caps /\ cap'.at = "added" /\ cap'.out = cap.out
          /\ cap'.admission = cap.admission /\ cap'.node = cap.node
      BY <1>3, <2>1 DEF Caps, Unlanded
    <2>3. files' \in [Parts -> Stages] /\ (files["payload"] = "tree" => files'["payload"] = "index")
      BY <1>5, <2>1 DEF Parts, Stages
    <2>4. at = cap.node => files["payload"] = "tree"
      BY <1>3, <2>1 DEF CapSound
    <2>5. CapSound(cap)'
      BY <1>1, <1>2, <1>4, <2>2, <2>3, <2>4 DEF CapSound, Unlanded
    <2> QED
      BY <1>1, <1>2, <1>4, <2>2, <2>3, <2>5 DEF CommitInv, CommitShapes
  <1>8. CASE Commit!StagingFails
    <2>1. cap' = [cap EXCEPT !.at = "done", !.out = "ambiguous"] /\ files' = files
      BY <1>8 DEF Commit!StagingFails, Commit!Doubt, Commit!Done
    <2>2. /\ cap' \in Caps /\ cap'.at = "done" /\ cap'.out = "ambiguous"
          /\ cap'.admission = cap.admission /\ cap'.node = cap.node
      BY <1>3, <2>1 DEF Caps, Unlanded
    <2>3. CapSound(cap)'
      BY <1>1, <1>2, <1>4, <2>2 DEF CapSound, Unlanded
    <2> QED
      BY <1>1, <1>2, <1>4, <2>1, <2>2, <2>3 DEF CommitInv, CommitShapes
  <1>9. CASE Commit!Connect
    <2>1. cap' = [cap EXCEPT !.at = "connected", !.opened = at] /\ files' = files
      BY <1>9 DEF Commit!Connect
    <2>2. /\ cap' \in Caps /\ cap'.at = "connected" /\ cap'.out = cap.out
          /\ cap'.admission = cap.admission /\ cap'.node = cap.node /\ cap'.opened = at
      BY <1>3, <1>5, <2>1 DEF Caps, Unlanded
    <2>3. CapSound(cap)'
      BY <1>1, <1>2, <1>4, <1>5, <2>2, SupportAssumption DEF CapSound, Unlanded
    <2> QED
      BY <1>1, <1>2, <1>4, <2>1, <2>2, <2>3 DEF CommitInv, CommitShapes
  <1> QED
    BY <1>6, <1>7, <1>8, <1>9

\* After an effect that was the first one the payload has landed at most once.
LEMMA FirstLanding ==
  ASSUME CommitShapes, Untouched,
         NEW n \in 0..MaxNode, NEW c \in SUBSET Parts, Commit!Land(n, c)
  PROVE  /\ \A x, y \in Commit!Landings' : x = y
         /\ "payload" \in c => landed' = {[node |-> n, under |-> admission]}
  BY LandGrows DEF Untouched

\* What is staged, and what a commit leaves of it.
LEMMA StagedFiles ==
  ASSUME CommitShapes
  PROVE  /\ Commit!Staged \in SUBSET Parts
         /\ files["payload"] = "index" => "payload" \in Commit!Staged
         /\ [f \in DOMAIN files |-> IF f \in Commit!Staged THEN "clean" ELSE files[f]]
               \in [Parts -> Stages]
  BY DEF CommitShapes, Commit!Staged, Parts, Stages

\* The effect itself, reported or not: the payload lands at most once, and if
\* neither the authority nor the admission has changed, where it should.
LEMMA EffectStep ==
  ASSUME CommitInv,
         Commit!GitCommit \/ Commit!GitCommitFails
           \/ Commit!CommitTransaction \/ Commit!TransactionFails
  PROVE  CommitInv'
  <1>1. cap \in Caps /\ cap # Commit!Idle /\ CapSound(cap) /\ cap.at \in {"committing", "begun"}
    BY Holding
    DEF Commit!GitCommit, Commit!GitCommitFails, Commit!CommitTransaction,
        Commit!TransactionFails
  <1>2. /\ Untouched /\ intent = "prepared" /\ cap.admission <= admission /\ cap.node <= at
        /\ cap.out = "none"
    BY <1>1 DEF CapSound, Unlanded
  <1>3. UNCHANGED <<backend, admission, at, intent>>
    BY DEF Commit!GitCommit, Commit!GitCommitFails, Commit!CommitTransaction,
           Commit!TransactionFails
  <1>4. CommitShapes /\ at \in 0..MaxNode /\ cap.opened \in 0..MaxNode /\ cap.node \in 0..MaxNode
    BY <1>1 DEF CommitInv, CommitShapes, Caps
  <1>5. ASSUME history' \in [0..MaxNode -> Seq(SUBSET Parts)], files' \in [Parts -> Stages],
               \A x, y \in Commit!Landings' : x = y,
               cap' = [cap EXCEPT !.at = "done", !.out = "ambiguous"]
        PROVE  CommitInv'
    <2>1. /\ cap' \in Caps /\ cap'.at = "done" /\ cap'.out = "ambiguous"
          /\ cap'.admission = cap.admission /\ cap'.node = cap.node
      BY <1>1, <1>5 DEF Caps
    <2>2. CapSound(cap)'
      BY <1>2, <1>3, <2>1 DEF CapSound, Unlanded
    <2>3. CommitShapes'
      BY <1>3, <1>4, <1>5, <2>1 DEF CommitShapes
    <2> QED
      BY <1>2, <1>3, <1>5, <2>2, <2>3 DEF CommitInv
  <1>6. ASSUME history' \in [0..MaxNode -> Seq(SUBSET Parts)], files' \in [Parts -> Stages],
               \A x, y \in Commit!Landings' : x = y,
               NEW k \in Nat, cap' = [cap EXCEPT !.at = "returned", !.after = k],
               at = cap.node /\ admission = cap.admission =>
                  /\ landed' = {[node |-> cap.node, under |-> cap.admission]}
                  /\ k \in DOMAIN history'[cap.node] /\ "payload" \in history'[cap.node][k]
        PROVE  CommitInv'
    <2>1. /\ cap' \in Caps /\ cap'.at = "returned" /\ cap'.out = cap.out /\ cap'.after = k
          /\ cap'.admission = cap.admission /\ cap'.node = cap.node
      BY <1>1, <1>6 DEF Caps
    <2>2. at = cap.node /\ admission = cap.admission => CommitProven(cap)'
      BY <1>3, <1>6, <2>1 DEF CommitProven
    <2>3. CapSound(cap)'
      BY <1>2, <1>3, <2>1, <2>2 DEF CapSound, Unlanded
    <2>4. CommitShapes'
      BY <1>3, <1>4, <1>6, <2>1 DEF CommitShapes
    <2> QED
      BY <1>2, <1>3, <1>6, <2>3, <2>4 DEF CommitInv
  <1>7. ASSUME UNCHANGED <<history, landed>>
        PROVE  history' \in [0..MaxNode -> Seq(SUBSET Parts)] /\ \A x, y \in Commit!Landings' : x = y
    BY <1>2, <1>4, <1>7, LandingsStay DEF CommitShapes, Untouched
  <1>8. CASE Commit!GitCommit
    <2>1. /\ Commit!Land(at, Commit!Staged) /\ cap.at = "committing"
          /\ files' = [f \in DOMAIN files |-> IF f \in Commit!Staged THEN "clean" ELSE files[f]]
          /\ cap' = [cap EXCEPT !.at = "returned", !.after = Len(history[at]) + 1]
      BY <1>8 DEF Commit!GitCommit, Commit!Tip, Commit!At
    <2>2. Len(history[at]) + 1 \in Nat
      BY <1>4 DEF CommitShapes
    <2>3. at = cap.node => "payload" \in Commit!Staged
      BY <1>1, <1>4, <2>1, StagedFiles DEF CapSound
    <2>4. /\ history' \in [0..MaxNode -> Seq(SUBSET Parts)]
          /\ Len(history[at]) + 1 \in DOMAIN history'[at]
          /\ history'[at][Len(history[at]) + 1] = Commit!Staged
      BY <1>4, <2>1, StagedFiles, LandGrows
    <2>5. /\ \A x, y \in Commit!Landings' : x = y
          /\ "payload" \in Commit!Staged => landed' = {[node |-> at, under |-> admission]}
      BY <1>2, <1>4, <2>1, StagedFiles, FirstLanding
    <2>6. files' \in [Parts -> Stages]
      BY <1>4, <2>1, StagedFiles
    <2> QED
      BY <1>6, <2>1, <2>2, <2>3, <2>4, <2>5, <2>6
  <1>9. CASE Commit!GitCommitFails
    <2>1. cap' = [cap EXCEPT !.at = "done", !.out = "ambiguous"]
      BY <1>9 DEF Commit!GitCommitFails, Commit!Done, Commit!Decoded
    <2>2. CASE UNCHANGED <<history, landed, files>>
      BY <1>4, <1>5, <1>7, <2>1, <2>2 DEF CommitShapes
    <2>3. CASE /\ Commit!Land(at, Commit!Staged)
               /\ files' = [f \in DOMAIN files |-> IF f \in Commit!Staged THEN "clean"
                                                                          ELSE files[f]]
      <3>1. history' \in [0..MaxNode -> Seq(SUBSET Parts)]
        BY <1>4, <2>3, StagedFiles, LandGrows
      <3>2. \A x, y \in Commit!Landings' : x = y
        BY <1>2, <1>4, <2>3, StagedFiles, FirstLanding
      <3> QED
        BY <1>4, <1>5, <2>1, <2>3, <3>1, <3>2, StagedFiles
    <2> QED
      BY <1>9, <2>2, <2>3 DEF Commit!GitCommitFails
  <1>10. CASE Commit!CommitTransaction
    <2>1. /\ Commit!Land(cap.opened, {"payload"}) /\ cap.at = "begun" /\ files' = files
          /\ cap' = [cap EXCEPT !.at = "returned", !.after = Len(history[cap.opened]) + 1]
      BY <1>10 DEF Commit!CommitTransaction, Commit!At
    <2>2. Len(history[cap.opened]) + 1 \in Nat /\ {"payload"} \in SUBSET Parts
      BY <1>4 DEF CommitShapes, Parts
    <2>3. cap.opened = cap.node
      BY <1>1, <2>1 DEF CapSound
    <2>4. /\ history' \in [0..MaxNode -> Seq(SUBSET Parts)]
          /\ Len(history[cap.opened]) + 1 \in DOMAIN history'[cap.opened]
          /\ history'[cap.opened][Len(history[cap.opened]) + 1] = {"payload"}
      BY <1>4, <2>1, <2>2, LandGrows
    <2>5. /\ \A x, y \in Commit!Landings' : x = y
          /\ landed' = {[node |-> cap.opened, under |-> admission]}
      BY <1>2, <1>4, <2>1, <2>2, FirstLanding
    <2>6. files' \in [Parts -> Stages]
      BY <1>4, <2>1 DEF CommitShapes
    <2> QED
      BY <1>6, <2>1, <2>2, <2>3, <2>4, <2>5, <2>6
  <1>11. CASE Commit!TransactionFails
    <2>1. cap' = [cap EXCEPT !.at = "done", !.out = "ambiguous"] /\ files' \in [Parts -> Stages]
      BY <1>4, <1>11 DEF Commit!TransactionFails, Commit!Done, CommitShapes
    <2>2. CASE UNCHANGED <<history, landed>>
      BY <1>5, <1>7, <2>1, <2>2
    <2>3. CASE Commit!Land(cap.opened, {"payload"})
      <3>1. {"payload"} \in SUBSET Parts
        BY DEF Parts
      <3>2. history' \in [0..MaxNode -> Seq(SUBSET Parts)] /\ \A x, y \in Commit!Landings' : x = y
        BY <1>2, <1>4, <2>3, <3>1, LandGrows, FirstLanding
      <3> QED
        BY <1>5, <2>1, <3>2
    <2> QED
      BY <1>11, <2>2, <2>3 DEF Commit!TransactionFails
  <1> QED
    BY <1>8, <1>9, <1>10, <1>11

\* A receipt is given for what is found unchanged.
LEMMA ReceiptStep ==
  ASSUME CommitInv, Commit!Confirm \/ Commit!VerifyCommit
  PROVE  CommitInv'
  <1>1. UNCHANGED <<backend, admission, at, history, files, intent, landed>>
    BY DEF Commit!Confirm, Commit!VerifyCommit
  <1>2. /\ Commit!Landings' = Commit!Landings
        /\ Untouched => Untouched'
        /\ \A c : CommitProven(c) => CommitProven(c)'
    BY <1>1, LandingsStay
  <1>3. cap \in Caps /\ CapSound(cap) /\ cap.at \in {"returned", "confirmed"}
    BY Holding DEF Commit!Confirm, Commit!VerifyCommit
  <1>4. /\ intent = "prepared" /\ cap.admission <= admission /\ cap.node <= at
        /\ cap.out = "none"
    BY <1>3 DEF CapSound, Unlanded
  <1>5. ASSUME NEW point \in {"confirmed", "done"}, NEW out \in {"none", "ambiguous", "committed"},
               cap' = [cap EXCEPT !.at = point, !.out = out],
               (point = "done") <=> (out # "none"),
               out # "ambiguous" => CommitProven(cap)
        PROVE  CommitInv'
    <2>1. /\ cap' \in Caps /\ cap'.at = point /\ cap'.out = out /\ cap'.after = cap.after
          /\ cap'.admission = cap.admission /\ cap'.node = cap.node
      BY <1>3, <1>5 DEF Caps
    <2>2. out # "ambiguous" => CommitProven(cap)'
      BY <1>1, <1>5, <2>1 DEF CommitProven
    <2>3. CapSound(cap)'
      BY <1>1, <1>4, <1>5, <2>1, <2>2 DEF CapSound, Unlanded
    <2> QED
      BY <1>1, <1>2, <2>1, <2>3 DEF CommitInv, CommitShapes
  <1>6. CASE Commit!Confirm
    <2>1. cap.at = "returned"
      BY <1>6 DEF Commit!Confirm, Commit!At
    <2>2. CASE Commit!Confirmed /\ Commit!Same /\ Commit!Goto("confirmed")
      <3>1. CommitProven(cap)
        BY <1>3, <2>1, <2>2
        DEF Commit!Confirmed, Commit!Admitted, Commit!Same, Commit!SameRepository,
            Commit!SameDatabase, CapSound
      <3>2. cap' = [cap EXCEPT !.at = "confirmed", !.out = "none"]
        BY <1>3, <1>4, <2>2 DEF Commit!Goto, Caps
      <3> QED
        BY <1>5, <3>1, <3>2
    <2>3. CASE Commit!Done("ambiguous")
      BY <1>5, <2>3 DEF Commit!Done
    <2> QED
      BY <1>6, <2>2, <2>3 DEF Commit!Confirm
  <1>7. CASE Commit!VerifyCommit
    <2>1. CommitProven(cap)
      BY <1>3, <1>7 DEF Commit!VerifyCommit, Commit!At, CapSound
    <2>2. \E out \in {"committed", "ambiguous"} : cap' = [cap EXCEPT !.at = "done", !.out = out]
      BY <1>7 DEF Commit!VerifyCommit, Commit!Done
    <2> QED
      BY <1>5, <2>1, <2>2
  <1> QED
    BY <1>6, <1>7

\* A board commit contains nothing of the payload: what had landed, and what a
\* capability can prove, is as before.
LEMMA BoardLands ==
  ASSUME CommitInv, NEW n \in 0..MaxNode, Commit!Land(n, {"board"})
  PROVE  /\ history' \in [0..MaxNode -> Seq(SUBSET Parts)]
         /\ Commit!Landings' = Commit!Landings /\ landed' = landed
         /\ Untouched => Untouched'
         /\ \A c \in Caps : CommitProven(c) =>
               /\ landed' = {[node |-> c.node, under |-> c.admission]}
               /\ c.after \in DOMAIN history'[c.node]
               /\ "payload" \in history'[c.node][c.after]
  <1>1. CommitShapes /\ {"board"} \in SUBSET Parts /\ "payload" \notin {"board"}
    BY DEF CommitInv, Parts
  <1>2. /\ history' \in [0..MaxNode -> Seq(SUBSET Parts)]
        /\ Commit!Landings' = Commit!Landings /\ landed' = landed
    BY <1>1, LandGrows
  <1>3. \A m \in 0..MaxNode : \A i \in DOMAIN history[m] :
           i \in DOMAIN history'[m] /\ history'[m][i] = history[m][i]
    BY <1>1, LandGrows
  <1>4. \A c \in Caps : c.node \in 0..MaxNode
    BY DEF Caps
  <1> QED
    BY <1>2, <1>3, <1>4 DEF Untouched, CommitProven

\* The others: a newer admission, another repository, a board command.
LEMMA OthersStep ==
  ASSUME CommitInv,
         \/ Commit!ChangeAdmission \/ Commit!Replace
         \/ Commit!BoardCommit \/ Commit!BoardTransaction
         \/ \E to \in {"tree", "index"} : Commit!BoardWrite(to)
  PROVE  CommitInv'
  <1>1. UNCHANGED <<backend, intent, cap>>
    BY DEF Commit!ChangeAdmission, Commit!Replace, Commit!BoardCommit,
           Commit!BoardTransaction, Commit!BoardWrite
  <1>2. CommitShapes
    BY DEF CommitInv
  <1>3. ASSUME UNCHANGED <<history, landed>>, files' \in [Parts -> Stages],
               admission' \in Nat, admission <= admission', at' \in 0..MaxNode, at <= at',
               at' = at => files'["payload"] = files["payload"]
        PROVE  CommitInv'
    <2>1. Commit!Landings' = Commit!Landings /\ (Untouched => Untouched')
      BY <1>3, LandingsStay
    <2>2. CommitProven(cap) => CommitProven(cap)'
      BY <1>1, <1>3 DEF CommitProven
    <2>3. ASSUME cap # Commit!Idle PROVE CapSound(cap)'
      <3>1. cap \in Caps /\ CapSound(cap)
        BY <2>3 DEF CommitInv, CommitShapes
      <3>2. /\ cap.admission \in Nat /\ admission \in Nat
            /\ cap.node \in Nat /\ cap.opened \in Nat /\ at \in Nat /\ at' \in Nat
        BY <1>2, <1>3, <3>1, SupportAssumption DEF Caps, CommitShapes
      <3>3. /\ at' = cap.node => at = cap.node /\ at' = at
            /\ admission' = cap.admission => admission = cap.admission
            /\ cap.admission <= admission' /\ cap.node <= at'
            /\ cap.opened <= at => cap.opened <= at'
        BY <1>3, <3>1, <3>2 DEF CapSound
      <3> QED
        BY <1>1, <1>3, <2>1, <2>2, <3>1, <3>3 DEF CapSound
    <2> QED
      BY <1>1, <1>2, <1>3, <2>1, <2>3 DEF CommitInv, CommitShapes
  <1>4. ASSUME NEW n \in 0..MaxNode, Commit!Land(n, {"board"}), UNCHANGED <<admission, at>>,
               files' \in [Parts -> Stages], files'["payload"] = files["payload"]
        PROVE  CommitInv'
    <2>1. /\ history' \in [0..MaxNode -> Seq(SUBSET Parts)]
          /\ Commit!Landings' = Commit!Landings /\ landed' = landed
          /\ Untouched => Untouched'
      BY <1>4, BoardLands
    <2>2. ASSUME cap # Commit!Idle PROVE CapSound(cap)'
      <3>1. cap \in Caps /\ CapSound(cap)
        BY <2>2 DEF CommitInv, CommitShapes
      <3>2. CommitProven(cap) => CommitProven(cap)'
        BY <1>1, <1>4, <3>1, BoardLands DEF CommitProven
      <3> QED
        BY <1>1, <1>4, <2>1, <3>1, <3>2 DEF CapSound
    <2> QED
      BY <1>1, <1>2, <1>4, <2>1, <2>2 DEF CommitInv, CommitShapes
  <1>5. CASE Commit!ChangeAdmission
    BY <1>2, <1>3, <1>5, SupportAssumption DEF Commit!ChangeAdmission, CommitShapes
  <1>6. CASE Commit!Replace
    <2>1. Commit!Clean \in [Parts -> Stages]
      BY DEF Commit!Clean, Parts, Stages
    <2>2. at' = at + 1 /\ at' \in 0..MaxNode
      BY <1>2, <1>6, SupportAssumption DEF Commit!Replace, CommitShapes
    <2>3. at' # at /\ at <= at'
      BY <1>2, <2>2, SupportAssumption DEF CommitShapes
    <2> QED
      BY <1>2, <1>3, <1>6, <2>1, <2>2, <2>3 DEF Commit!Replace, CommitShapes
  <1>7. ASSUME NEW to \in Stages, files' = [files EXCEPT !["board"] = to]
        PROVE  files' \in [Parts -> Stages] /\ files'["payload"] = files["payload"]
    BY <1>2, <1>7 DEF CommitShapes, Parts
  <1>8. CASE \E to \in {"tree", "index"} : Commit!BoardWrite(to)
    <2>1. PICK to \in {"tree", "index"} : Commit!BoardWrite(to)
      BY <1>8
    <2>2. files' \in [Parts -> Stages] /\ files'["payload"] = files["payload"]
      BY <1>7, <2>1 DEF Commit!BoardWrite, Stages
    <2> QED
      BY <1>2, <1>3, <2>1, <2>2, SupportAssumption DEF Commit!BoardWrite, CommitShapes
  <1>9. CASE Commit!BoardCommit
    <2>1. files' \in [Parts -> Stages] /\ files'["payload"] = files["payload"]
      BY <1>7, <1>9 DEF Commit!BoardCommit, Stages
    <2> QED
      BY <1>2, <1>4, <1>9, <2>1 DEF Commit!BoardCommit, CommitShapes
  <1>10. CASE Commit!BoardTransaction
    BY <1>2, <1>4, <1>10 DEF Commit!BoardTransaction, CommitShapes
  <1> QED
    BY <1>5, <1>6, <1>8, <1>9, <1>10

\* Every step of the capability and its surroundings keeps the invariant.
LEMMA StepCommit ==
  ASSUME CommitInv, [Commit!Next]_(Commit!vars)
  PROVE  CommitInv'
  <1>1. CASE Commit!AssertBefore \/ Commit!AssertAdmission \/ Commit!AssertIndex
               \/ Commit!AssertStagedAdmission \/ Commit!BeginTransaction
    <2>1. /\ Commit!Before \in BOOLEAN /\ Commit!Admitted \in BOOLEAN
          /\ Commit!ExactIndex \in BOOLEAN /\ Commit!Reopened \in BOOLEAN
      BY DEF Commit!Before, Commit!Admitted, Commit!ExactIndex, Commit!Reopened,
             Commit!Same, Commit!SameRepository, Commit!SameDatabase
    <2>2. Commit!Reopened => at = cap.node
      BY DEF Commit!Reopened, Commit!Same, Commit!SameRepository, Commit!SameDatabase
    <2>3. CASE Commit!AssertBefore
      BY <2>1, <2>3, CheckedStep DEF Commit!AssertBefore, Unlanded
    <2>4. CASE Commit!AssertAdmission
      BY <2>1, <2>4, CheckedStep DEF Commit!AssertAdmission, Unlanded
    <2>5. CASE Commit!AssertIndex
      BY <2>1, <2>5, CheckedStep DEF Commit!AssertIndex, Unlanded
    <2>6. CASE Commit!AssertStagedAdmission
      BY <2>1, <2>6, CheckedStep DEF Commit!AssertStagedAdmission, Unlanded
    <2>7. CASE Commit!BeginTransaction
      BY <2>1, <2>2, <2>7, CheckedStep DEF Commit!BeginTransaction, Unlanded
    <2> QED
      BY <1>1, <2>3, <2>4, <2>5, <2>6, <2>7
  <1>2. CASE UNCHANGED Commit!vars
    <2>1. UNCHANGED <<backend, admission, at, history, files, intent, cap, landed>>
      BY <1>2 DEF Commit!vars
    <2>2. Commit!Landings' = Commit!Landings /\ (Untouched => Untouched')
      BY <2>1, LandingsStay
    <2>3. CommitProven(cap) => CommitProven(cap)'
      BY <2>1 DEF CommitProven
    <2>4. CapSound(cap) => CapSound(cap)'
      BY <2>1, <2>2, <2>3 DEF CapSound
    <2> QED
      BY <2>1, <2>2, <2>4 DEF CommitInv, CommitShapes
  <1> QED
    BY <1>1, <1>2, JournalStep, StagingStep, EffectStep, ReceiptStep, OthersStep
    DEF Commit!Next

\* The capability's knowledge agrees with the authority in every reachable state.
THEOREM CommitInvariance == Commit!Spec => []CommitInv
  <1>1. CommitInv /\ [Commit!Next]_(Commit!vars) => CommitInv'
    BY StepCommit
  <1> QED
    BY InitCommit, <1>1, PTL DEF Commit!Spec

\* A receipt proves that the effect landed in the authority and under the admission
\* the capability was bound to; the payload lands at most once, and not at all when
\* journaled as rejected: for any number of retries, crashes, replaced authorities,
\* lost sessions and board commands, on both backends (authority_mutation.execute).
THEOREM CommitAccounting == Commit!Spec => []CommitAccounted
  <1>1. ASSUME CommitInv PROVE Commit!ReceiptProves
    <2> SUFFICES ASSUME Commit!Receipt
                 PROVE  /\ landed = {[node |-> cap.node, under |-> cap.admission]}
                        /\ "payload" \in history[cap.node][cap.after]
      BY DEF Commit!ReceiptProves
    <2>1. CapSound(cap) /\ cap.out = "committed"
      BY <1>1 DEF CommitInv, Commit!Receipt
    <2> QED
      BY <2>1 DEF CapSound, CommitProven
  <1>2. CommitInv => CommitAccounted
    BY <1>1
    DEF CommitInv, Untouched, CommitAccounted, Commit!CommitAccounted, Commit!LandsOnce
  <1> QED
    BY <1>2, CommitInvariance, PTL
-----------------------------------------------------------------------------
(* The selection of a runtime.                                               *)

Selectors == [ino : 0..MaxNodes, active : Releases]
Dirs == [node : Nat, tree : Runtime!Trees]
Publishers == [at : {"written", "renamed"}, release : Releases, ino : 0..MaxNodes]
Reports == [out : {"unknown", "published", "ambiguous", "failed", "committed", "not-committed"},
            release : Releases, before : Releases]
Validated == {"resolved", "admitted", "entrypoint", "bound", "launched"}
Dispatches == [at : {"captured", "read", "opened", "verified"} \union Validated,
               ino : 0..MaxNodes, active : Releases \union {None}, dir : Nat \union {None},
               seen : Nat \union {None}, imports : Nat \union {None}]

RuntimeShapes ==
    /\ selector \in Selectors /\ durable \in Selectors
    /\ content \in [0..MaxNodes -> Releases \union {None}]
    /\ publisher \in Publishers \union {Runtime!Idle}
    /\ last \in Reports \union {[out |-> "none"]}
    /\ reverted \in BOOLEAN
    /\ dirs \in [Releases -> Dirs \union {None}]
    /\ dispatch \in Dispatches \union {Runtime!Idle}
    /\ nodes \in 0..MaxNodes

\* Every selector, at its path, durable or about to be renamed, is a file whose
\* content was written once and never changes.
Written ==
    /\ selector.ino <= nodes /\ content[selector.ino] = selector.active
    /\ durable.ino <= nodes /\ content[durable.ino] = durable.active
    /\ publisher # Runtime!Idle =>
          publisher.ino <= nodes /\ content[publisher.ino] = publisher.release

\* While a publication is under way the selector is the one it found, or the one it
\* put there.  One that reported success is durable; one that failed is not visible
\* unless a power failure undid an earlier one.
Reported ==
    /\ publisher # Runtime!Idle =>
          /\ last.out = "unknown" /\ last.release = publisher.release
          /\ publisher.at = "written" => selector.active = last.before
          /\ publisher.at = "renamed" => selector.active = last.release
    /\ last.out = "published" =>
          selector.active = last.release /\ durable.active = last.release
    /\ Runtime!FailedStaysInvisible /\ Runtime!CommittedStays

\* The directory at a release's path is the one that was opened, or one with a later
\* inode, so that finding it again means it never went away: what was verified by path
\* meanwhile was found in it.
Retained(d) ==
    /\ d.active \in Releases /\ d.dir \in Nat
    /\ dirs[d.active] \in Dirs
    /\ d.dir <= dirs[d.active].node
    /\ d.active \notin touched => dirs[d.active].node = d.dir

Dispatched(d) ==
    /\ d.ino <= nodes
    /\ d.at = "read" => d.active \in Releases
    /\ d.at \in {"opened", "verified"} \union Validated => Retained(d)
    /\ d.at = "verified" => d.seen \in Nat /\ d.dir <= d.seen /\ d.seen <= dirs[d.active].node
    /\ d.at \in Validated => content[d.ino] = d.active /\ d.seen = d.dir
    /\ d.at = "launched" /\ d.active \notin touched => d.imports = d.dir

\* A directory nobody changed outside the protocol is as it was staged.
Staged == \A r \in Releases : dirs[r] \in Dirs =>
              dirs[r].node <= nodes /\ (r \notin touched => dirs[r].tree = "whole")

RuntimeInv ==
    /\ RuntimeShapes
    /\ Staged
    /\ Written /\ Reported
    /\ dispatch # Runtime!Idle => Dispatched(dispatch)

\* Nobody who publishes or dispatches is idle.
LEMMA BusyNotIdle ==
  /\ \A d \in Publishers \union Dispatches : d # Runtime!Idle
  /\ \A d \in Publishers : d.at # "idle"
  /\ \A d \in Dispatches : d.at # "idle"
  /\ Runtime!Idle.at = "idle"
  BY DEF Publishers, Dispatches, Runtime!Idle, Validated

\* At the start the first release is selected, staged and durable.
LEMMA InitRuntime == Runtime!Init => RuntimeInv
  <1> SUFFICES ASSUME Runtime!Init PROVE RuntimeInv
    OBVIOUS
  <1>1. selector = [ino |-> 0, active |-> First] /\ durable = selector /\ 0 \in 0..MaxNodes
    BY SupportAssumption DEF Runtime!Init
  <1>2. RuntimeShapes
    <2>1. content \in [0..MaxNodes -> Releases \union {None}]
      BY SupportAssumption DEF Runtime!Init
    <2>2. dirs \in [Releases -> Dirs \union {None}]
      BY DEF Runtime!Init, Dirs, Runtime!Trees
    <2>3. selector \in Selectors /\ durable \in Selectors
      BY <1>1, SupportAssumption DEF Selectors
    <2>4. reverted \in BOOLEAN /\ nodes \in 0..MaxNodes
      BY <1>1 DEF Runtime!Init
    <2> QED
      BY <2>1, <2>2, <2>3, <2>4 DEF Runtime!Init, RuntimeShapes
  <1>3. Staged
    <2>1. ASSUME NEW r \in Releases, dirs[r] \in Dirs
          PROVE  dirs[r].node <= nodes /\ dirs[r].tree = "whole"
      <3>1. nodes = 0 /\ dirs[r] = IF r = First THEN [node |-> 0, tree |-> "whole"] ELSE None
        BY DEF Runtime!Init
      <3>2. None \notin Dirs
        BY SupportAssumption DEF Dirs, Runtime!Trees
      <3> QED
        BY <2>1, <3>1, <3>2
    <2> QED
      BY <2>1 DEF Staged
  <1>4. Written
    BY <1>1 DEF Runtime!Init, Written
  <1>5. Reported
    BY DEF Runtime!Init, Reported, Runtime!FailedStaysInvisible, Runtime!CommittedStays
  <1> QED
    BY <1>2, <1>3, <1>4, <1>5 DEF RuntimeInv, Runtime!Init

\* A step of a dispatched command changes only what that command knows.
LEMMA DispatchStep ==
  ASSUME RuntimeInv, Runtime!Dispatch
  PROVE  RuntimeInv'
  <1>1. UNCHANGED <<selector, durable, content, publisher, last, reverted, dirs, touched, nodes>>
    BY DEF Runtime!Dispatch, Runtime!CaptureSelector, Runtime!ReadSelector,
           Runtime!OpenRelease, Runtime!VerifyRelease, Runtime!Resolve, Runtime!Admit,
           Runtime!PrepareDispatch, Runtime!BindEntrypoint, Runtime!Launch,
           Runtime!EndDispatch, Runtime!Quiet, Runtime!selection
  <1>2. ASSUME dispatch' \in Dispatches \union {Runtime!Idle},
               dispatch' # Runtime!Idle => Dispatched(dispatch)'
        PROVE  RuntimeInv'
    BY <1>1, <1>2
    DEF RuntimeInv, RuntimeShapes, Staged, Written, Reported, Runtime!FailedStaysInvisible,
        Runtime!CommittedStays
  <1>3. /\ selector \in Selectors /\ dirs \in [Releases -> Dirs \union {None}]
        /\ nodes \in Nat /\ selector.ino <= nodes /\ content[selector.ino] = selector.active
        /\ \A r \in Releases : dirs[r] \in Dirs => dirs[r].node <= nodes /\ dirs[r].node \in Nat
    BY SupportAssumption DEF RuntimeInv, RuntimeShapes, Staged, Written, Dirs
  <1>4. ASSUME NEW point, Runtime!At(point), point # "idle"
        PROVE  dispatch \in Dispatches /\ Dispatched(dispatch) /\ dispatch.at = point
    BY <1>4, BusyNotIdle DEF RuntimeInv, RuntimeShapes, Runtime!At
  <1>5. CASE Runtime!CaptureSelector
    <2>1. dispatch' = [at |-> "captured", ino |-> selector.ino, active |-> None,
                       dir |-> None, seen |-> None, imports |-> None]
      BY <1>5 DEF Runtime!CaptureSelector
    <2>2. dispatch' \in Dispatches /\ dispatch'.at = "captured" /\ dispatch'.ino = selector.ino
      BY <1>3, <2>1 DEF Dispatches, Selectors
    <2>3. Dispatched(dispatch)'
      BY <1>1, <1>3, <2>2 DEF Dispatched, Validated
    <2> QED
      BY <1>2, <2>2, <2>3
  <1>6. CASE Runtime!ReadSelector
    <2>1. dispatch \in Dispatches /\ Dispatched(dispatch)
      BY <1>4, <1>6 DEF Runtime!ReadSelector
    <2>2. dispatch' = [dispatch EXCEPT !.at = "read", !.active = selector.active]
      BY <1>6 DEF Runtime!ReadSelector
    <2>3. /\ dispatch' \in Dispatches /\ dispatch'.at = "read" /\ dispatch'.ino = dispatch.ino
          /\ dispatch'.active \in Releases
      BY <1>3, <2>1, <2>2 DEF Dispatches, Selectors
    <2>4. Dispatched(dispatch)'
      BY <1>1, <2>1, <2>3 DEF Dispatched, Validated
    <2> QED
      BY <1>2, <2>3, <2>4
  <1>7. CASE Runtime!OpenRelease
    <2>1. dispatch \in Dispatches /\ Dispatched(dispatch) /\ dispatch.at = "read"
      BY <1>4, <1>7 DEF Runtime!OpenRelease
    <2>2. /\ dispatch' = [dispatch EXCEPT !.at = "opened", !.dir = dirs[dispatch.active].node]
          /\ dirs[dispatch.active] # None
      BY <1>7 DEF Runtime!OpenRelease
    <2>3. dispatch.active \in Releases
      BY <2>1 DEF Dispatched
    <2>4. dirs[dispatch.active] \in Dirs /\ dirs[dispatch.active].node \in Nat
      BY <1>3, <2>2, <2>3
    <2>5. /\ dispatch' \in Dispatches /\ dispatch'.at = "opened" /\ dispatch'.ino = dispatch.ino
          /\ dispatch'.active = dispatch.active /\ dispatch'.dir = dirs[dispatch.active].node
      BY <2>1, <2>2, <2>4 DEF Dispatches
    <2>6. Retained(dispatch)'
      BY <1>1, <2>3, <2>4, <2>5 DEF Retained
    <2>7. Dispatched(dispatch)'
      BY <1>1, <2>1, <2>5, <2>6 DEF Dispatched, Validated
    <2> QED
      BY <1>2, <2>5, <2>7
  <1>8. CASE Runtime!VerifyRelease
    <2>1. dispatch \in Dispatches /\ Dispatched(dispatch) /\ dispatch.at = "opened"
      BY <1>4, <1>8 DEF Runtime!VerifyRelease
    <2>2. dispatch' = [dispatch EXCEPT !.at = "verified", !.seen = dirs[dispatch.active].node]
      BY <1>8 DEF Runtime!VerifyRelease
    <2>3. Retained(dispatch) /\ dirs[dispatch.active].node \in Nat
      BY <1>3, <2>1 DEF Dispatched, Retained
    <2>4. /\ dispatch' \in Dispatches /\ dispatch'.at = "verified" /\ dispatch'.ino = dispatch.ino
          /\ dispatch'.active = dispatch.active /\ dispatch'.dir = dispatch.dir
          /\ dispatch'.seen = dirs[dispatch.active].node
      BY <2>1, <2>2, <2>3 DEF Dispatches
    <2>5. Retained(dispatch)'
      BY <1>1, <2>3, <2>4 DEF Retained
    <2>6. dispatch'.dir <= dispatch'.seen /\ dispatch'.seen <= dirs'[dispatch'.active].node
      BY <1>1, <2>3, <2>4 DEF Retained
    <2>7. Dispatched(dispatch)'
      BY <1>1, <2>1, <2>3, <2>4, <2>5, <2>6 DEF Dispatched, Validated
    <2> QED
      BY <1>2, <2>4, <2>7
  <1>9. ASSUME NEW from \in {"verified"} \union Validated, NEW to \in Validated,
               Runtime!At(from), from # "launched",
               \/ to # "launched" /\ dispatch' = [dispatch EXCEPT !.at = to]
               \/ dispatch' = [dispatch EXCEPT !.at = to,
                                               !.imports = dirs[dispatch.active].node],
               from = "verified" => Runtime!Bound
        PROVE  RuntimeInv'
    <2>1. dispatch \in Dispatches /\ Dispatched(dispatch) /\ dispatch.at = from
      BY <1>4, <1>9 DEF Validated
    <2>2. Retained(dispatch) /\ dirs[dispatch.active].node \in Nat
      BY <1>3, <2>1 DEF Dispatched, Retained
    <2>3. /\ dispatch' \in Dispatches /\ dispatch'.at = to /\ dispatch'.ino = dispatch.ino
          /\ dispatch'.active = dispatch.active /\ dispatch'.dir = dispatch.dir
          /\ dispatch'.seen = dispatch.seen
          /\ to = "launched" => dispatch'.imports = dirs[dispatch.active].node
      BY <1>9, <2>1, <2>2 DEF Dispatches
    <2>4. content[dispatch.ino] = dispatch.active /\ dispatch.seen = dispatch.dir
      <3>1. CASE from = "verified"
        <4>1. selector = [ino |-> dispatch.ino, active |-> dispatch.active]
              /\ dirs[dispatch.active].node = dispatch.dir
          BY <1>9, <3>1
          DEF Runtime!Bound, Runtime!DirectoryRetained, Runtime!SelectorUnchanged
        <4>2. selector.ino = dispatch.ino /\ selector.active = dispatch.active
          BY <4>1
        <4>3. /\ dispatch.seen \in Nat /\ dispatch.dir \in Nat
              /\ dispatch.dir <= dispatch.seen /\ dispatch.seen <= dispatch.dir
          BY <2>1, <2>2, <3>1, <4>1 DEF Dispatched, Retained
        <4> QED
          BY <1>3, <4>2, <4>3
      <3>2. CASE from \in Validated
        BY <2>1, <3>2 DEF Dispatched
      <3> QED
        BY <3>1, <3>2
    <2>5. Retained(dispatch)'
      BY <1>1, <2>2, <2>3 DEF Retained
    <2>6. to = "launched" /\ dispatch.active \notin touched => dispatch'.imports = dispatch.dir
      BY <2>2, <2>3 DEF Retained
    <2>7. Dispatched(dispatch)'
      BY <1>1, <2>1, <2>3, <2>4, <2>5, <2>6 DEF Dispatched, Validated
    <2> QED
      BY <1>2, <2>3, <2>7
  <1>10. CASE Runtime!Resolve \/ Runtime!Admit \/ Runtime!PrepareDispatch
                \/ Runtime!BindEntrypoint \/ Runtime!Launch
    BY <1>9, <1>10
    DEF Runtime!Resolve, Runtime!Admit, Runtime!PrepareDispatch, Runtime!BindEntrypoint,
        Runtime!Launch, Runtime!Goto, Validated
  <1>11. CASE Runtime!EndDispatch
    BY <1>2, <1>11 DEF Runtime!EndDispatch
  <1> QED
    BY <1>5, <1>6, <1>7, <1>8, <1>10, <1>11 DEF Runtime!Dispatch

\* Files created since leave a dispatched command's files as they were, and a
\* directory put at a release's path is later than every one before it, unless it is the
\* one that was there.
LEMMA DispatchedStays ==
  ASSUME RuntimeInv, dispatch' = dispatch,
         nodes' \in Nat, nodes <= nodes',
         \A i \in 0..nodes : content'[i] = content[i],
         touched \subseteq touched',
         dirs' = dirs \/ \E r \in Releases, dir \in Dirs :
                            /\ dirs' = [dirs EXCEPT ![r] = dir]
                            /\ \/ dirs[r] = None
                               \/ r \in touched' /\ dirs[r].node <= dir.node
  PROVE  dispatch # Runtime!Idle => Dispatched(dispatch)'
  <1> SUFFICES ASSUME dispatch # Runtime!Idle PROVE Dispatched(dispatch)'
    OBVIOUS
  <1>1. dispatch \in Dispatches /\ Dispatched(dispatch)
    BY DEF RuntimeInv, RuntimeShapes
  <1>2. /\ nodes \in Nat /\ dirs \in [Releases -> Dirs \union {None}] /\ None \notin Dirs
        /\ \A dir \in Dirs : dir.node \in Nat
    BY SupportAssumption DEF RuntimeInv, RuntimeShapes, Dirs, Runtime!Trees
  <1>3. dispatch.ino \in 0..nodes
    BY <1>1, <1>2, SupportAssumption DEF Dispatched, Dispatches
  <1>4. dispatch.ino <= nodes' /\ content'[dispatch.ino] = content[dispatch.ino]
    BY <1>2, <1>3
  <1>5. ASSUME Retained(dispatch)
        PROVE  /\ dirs'[dispatch.active] \in Dirs
               /\ dirs[dispatch.active].node <= dirs'[dispatch.active].node
               /\ dispatch.active \notin touched' => dirs'[dispatch.active] = dirs[dispatch.active]
    <2>1. dirs[dispatch.active] \in Dirs /\ dirs[dispatch.active].node \in Nat
          /\ dispatch.active \in Releases
      BY <1>2, <1>5 DEF Retained
    <2>2. CASE dirs' = dirs
      BY <2>1, <2>2
    <2>3. CASE \E r \in Releases, dir \in Dirs :
                  /\ dirs' = [dirs EXCEPT ![r] = dir]
                  /\ dirs[r] = None \/ (r \in touched' /\ dirs[r].node <= dir.node)
      <3>1. PICK r \in Releases, dir \in Dirs :
                /\ dirs' = [dirs EXCEPT ![r] = dir]
                /\ dirs[r] = None \/ (r \in touched' /\ dirs[r].node <= dir.node)
        BY <2>3
      <3>2. dirs'[dispatch.active] = IF dispatch.active = r THEN dir ELSE dirs[dispatch.active]
        BY <1>2, <2>1, <3>1
      <3>3. CASE dispatch.active = r
        BY <1>2, <2>1, <3>1, <3>2, <3>3
      <3>4. CASE dispatch.active # r
        BY <2>1, <3>2, <3>4
      <3> QED
        BY <3>3, <3>4
    <2> QED
      BY <2>2, <2>3
  <1>6. ASSUME Retained(dispatch)
        PROVE  Retained(dispatch)'
    <2>1. dispatch.dir \in Nat /\ dirs[dispatch.active].node \in Nat
          /\ dirs'[dispatch.active].node \in Nat
      BY <1>2, <1>5, <1>6 DEF Retained
    <2>2. dispatch.dir <= dirs'[dispatch.active].node
      BY <1>5, <1>6, <2>1 DEF Retained
    <2> QED
      BY <1>5, <1>6, <2>2 DEF Retained
  <1>7. ASSUME dispatch.at = "verified"
        PROVE  dispatch.seen <= dirs'[dispatch.active].node
    <2>1. Retained(dispatch) /\ dispatch.seen \in Nat
          /\ dispatch.seen <= dirs[dispatch.active].node
      BY <1>1, <1>7 DEF Dispatched
    <2>2. dirs[dispatch.active].node \in Nat /\ dirs'[dispatch.active].node \in Nat
      BY <1>2, <1>5, <2>1 DEF Retained
    <2> QED
      BY <1>5, <2>1, <2>2
  <1> QED
    BY <1>1, <1>4, <1>6, <1>7 DEF Dispatched

\* Staging touches no selector, and puts whole directories at free paths only.
LEMMA StageStep ==
  ASSUME RuntimeInv,
         \/ \E r \in Releases : Runtime!ReplaceDir(r) \/ Runtime!AlterDir(r)
         \/ \E s \in Stagers :
               \/ \E r \in Releases : Runtime!StartStage(s, r)
               \/ Runtime!VerifyStage(s) \/ Runtime!PublishStage(s),
         \A s \in Stagers : stage[s].at = "verified" =>
            stage[s].release \in Releases /\ stage[s].tree = "whole"
  PROVE  RuntimeInv'
  <1>1. UNCHANGED <<selector, durable, content, publisher, last, reverted, dispatch>>
    BY DEF Runtime!ReplaceDir, Runtime!AlterDir, Runtime!StartStage,
           Runtime!VerifyStage, Runtime!PublishStage, Runtime!selection
  <1>2. /\ RuntimeShapes /\ nodes \in Nat /\ None \notin Dirs
        /\ \A dir \in Dirs : dir.node \in Nat
    BY SupportAssumption DEF RuntimeInv, RuntimeShapes, Dirs, Runtime!Trees
  <1>3. CASE UNCHANGED <<dirs, touched, nodes>>
    <2>1. dispatch # Runtime!Idle => Dispatched(dispatch)'
      BY <1>1, <1>2, <1>3, DispatchedStays
    <2> QED
      BY <1>1, <1>3, <2>1
      DEF RuntimeInv, RuntimeShapes, Staged, Written, Reported, Runtime!FailedStaysInvisible,
          Runtime!CommittedStays
  <1>4. ASSUME NEW r \in Releases, NEW ino \in Nat, NEW tree \in Runtime!Trees,
               Runtime!Put(r, ino, tree),
               nodes' \in 0..MaxNodes, nodes <= nodes', ino <= nodes',
               touched \subseteq touched',
               r \notin touched' => tree = "whole",
               dirs[r] = None \/ (r \in touched' /\ dirs[r].node <= ino)
        PROVE  RuntimeInv'
    <2> DEFINE dir == [node |-> ino, tree |-> tree]
    <2>1. dir \in Dirs /\ dir.node = ino /\ dir.tree = tree
      BY <1>4 DEF Dirs
    <2>2. dirs' = [dirs EXCEPT ![r] = dir]
      BY <1>4 DEF Runtime!Put
    <2> HIDE DEF dir
    <2>3. nodes' \in Nat
      BY <1>4, SupportAssumption
    <2>4. /\ dirs' \in [Releases -> Dirs \union {None}] /\ dirs'[r] = dir
          /\ \A q \in Releases : q # r => dirs'[q] = dirs[q]
      BY <1>2, <2>1, <2>2 DEF RuntimeShapes
    <2>5. ASSUME NEW q \in Releases, dirs'[q] \in Dirs
          PROVE  dirs'[q].node <= nodes' /\ (q \notin touched' => dirs'[q].tree = "whole")
      <3>1. CASE q = r
        BY <1>4, <2>1, <2>4, <3>1
      <3>2. CASE q # r
        <4>1. dirs'[q] = dirs[q] /\ dirs[q].node \in Nat
          BY <1>2, <2>4, <2>5, <3>2
        <4>2. dirs[q].node <= nodes /\ (q \notin touched => dirs[q].tree = "whole")
          BY <2>5, <4>1 DEF RuntimeInv, Staged
        <4> QED
          BY <1>2, <1>4, <2>3, <4>1, <4>2
      <3> QED
        BY <3>1, <3>2
    <2>6. dispatch # Runtime!Idle => Dispatched(dispatch)'
      BY <1>1, <1>4, <2>1, <2>2, <2>3, DispatchedStays
    <2>7. Written'
      <3>1. /\ selector.ino \in Nat /\ durable.ino \in Nat
            /\ publisher # Runtime!Idle => publisher.ino \in Nat
        BY <1>2, SupportAssumption DEF RuntimeShapes, Selectors, Publishers
      <3> QED
        BY <1>1, <1>2, <1>4, <2>3, <3>1 DEF RuntimeInv, Written
    <2>8. Reported'
      BY <1>1 DEF RuntimeInv, Reported, Runtime!FailedStaysInvisible, Runtime!CommittedStays
    <2>9. RuntimeShapes' /\ Staged'
      BY <1>1, <1>2, <1>4, <2>4, <2>5 DEF RuntimeShapes, Staged
    <2> QED
      BY <1>1, <2>6, <2>7, <2>8, <2>9 DEF RuntimeInv
  <1>5. Runtime!Fresh => /\ nodes + 1 \in Nat /\ nodes' = nodes + 1 /\ nodes' \in 0..MaxNodes
                         /\ nodes <= nodes' /\ nodes + 1 <= nodes'
    BY <1>2, SupportAssumption DEF Runtime!Fresh
  <1>6. ASSUME NEW r \in Releases, dirs[r] # None
        PROVE  dirs[r] \in Dirs /\ dirs[r].node \in Nat /\ dirs[r].node <= nodes
               /\ dirs[r].node <= nodes + 1
    <2>1. dirs[r] \in Dirs /\ dirs[r].node \in Nat
      BY <1>2, <1>6 DEF RuntimeShapes
    <2>2. dirs[r].node <= nodes
      BY <2>1 DEF RuntimeInv, Staged
    <2> QED
      BY <1>2, <2>1, <2>2
  <1>7. ASSUME NEW r \in Releases, Runtime!ReplaceDir(r)
        PROVE  RuntimeInv'
    <2>1. /\ dirs[r] # None /\ Runtime!Fresh /\ r \in touched' /\ touched \subseteq touched'
          /\ \E tree \in Runtime!Trees : Runtime!Put(r, nodes + 1, tree)
      BY <1>7 DEF Runtime!ReplaceDir
    <2> QED
      BY <1>4, <1>5, <1>6, <2>1
  <1>8. ASSUME NEW r \in Releases, Runtime!AlterDir(r)
        PROVE  RuntimeInv'
    <2>1. /\ dirs[r] # None /\ nodes' = nodes /\ r \in touched' /\ touched \subseteq touched'
          /\ \E tree \in Runtime!Trees : Runtime!Put(r, dirs[r].node, tree)
      BY <1>8 DEF Runtime!AlterDir
    <2>2. nodes \in 0..MaxNodes /\ nodes <= nodes
      BY <1>2 DEF RuntimeShapes
    <2>3. dirs[r].node <= dirs[r].node
      BY <1>6, <2>1
    <2> QED
      BY <1>4, <1>6, <2>1, <2>2, <2>3
  <1>9. CASE \E s \in Stagers :
                (\E r \in Releases : Runtime!StartStage(s, r))
                  \/ Runtime!VerifyStage(s)
    BY <1>3, <1>9 DEF Runtime!StartStage, Runtime!VerifyStage
  <1>10. ASSUME NEW s \in Stagers, Runtime!PublishStage(s)
         PROVE  RuntimeInv'
    <2>1. /\ stage[s].release \in Releases /\ stage[s].tree = "whole" /\ touched' = touched
          /\ \/ /\ dirs[stage[s].release] = None /\ Runtime!Fresh
                /\ Runtime!Put(stage[s].release, nodes + 1, stage[s].tree)
             \/ UNCHANGED <<dirs, nodes>>
      BY <1>10 DEF Runtime!PublishStage, Runtime!Absent
    <2>2. stage[s].tree \in Runtime!Trees
      BY <2>1 DEF Runtime!Trees
    <2> QED
      BY <1>3, <1>4, <1>5, <2>1, <2>2
  <1> QED
    BY <1>7, <1>8, <1>9, <1>10

\* A tree that was verified is the release.
Stagings ==
    {s \in [at : {"copied", "verified"}, release : Releases, tree : Runtime!Trees] :
        s.at = "verified" => s.tree = "whole"}
StageShapes == stage \in [Stagers -> Stagings \union {Runtime!Idle}]

\* Whatever happens around them, stagers copy and verify releases.
LEMMA StepStages ==
  ASSUME StageShapes, [Runtime!Next]_(Runtime!vars)
  PROVE  StageShapes'
  <1>1. CASE stage' = stage \/ Runtime!PowerFails
    BY <1>1 DEF StageShapes, Runtime!PowerFails
  <1>2. ASSUME NEW s \in Stagers, NEW state \in Stagings \union {Runtime!Idle},
               stage' = [stage EXCEPT ![s] = state]
        PROVE  StageShapes'
    BY <1>2 DEF StageShapes
  <1>3. ASSUME NEW s \in Stagers, NEW point, stage[s].at = point, point # "idle"
        PROVE  stage[s] \in Stagings
    BY <1>3 DEF StageShapes, Runtime!Idle
  <1>4. ASSUME NEW s \in Stagers, NEW r \in Releases, Runtime!StartStage(s, r)
        PROVE  StageShapes'
    BY <1>2, <1>4 DEF Runtime!StartStage, Stagings, Runtime!Trees
  <1>5. ASSUME NEW s \in Stagers, Runtime!VerifyStage(s)
        PROVE  StageShapes'
    <2>1. stage[s] \in Stagings
      BY <1>3, <1>5 DEF Runtime!VerifyStage
    <2>2. Runtime!Trusted(s) => [stage[s] EXCEPT !.at = "verified"] \in Stagings
      BY <2>1 DEF Stagings, Runtime!Trusted
    <2>3. PICK state \in Stagings \union {Runtime!Idle} : stage' = [stage EXCEPT ![s] = state]
      BY <1>5, <2>2 DEF Runtime!VerifyStage
    <2> QED
      BY <1>2, <2>3
  <1>6. ASSUME NEW s \in Stagers, Runtime!PublishStage(s)
        PROVE  StageShapes'
    BY <1>2, <1>6 DEF Runtime!PublishStage
  <1> QED
    BY <1>1, <1>4, <1>5, <1>6
    DEF Runtime!Next, Runtime!vars, Runtime!Rename, Runtime!SyncParent, Runtime!PublishFails,
        Runtime!PublisherDies, Runtime!Reconcile, Runtime!StartPublish, Runtime!ReplaceDir,
        Runtime!AlterDir, Runtime!Dispatch, Runtime!CaptureSelector, Runtime!ReadSelector,
        Runtime!OpenRelease, Runtime!VerifyRelease, Runtime!Resolve, Runtime!Admit,
        Runtime!PrepareDispatch, Runtime!BindEntrypoint, Runtime!Launch,
        Runtime!EndDispatch, Runtime!Quiet

\* The publication: a temporary is written, renamed and made durable, or fails.
LEMMA PublishStep ==
  ASSUME RuntimeInv,
         Runtime!Rename \/ Runtime!SyncParent \/ Runtime!PublishFails
           \/ Runtime!PublisherDies \/ \E r \in Releases : Runtime!StartPublish(r)
  PROVE  RuntimeInv'
  <1>1. RuntimeShapes /\ Written /\ Reported /\ nodes \in Nat
    BY SupportAssumption DEF RuntimeInv, RuntimeShapes
  <1>2. UNCHANGED <<reverted, dirs, touched, dispatch>>
    BY DEF Runtime!Rename, Runtime!SyncParent, Runtime!PublishFails, Runtime!PublisherDies,
           Runtime!StartPublish
  <1>3. ASSUME UNCHANGED <<content, nodes>>, RuntimeShapes', Written', Reported'
        PROVE  RuntimeInv'
    <2>1. dispatch # Runtime!Idle => Dispatched(dispatch)'
      BY <1>1, <1>2, <1>3, DispatchedStays
    <2> QED
      BY <1>2, <1>3, <2>1 DEF RuntimeInv, Staged
  <1>4. ASSUME publisher # Runtime!Idle
        PROVE  /\ publisher \in Publishers /\ last \in Reports
               /\ last.out = "unknown" /\ last.release = publisher.release
    BY <1>1, <1>4 DEF RuntimeShapes, Reported
  <1>5. CASE Runtime!Rename
    <2>1. publisher # Runtime!Idle /\ publisher.at = "written"
      BY <1>5, BusyNotIdle DEF Runtime!Rename
    <2>2. /\ selector' = [ino |-> publisher.ino, active |-> publisher.release]
          /\ publisher' = [publisher EXCEPT !.at = "renamed"]
          /\ UNCHANGED <<durable, content, last, nodes>>
      BY <1>5 DEF Runtime!Rename
    <2>3. /\ publisher' \in Publishers /\ publisher'.at = "renamed"
          /\ publisher'.release = publisher.release /\ publisher'.ino = publisher.ino
      BY <1>4, <2>1, <2>2 DEF Publishers
    <2>4. /\ selector' \in Selectors /\ selector'.ino = publisher.ino
          /\ selector'.active = publisher.release
      BY <1>4, <2>1, <2>2 DEF Publishers, Selectors
    <2>5. RuntimeShapes'
      BY <1>1, <1>2, <2>2, <2>3, <2>4 DEF RuntimeShapes
    <2>6. Written'
      BY <1>1, <2>1, <2>2, <2>3, <2>4 DEF Written
    <2>7. Reported'
      BY <1>1, <1>2, <1>4, <2>1, <2>2, <2>3, <2>4 DEF Reported, Runtime!FailedStaysInvisible, Runtime!CommittedStays
    <2> QED
      BY <1>3, <2>2, <2>5, <2>6, <2>7
  <1>6. ASSUME publisher # Runtime!Idle, publisher' = Runtime!Idle,
               UNCHANGED <<selector, content, nodes>>, durable' \in {durable, selector},
               NEW out \in {"unknown", "published", "ambiguous", "failed"},
               last' = [last EXCEPT !.out = out],
               out = "published" => durable' = selector /\ publisher.at = "renamed",
               out = "failed" => publisher.at = "written"
        PROVE  RuntimeInv'
    <2>1. /\ last' \in Reports /\ last'.out = out /\ last'.release = last.release
          /\ last'.before = last.before
      BY <1>4, <1>6 DEF Reports
    <2>2. RuntimeShapes'
      BY <1>1, <1>2, <1>6, <2>1 DEF RuntimeShapes
    <2>3. Written'
      BY <1>1, <1>6 DEF Written
    <2>4. Reported'
      BY <1>1, <1>2, <1>4, <1>6, <2>1 DEF Reported, Runtime!FailedStaysInvisible, Runtime!CommittedStays
    <2> QED
      BY <1>3, <1>6, <2>2, <2>3, <2>4
  <1>7. CASE Runtime!SyncParent
    <2>1. publisher # Runtime!Idle
      BY <1>7, BusyNotIdle DEF Runtime!SyncParent
    <2> QED
      BY <1>6, <1>7, <2>1 DEF Runtime!SyncParent, Runtime!Synchronised
  <1>8. CASE Runtime!PublishFails
    <2>1. publisher # Runtime!Idle
      BY <1>8 DEF Runtime!PublishFails
    <2>2. publisher.at \in {"written", "renamed"}
      BY <1>4, <2>1 DEF Publishers
    <2> QED
      BY <1>6, <1>8, <2>1, <2>2 DEF Runtime!PublishFails
  <1>9. CASE Runtime!PublisherDies
    <2>1. publisher # Runtime!Idle /\ last' = last
      BY <1>9 DEF Runtime!PublisherDies
    <2>2. last' = [last EXCEPT !.out = "unknown"]
      BY <1>4, <2>1 DEF Reports
    <2> QED
      BY <1>6, <1>9, <2>1, <2>2 DEF Runtime!PublisherDies
  <1>10. ASSUME NEW r \in Releases, Runtime!StartPublish(r)
         PROVE  RuntimeInv'
    <2>1. nodes' = nodes + 1 /\ nodes' \in 0..MaxNodes /\ nodes' \in Nat
      BY <1>1, <1>10, SupportAssumption DEF Runtime!StartPublish, Runtime!Fresh
    <2>2. /\ content' = [content EXCEPT ![nodes'] = r]
          /\ publisher' = [at |-> "written", release |-> r, ino |-> nodes']
          /\ last' = [out |-> "unknown", release |-> r, before |-> selector.active]
          /\ UNCHANGED <<selector, durable>>
      BY <1>10, <2>1 DEF Runtime!StartPublish
    <2>3. /\ content' \in [0..MaxNodes -> Releases \union {None}]
          /\ content'[nodes'] = r
          /\ \A i \in 0..nodes : content'[i] = content[i]
      BY <1>1, <2>1, <2>2, SupportAssumption DEF RuntimeShapes
    <2>4. /\ publisher' \in Publishers /\ publisher'.at = "written"
          /\ publisher'.release = r /\ publisher'.ino = nodes'
      BY <2>1, <2>2 DEF Publishers
    <2>5. /\ last' \in Reports /\ last'.out = "unknown" /\ last'.release = r
          /\ last'.before = selector.active
      BY <1>1, <2>2 DEF Reports, RuntimeShapes, Selectors
    <2>6. RuntimeShapes'
      BY <1>1, <1>2, <2>1, <2>2, <2>3, <2>4, <2>5 DEF RuntimeShapes
    <2>7. Written'
      <3>1. selector.ino \in 0..nodes /\ durable.ino \in 0..nodes
        BY <1>1, SupportAssumption DEF RuntimeShapes, Selectors, Written
      <3>2. selector.ino <= nodes' /\ durable.ino <= nodes' /\ nodes' <= nodes'
        BY <1>1, <2>1, <3>1
      <3> QED
        BY <1>1, <2>2, <2>3, <2>4, <3>1, <3>2 DEF Written
    <2>8. Reported'
      BY <2>2, <2>4, <2>5 DEF Reported, Runtime!FailedStaysInvisible, Runtime!CommittedStays
    <2>9. nodes <= nodes'
      BY <1>1, <2>1
    <2>10. dispatch # Runtime!Idle => Dispatched(dispatch)'
      BY <1>2, <2>1, <2>3, <2>9, DispatchedStays
    <2>11. ASSUME NEW q \in Releases, dirs'[q] \in Dirs
           PROVE  dirs'[q].node <= nodes' /\ (q \notin touched' => dirs'[q].tree = "whole")
      <3>1. /\ dirs[q].node \in Nat /\ dirs[q].node <= nodes
            /\ q \notin touched => dirs[q].tree = "whole"
        BY <1>2, <2>11 DEF RuntimeInv, Staged, Dirs
      <3> QED
        BY <1>1, <1>2, <2>1, <3>1
    <2> QED
      BY <1>2, <2>6, <2>7, <2>8, <2>10, <2>11 DEF RuntimeInv, Staged
  <1> QED
    BY <1>5, <1>7, <1>8, <1>9, <1>10

\* Reconciliation accepts what it finds; a power failure brings back the durable
\* selector or leaves the one at the path.
LEMMA SettleStep ==
  ASSUME RuntimeInv, Runtime!Reconcile \/ Runtime!PowerFails
  PROVE  RuntimeInv'
  <1>1. RuntimeShapes /\ Written /\ Reported /\ nodes \in Nat
    BY SupportAssumption DEF RuntimeInv, RuntimeShapes
  <1>2. UNCHANGED <<content, dirs, touched, nodes>>
    BY DEF Runtime!Reconcile, Runtime!PowerFails
  <1>3. publisher' = Runtime!Idle
    BY DEF Runtime!Reconcile, Runtime!LockFree, Runtime!PowerFails
  <1>4. CASE Runtime!Reconcile
    <2>1. /\ UNCHANGED <<selector, reverted, dispatch>>
          /\ durable' \in {durable, selector}
          /\ last.out \in {"unknown", "ambiguous"}
          /\ last' = [last EXCEPT !.out = Runtime!Verdict]
      BY <1>4 DEF Runtime!Reconcile, Runtime!Cleanup
    <2>2. last \in Reports
      BY <1>1, <2>1 DEF RuntimeShapes
    <2>3. /\ Runtime!Verdict \in {"committed", "not-committed", "unknown", "ambiguous"}
          /\ Runtime!Verdict = "not-committed" => selector.active = last.before
          /\ Runtime!Verdict = "committed" => selector.active = last.release
      BY <2>1 DEF Runtime!Verdict
    <2>4. /\ last' \in Reports /\ last'.out = Runtime!Verdict /\ last'.release = last.release
          /\ last'.before = last.before
      BY <2>1, <2>2, <2>3 DEF Reports
    <2>5. RuntimeShapes'
      BY <1>1, <1>2, <1>3, <2>1, <2>4 DEF RuntimeShapes
    <2>6. Written'
      BY <1>1, <1>2, <1>3, <2>1 DEF Written
    <2>7. Reported'
      BY <1>3, <2>1, <2>3, <2>4 DEF Reported, Runtime!FailedStaysInvisible, Runtime!CommittedStays
    <2>8. dispatch # Runtime!Idle => Dispatched(dispatch)'
      BY <1>1, <1>2, <2>1, DispatchedStays
    <2> QED
      BY <1>2, <2>1, <2>5, <2>6, <2>7, <2>8 DEF RuntimeInv, Staged
  <1>5. CASE Runtime!PowerFails
    <2>1. /\ selector' \in {selector, durable} /\ durable' = selector' /\ last' = last
          /\ reverted' = (reverted \/ selector' # selector) /\ dispatch' = Runtime!Idle
      BY <1>5 DEF Runtime!PowerFails
    <2>2. reverted' \in BOOLEAN /\ (reverted => reverted')
          /\ (~ reverted' => selector' = selector)
      BY <1>1, <2>1 DEF RuntimeShapes
    <2>3. RuntimeShapes'
      BY <1>1, <1>2, <1>3, <2>1, <2>2 DEF RuntimeShapes
    <2>4. Written'
      BY <1>1, <1>2, <1>3, <2>1 DEF Written
    <2>5. Reported'
      BY <1>1, <1>3, <2>1, <2>2 DEF Reported, Runtime!FailedStaysInvisible, Runtime!CommittedStays
    <2> QED
      BY <1>2, <2>1, <2>3, <2>4, <2>5 DEF RuntimeInv, Staged
  <1> QED
    BY <1>4, <1>5

\* Every step of publishers, stagers and commands keeps the invariant.
LEMMA StepRuntime ==
  ASSUME RuntimeInv, StageShapes, [Runtime!Next]_(Runtime!vars)
  PROVE  RuntimeInv'
  <1>1. \A s \in Stagers : stage[s].at = "verified" =>
           stage[s].release \in Releases /\ stage[s].tree = "whole"
    BY DEF StageShapes, Stagings, Runtime!Idle
  <1>2. CASE UNCHANGED Runtime!vars
    BY <1>2
    DEF Runtime!vars, Runtime!selection, RuntimeInv, RuntimeShapes, Written, Reported,
        Runtime!FailedStaysInvisible, Runtime!CommittedStays, Staged, Dispatched, Retained
  <1> QED
    BY <1>1, <1>2, PublishStep, SettleStep, StageStep, DispatchStep DEF Runtime!Next

\* Selector files, reports and commands agree in every reachable state.
THEOREM RuntimeInvariance == Runtime!Spec => [](RuntimeInv /\ StageShapes)
  <1>1. Runtime!Init => RuntimeInv /\ StageShapes
    BY InitRuntime DEF Runtime!Init, StageShapes
  <1>2. RuntimeInv /\ StageShapes /\ [Runtime!Next]_(Runtime!vars) => RuntimeInv' /\ StageShapes'
    BY StepRuntime, StepStages
  <1> QED
    BY <1>1, <1>2, PTL DEF Runtime!Spec

\* A publication that reported success survives power failures; one that failed stays
\* invisible, and one reconciled as committed stays selected, unless a power failure undid
\* a rename.  A launched command's release is the one selector file's, its entrypoint comes
\* from a directory whose own manifest was verified, and the rest is whole unless the
\* release was changed outside the protocol: for any number of releases, stagers, files
\* and power failures (commit_runtime_selector, resolve_selected_runtime_bound).
THEOREM RuntimeSafety == Runtime!Spec => []RuntimeSound
  <1>1. RuntimeInv => RuntimeSound
    <2> SUFFICES ASSUME RuntimeInv PROVE RuntimeSound
      OBVIOUS
    <2>1. Runtime!SelectorSound
      BY DEF RuntimeInv, Reported, Runtime!SelectorSound, Runtime!PublishedSurvives
    <2>2. ASSUME dispatch # Runtime!Idle, dispatch.at = "launched"
          PROVE  /\ content[dispatch.ino] = dispatch.active
                 /\ dispatch.seen = dispatch.dir
                 /\ dispatch.active \notin touched =>
                       dispatch.imports = dispatch.dir
                       /\ dirs[dispatch.active] = [node |-> dispatch.dir, tree |-> "whole"]
      <3>1. Dispatched(dispatch) /\ Retained(dispatch)
        BY <2>2 DEF RuntimeInv, Dispatched, Validated
      <3>2. ASSUME dispatch.active \notin touched
            PROVE  dirs[dispatch.active] = [node |-> dispatch.dir, tree |-> "whole"]
        <4>1. /\ dirs[dispatch.active] \in Dirs /\ dirs[dispatch.active].node = dispatch.dir
              /\ dirs[dispatch.active].tree = "whole"
          BY <3>1, <3>2 DEF Retained, RuntimeInv, Staged
        <4> QED
          BY <4>1 DEF Dirs
      <3> QED
        BY <2>2, <3>1, <3>2 DEF Dispatched, Validated
    <2>3. Runtime!LaunchConsistent
      BY <2>2 DEF Runtime!LaunchConsistent, Runtime!At
    <2> QED
      BY <2>1, <2>3 DEF RuntimeSound, Runtime!RuntimeSound
  <1> QED
    BY <1>1, RuntimeInvariance, PTL
=============================================================================
