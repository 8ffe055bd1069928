----------------------------- MODULE LockDomain -----------------------------
(***************************************************************************)
(* The lock domain of a provisioned SQLite deployment: writers that pass   *)
(* the mutation fence, scopes bound to a held barrier session, and the     *)
(* recovery adapter that creates or replaces sessions, all taking          *)
(* common -> control -> authority (tools/mutation_fence.py,                *)
(* tools/lock_domain_scope.py, tools/lock_domain.py).                      *)
(*                                                                         *)
(* A lock belongs to the inode a process opened, not to the path: while a  *)
(* process waits, the file may be replaced under it.  The fence marker and *)
(* the control binding name inode 0 of the control and authority locks.    *)
(* The upgrade's own effect on the authority is not taken here.            *)
(***************************************************************************)
EXTENDS Naturals, Sequences

CONSTANTS
    Procs,
    MaxAttempt,   \* bound on barrier attempts
    MaxRev,       \* bound on the revision of a session
    MaxWrites,    \* bound on board writes
    MaxReplace    \* bound on replacements of each lock file

Locks == {"common", "control", "authority"}

VARIABLES
    node,         \* the inode at each lock's path
    session,      \* the durable barrier session, `at` its authority revision
    authority,    \* revision of the authority's contents
    proc          \* each process: locks opened and held, and what it is bound to

vars == <<node, session, authority, proc>>

\* LOCK_ORDER
Order_PerActor(op) ==
    IF op = "write" THEN <<"common", "control", "authority">>
                    ELSE <<"common", "authority", "control">>
Order(op) == <<"common", "control", "authority">>

Idle == [op |-> "none", n |-> 0, fd |-> <<>>, attempt |-> 0, rev |-> 0,
         node |-> 0, seen |-> 0]

Init ==
    /\ node = [l \in Locks |-> 0]
    /\ session \in [attempt : {1}, status : {"released", "held", "ambiguous"}, rev : {1}, at : {0}]
    /\ authority = 0
    /\ proc = [p \in Procs |-> Idle]

ScopeOps == {"read", "bind_child", "begin_reopen", "complete_reopen", "mark_ambiguous"}

\* A scope stays bound between two of its operations.
Writer(p) == proc[p].op = "write"
Scoped(p) == proc[p].op \in ScopeOps \cup {"bound"}
Entering(p) == proc[p].op \in ScopeOps \cup {"write", "create", "reconcile"}

Holds(p, l, inode) ==
    \E i \in 1..proc[p].n : Order(proc[p].op)[i] = l /\ proc[p].fd[i] = inode
Free(l, inode) == \A p \in Procs : ~ Holds(p, l, inode)

\* process p has opened its next lock and waits for it
Waiting(p) == Entering(p) /\ Len(proc[p].fd) = proc[p].n + 1
Inside(p) == Entering(p) /\ proc[p].n = 3
NextLock(p) == Order(proc[p].op)[proc[p].n + 1]

\* leaving a scope releases its locks; only a LockDomainScope remains usable
Released(p) ==
    IF Scoped(p) THEN [proc[p] EXCEPT !.op = "bound", !.n = 0, !.fd = <<>>] ELSE Idle
Leave(p) == proc' = [proc EXCEPT ![p] = Released(p)]

-----------------------------------------------------------------------------
(* What the processes check.                                                 *)

\* MutationFence._verify: marker and control binding still name the files
Bound_Trusting == TRUE
Bound == node["control"] = 0 /\ node["authority"] = 0

\* CoordinatorLockGuard.assert_owned: the held descriptor is the path's file
Owned(p) == proc[p].fd[1] = node["common"]

\* LockDomainIdentity.assert_current
Current(p) == Owned(p) /\ Bound /\ proc[p].node = node["common"]

Allowed(op) ==
    CASE op = "complete_reopen" -> {"releasing"}
      [] op = "mark_ambiguous"  -> {"held", "releasing"}
      [] OTHER                  -> {"held"}

\* _recheck_session
Recheck(p) ==
    /\ session.status \in Allowed(proc[p].op)
    /\ session.attempt = proc[p].attempt /\ session.rev = proc[p].rev
    /\ session.at = authority

\* _read_barrier_status, and the status mutation_scope admits
Admits_Status(p) == session.status = "released"
Admits(p) == session.status = "released" /\ session.attempt = proc[p].attempt

\* reconcile_ambiguous, under the control lock
Ambiguous(p) ==
    session.status = "ambiguous" /\ session.attempt = proc[p].attempt /\ session.rev = proc[p].rev

\* what is verified before a lock file is opened
MayOpen(p) ==
    /\ NextLock(p) = "control" =>
          IF Writer(p) THEN Bound ELSE Owned(p) /\ node["control"] = 0
    /\ NextLock(p) = "authority" => Bound

\* what is verified once it is locked
ProvenCommon(p) ==
    /\ Scoped(p) => Current(p)
    /\ proc[p].op \in {"create", "reconcile"} => Owned(p) /\ Bound

ProvenControl(p) ==
    /\ IF Writer(p) THEN Bound ELSE Owned(p)
    /\ Scoped(p) => Recheck(p)
    /\ proc[p].op = "reconcile" => Ambiguous(p)

ProvenAuthority(p) ==
    /\ IF Writer(p) THEN Bound /\ Admits(p) ELSE Current(p)
    /\ Scoped(p) => Recheck(p)

Proven(p) ==
    /\ NextLock(p) = "common" => ProvenCommon(p)
    /\ NextLock(p) = "control" => ProvenControl(p)
    /\ NextLock(p) = "authority" => ProvenAuthority(p)

-----------------------------------------------------------------------------
(* Binding.  None of the locks is kept.                                      *)

\* operation_lock, for one reading of the session
Readable == \A l \in {"common", "control"} : Free(l, node[l])

\* mutating_sqlite_backend: the command is bound to the session it finds
BindWriter(p) ==
    /\ proc[p] = Idle /\ Readable
    /\ proc' = [proc EXCEPT ![p] = [Idle EXCEPT !.op = "write", !.attempt = session.attempt]]
    /\ UNCHANGED <<node, session, authority>>

\* LockDomainScope.bind
BindScope(p) ==
    /\ proc[p] = Idle /\ Readable
    /\ Bound /\ session.status = "held"
    /\ proc' = [proc EXCEPT ![p] = [Idle EXCEPT !.op = "bound", !.attempt = session.attempt,
                                       !.rev = session.rev, !.node = node["common"]]]
    /\ UNCHANGED <<node, session, authority>>

\* an identity is made for a new attempt; the authority is read without a lock
Prepare(p, op) ==
    /\ proc[p] = Idle
    /\ proc' = [proc EXCEPT ![p] = [Idle EXCEPT !.op = op, !.attempt = session.attempt,
                                       !.rev = session.rev, !.seen = authority]]
    /\ UNCHANGED <<node, session, authority>>

Enter(p, op) ==
    /\ proc[p].op = "bound"
    /\ proc' = [proc EXCEPT ![p].op = op]
    /\ UNCHANGED <<node, session, authority>>

-----------------------------------------------------------------------------
(* Taking the locks.                                                         *)

Open(p) ==
    /\ Entering(p) /\ ~ Waiting(p) /\ ~ Inside(p)
    /\ MayOpen(p)
    /\ proc' = [proc EXCEPT ![p].fd = Append(@, node[NextLock(p)])]
    /\ UNCHANGED <<node, session, authority>>

\* The recovery adapter captures the domain under the common lock.
Captured(p) ==
    IF proc[p].op \in {"create", "reconcile"} /\ NextLock(p) = "common"
    THEN node["common"] ELSE proc[p].node

Lock(p) ==
    /\ Waiting(p)
    /\ Free(NextLock(p), proc[p].fd[proc[p].n + 1])
    /\ Proven(p)
    /\ proc' = [proc EXCEPT ![p].n = @ + 1, ![p].node = Captured(p)]
    /\ UNCHANGED <<node, session, authority>>

Refuse(p) ==
    /\ Entering(p) /\ ~ Inside(p)
    /\ \/ ~ Waiting(p) /\ ~ MayOpen(p)
       \/ /\ Waiting(p) /\ Free(NextLock(p), proc[p].fd[proc[p].n + 1])
          /\ ~ Proven(p)
    /\ Leave(p)
    /\ UNCHANGED <<node, session, authority>>

\* LOCK_TIMEOUT_SECONDS
Timeout(p) ==
    /\ Waiting(p)
    /\ ~ Free(NextLock(p), proc[p].fd[proc[p].n + 1])
    /\ Leave(p)
    /\ UNCHANGED <<node, session, authority>>

Crash(p) ==
    /\ proc[p] # Idle
    /\ proc' = [proc EXCEPT ![p] = Idle]
    /\ UNCHANGED <<node, session, authority>>

\* a file is unlinked and created anew by something outside the protocol
Replace(l) ==
    /\ node[l] < MaxReplace
    /\ node' = [node EXCEPT ![l] = @ + 1]
    /\ UNCHANGED <<session, authority, proc>>

-----------------------------------------------------------------------------
(* What is done inside.                                                      *)

Write(p) ==
    /\ Inside(p) /\ Writer(p)
    /\ authority < MaxWrites
    /\ authority' = authority + 1
    /\ Leave(p)
    /\ UNCHANGED <<node, session>>

\* snapshot_bound
Read(p) ==
    /\ Inside(p) /\ proc[p].op = "read"
    /\ Leave(p)
    /\ UNCHANGED <<node, session, authority>>

\* the transitions of BarrierSessionContract; the scope follows its own revision
Change(p, op, from, status) ==
    /\ Inside(p) /\ proc[p].op = op
    /\ session.status \in from /\ session.rev < MaxRev
    /\ session' = [session EXCEPT !.status = status, !.rev = @ + 1]
    /\ proc' = [proc EXCEPT ![p] = [Released(p) EXCEPT !.rev = session.rev + 1]]
    /\ UNCHANGED <<node, authority>>

BindChild(p) == Change(p, "bind_child", {"held"}, "held")
BeginReopen(p) == Change(p, "begin_reopen", {"held"}, "releasing")
CompleteReopen(p) == Change(p, "complete_reopen", {"releasing"}, "released")
MarkAmbiguous(p) == Change(p, "mark_ambiguous", {"held", "releasing"}, "ambiguous")

Install(p) ==
    /\ session.attempt < MaxAttempt
    /\ session' = [attempt |-> session.attempt + 1, status |-> "held", rev |-> 1,
                   at |-> proc[p].seen]
    /\ Leave(p)
    /\ UNCHANGED <<node, authority>>

\* create_locked: the authority is read again before the held row is committed
Fresh_Caller(p) == TRUE
Fresh(p) == proc[p].seen = authority

Create(p) ==
    /\ Inside(p) /\ proc[p].op = "create"
    /\ session.status = "released" /\ session.attempt = proc[p].attempt
    /\ Fresh(p)
    /\ Install(p)

Reconcile(p) ==
    /\ Inside(p) /\ proc[p].op = "reconcile"
    /\ Ambiguous(p) /\ Fresh(p)
    /\ Install(p)

Step(p) ==
    \/ BindWriter(p) \/ BindScope(p)
    \/ \E op \in {"create", "reconcile"} : Prepare(p, op)
    \/ \E op \in ScopeOps : Enter(p, op)
    \/ Open(p) \/ Lock(p) \/ Refuse(p) \/ Timeout(p) \/ Crash(p)
    \/ Write(p) \/ Read(p)
    \/ BindChild(p) \/ BeginReopen(p) \/ CompleteReopen(p) \/ MarkAmbiguous(p)
    \/ Create(p) \/ Reconcile(p)

Next ==
    \/ \E p \in Procs : Step(p)
    \/ \E l \in Locks : Replace(l)

Spec == Init /\ [][Next]_vars

-----------------------------------------------------------------------------
(* Properties.  Operators named X_Y are plausible mistakes in X, against   *)
(* which the properties are tried; no action uses them.                    *)

\* Two processes are never inside the domain together, whichever of the three
\* lock files was replaced while one of them worked or waited (MutationFence,
\* LockDomainScope.hold).
DomainExclusive == \A p, q \in Procs : Inside(p) /\ Inside(q) => p = q

\* While a session is held no command has written the authority since the
\* revision in the session's identity was read (create_locked).
HeldIsFresh == session.status = "held" => session.at = authority

\* What a scope does or reads, it does in the session it was bound to, which is
\* still at the scope's revision, on an authority unchanged since the session
\* was acquired (_recheck_session).
ScopeIsFresh ==
    \A p \in Procs : Inside(p) /\ Scoped(p) =>
        /\ session.attempt = proc[p].attempt /\ session.rev = proc[p].rev
        /\ session.status \in {"held", "releasing"}
        /\ session.at = authority

\* A held session and the scopes bound to it speak of the authority as it is,
\* although revisions are read before locks are taken.
SessionsFresh == HeldIsFresh /\ ScopeIsFresh

\* No two processes wait for each other's locks (LOCK_ORDER).
NoWaitCycle ==
    \A p, q \in Procs :
        ~ /\ Waiting(p) /\ Holds(q, NextLock(p), proc[p].fd[proc[p].n + 1])
          /\ Waiting(q) /\ Holds(p, NextLock(q), proc[q].fd[proc[q].n + 1])

\* The authority is written only while the session is released, and by a command
\* that found the very same session when it started: a command that was waiting
\* while a whole upgrade went by is refused (bind_session_identity).
WritesFenced ==
    [][\A p \in Procs : authority' # authority /\ Inside(p) =>
          session.status = "released" /\ proc[p].attempt = session.attempt]_vars
=============================================================================
