--------------------------- MODULE BarrierContract ---------------------------
(***************************************************************************)
(* What a project's barrier session promises, whatever happens to the      *)
(* store that keeps it: BarrierSessionContract and STATUS_TRANSITIONS of    *)
(* tools/rollback_control_store.py, without the journal, the locks and the *)
(* commits.  One attempt at a time holds the barrier; it binds a forward   *)
(* and then a rollback child, reopens to one bound child, and may at any   *)
(* time be fenced as ambiguous.  Only a newer attempt follows a finished   *)
(* or a fenced one.                                                        *)
(***************************************************************************)
EXTENDS Naturals

CONSTANTS
    Attempts,     \* state revisions that name the attempts, a set of naturals
    Ops,          \* operation identities of the children
    None          \* absent child, absent target, absent session

VARIABLE session

Statuses == {"held", "releasing", "released", "ambiguous"}

Targets == {"new", "rollback"}

Child(s, t) == IF t = "new" THEN s.fwd ELSE s.rbk

Fresh(a, status, rev) ==
    [att |-> a, status |-> status, rev |-> rev,
     fwd |-> None, rbk |-> None, target |-> None]

Advance(s, status) == [s EXCEPT !.status = status, !.rev = @ + 1]

Bound(s, t, op) ==
    IF t = "new" THEN [Advance(s, "held") EXCEPT !.fwd = op]
                 ELSE [Advance(s, "held") EXCEPT !.rbk = op]

\* bind_child: a forward child first, then a rollback child that differs from it
CanBind(s, t, op) ==
    /\ s.status = "held"
    /\ Child(s, t) = None
    /\ t = "rollback" => s.fwd # None
    /\ op # s.fwd

Reopening(s, t) == [Advance(s, "releasing") EXCEPT !.target = t]

CanBeginReopen(s, t) == s.status = "held" /\ Child(s, t) # None

CanCompleteReopen(s) == s.status = "releasing" /\ Child(s, s.target) # None

Init == session = None

\* a baseline is provisioned as released, an attempt opens as held
Open(a) ==
    /\ session = None
    /\ session' \in {Fresh(a, st, 1) : st \in {"held", "released", "ambiguous"}}

Bind(t, op) ==
    /\ session # None /\ CanBind(session, t, op)
    /\ session' = Bound(session, t, op)

BeginReopen(t) ==
    /\ session # None /\ CanBeginReopen(session, t)
    /\ session' = Reopening(session, t)

CompleteReopen ==
    /\ session # None /\ CanCompleteReopen(session)
    /\ session' = Advance(session, "released")

\* an uncertain outcome; a fenced session may be fenced again
Fence ==
    /\ session # None
    /\ session' = Advance(session, "ambiguous")

Replace(a) ==
    /\ session # None /\ session.status \in {"released", "ambiguous"}
    /\ a > session.att
    /\ session' = Fresh(a, "held", 1)

Next ==
    \/ \E a \in Attempts : Open(a) \/ Replace(a)
    \/ \E t \in Targets, op \in Ops : Bind(t, op)
    \/ \E t \in Targets : BeginReopen(t)
    \/ CompleteReopen
    \/ Fence

Spec == Init /\ [][Next]_session
=============================================================================
