----------------------------- MODULE SessionView -----------------------------
(***************************************************************************)
(* What the upgrade engine and the board's writers see of the project's    *)
(* barrier session: the attempt that holds it and its status.  The store   *)
(* (BarrierSession) only moves what is seen along SessionFollows, and the  *)
(* engine (UpgradeEngine) is checked against every such move.              *)
(***************************************************************************)
EXTENDS Naturals

\* The first session of a project: acquired, provisioned as the released
\* baseline, or fenced because its first commit was uncertain.
FirstStatuses == {"held", "released", "ambiguous"}

\* STATUS_TRANSITIONS that can be seen, and the fencing of an uncertain outcome.
StatusAfter(status) ==
    CASE status = "held"      -> {"releasing", "ambiguous"}
      [] status = "releasing" -> {"released", "ambiguous"}
      [] status = "released"  -> {"ambiguous"}
      [] OTHER                -> {}

\* A view is [op |-> attempt, status |-> ...]; 0 is the attempt of no session.
NoSession == [op |-> 0, status |-> "released"]

\* _cas_locked: a first session, a newer attempt after a finished or fenced one, or
\* the next status of the same attempt.
SessionFollows(v, w) ==
    \/ v.op = 0 /\ w.op # 0 /\ w.status \in FirstStatuses
    \/ v.op # 0 /\ v.status \in {"released", "ambiguous"} /\ w.op > v.op /\ w.status = "held"
    \/ v.op # 0 /\ w.op = v.op /\ w.status \in StatusAfter(v.status)
=============================================================================
