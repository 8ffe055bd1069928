---------------------------- MODULE MCTaskBoard ----------------------------
(* Small boards for TLC.                                                   *)
EXTENDS TaskBoard, TLC

CONSTANTS t1, t2, t3, t4, t5, o1, o2, b1, wt1, w1

OwnerSymmetry == Permutations(Owners)

NoneEach == [t \in Tasks |-> None]
SetEach  == [t \in Tasks |-> {}]
AllOpen  == [t \in Tasks |-> "open"]

\* One board with every kind of relation: t1 is the parent of t2, t5 waits for
\* t2, t1 and t2 declare the same worktree, and t3 is superseded by t4, which
\* is done and has a checkpoint it could be rolled back to.
BoardDependsOn   == [SetEach EXCEPT ![t5] = {t2}]
BoardParentOf    == [NoneEach EXCEPT ![t2] = t1]
BoardSuccessor   == [NoneEach EXCEPT ![t3] = t4]
BoardStatus      == [AllOpen EXCEPT ![t3] = "superseded", ![t4] = "done", ![t5] = "planned"]
BoardWorktree    == [NoneEach EXCEPT ![t1] = wt1, ![t2] = wt1]
BoardCheckpoints == [SetEach EXCEPT ![t4] =
    {[branch |-> None, worktree |-> None, accepted |-> TRUE]}]
=============================================================================
