-------------------------- MODULE MCBarrierSession --------------------------
(* Instances of BarrierSession for TLC. *)
EXTENDS BarrierSession, TLC

Symmetric == Permutations(Procs) \union Permutations(Ops)
=============================================================================
