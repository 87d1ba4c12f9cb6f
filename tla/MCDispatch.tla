----------------------------- MODULE MCDispatch -----------------------------
(***************************************************************************)
(* TLC instances of Dispatch.  Replicas are interchangeable.  Tasks are    *)
(* not: the planner takes them in id order.                                *)
(***************************************************************************)
EXTENDS Dispatch, TLC

Symmetry == Permutations(Replicas)
=============================================================================
