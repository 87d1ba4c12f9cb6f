--------------------------- MODULE MCAccountLock ---------------------------
(***************************************************************************)
(* TLC instances of AccountLock.  Workers are interchangeable: no action   *)
(* or property of the module distinguishes one from another.               *)
(***************************************************************************)
EXTENDS AccountLock, TLC

Symmetry == Permutations(Workers)
=============================================================================
