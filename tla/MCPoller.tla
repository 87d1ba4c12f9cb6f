------------------------------ MODULE MCPoller ------------------------------
(***************************************************************************)
(* Poller for TLC.                                                         *)
(***************************************************************************)
EXTENDS Poller, TLC

\* Neither the pollers nor the tasks are told apart.
Symmetry == Permutations(Pollers) \cup Permutations(Tasks)
=============================================================================
