------------------------------ MODULE MCIntake ------------------------------
(***************************************************************************)
(* TLC instances of Intake.  Accounts differ in whether they are deleted;  *)
(* people are interchangeable, and so are requests.                        *)
(***************************************************************************)
EXTENDS Intake

Symmetry == Permutations(People) \cup Permutations(Requests)
=============================================================================
