--------------------------- MODULE MCProfileCache ---------------------------
(***************************************************************************)
(* TLC instances of ProfileCache: two accounts after the same person.      *)
(***************************************************************************)
EXTENDS ProfileCache

CONSTANTS a1, a2, person

MCAccounts == {a1, a2}
MCPeople == {person}
MCTasks == MCAccounts \X MCPeople
=============================================================================
