-------------------------- MODULE MCCommandService --------------------------
(* CommandService with the identities of the firmware interchangeable: the     *)
(* service only compares them.                                                 *)
EXTENDS CommandService, TLC

Symmetry == Permutations(Ids) \cup Permutations(Boots) \cup Permutations(Api)
=============================================================================
