-------------------------- MODULE MCCommandExecution --------------------------
(***************************************************************************)
(* Instances of CommandExecution for TLC.                                  *)
(***************************************************************************)
EXTENDS CommandExecution, TLC

Symmetry == Permutations(Servers) \union Permutations(Contexts)
=============================================================================
