---------------------------- MODULE MCExecutionPlan ----------------------------
(***************************************************************************)
(* An instance of ExecutionPlan for TLC: three servers of weight 0 and one *)
(* of weight 1.                                                            *)
(***************************************************************************)
EXTENDS ExecutionPlan, TLC

CONSTANTS a, b, c, d

MCWeight == (a :> 0) @@ (b :> 0) @@ (c :> 0) @@ (d :> 1)

Symmetry == Permutations({a, b, c})
=============================================================================
