----------------------------- MODULE MCSharedPool -----------------------------
(***************************************************************************)
(* Small instances of SharedPool for TLC.                                  *)
(***************************************************************************)
EXTENDS SharedPool

\* Workers and heap addresses are interchangeable (safety runs only).
Symmetry == Permutations(Workers) \union Permutations(Contexts)
=============================================================================
