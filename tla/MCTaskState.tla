------------------------------ MODULE MCTaskState ------------------------------
(***************************************************************************)
(* A small instance of TaskState for TLC: two databases with different     *)
(* numbers of retries; the digest of a digest is another one.              *)
(***************************************************************************)
EXTENDS TaskState, TLC

CONSTANTS a, b, u, blank, eval, evalsha, sha, shasha

MCStrings == {u, blank, eval, evalsha, sha, shasha}

MCDigest == [s \in MCStrings |-> IF s \in {sha, shasha} THEN shasha ELSE sha]

MCDefaults == (a :> [timeout |-> 0, retries |-> 0]) @@ (b :> [timeout |-> 0, retries |-> 1])

\* Heap addresses are interchangeable.
Symmetry == Permutations(Addresses)

MCReplies ==
    {[type |-> "array", elements |-> <<"verb", "integer">>],
     [type |-> "map", elements |-> <<"string">>]}
=============================================================================
