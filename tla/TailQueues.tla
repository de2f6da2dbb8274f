------------------------------ MODULE TailQueues ------------------------------
(***************************************************************************)
(* The lists (VTAILQ of Varnish) that servers, private connections and     *)
(* plans are kept in, as sequences, and what the loops over them collect.  *)
(***************************************************************************)
EXTENDS Integers, FiniteSets, SequencesExt

IndexOf(q, s) == CHOOSE k \in DOMAIN q : q[k] = s

\* VTAILQ_REMOVE().
Removed(q, s) == IF s \in ToSet(q) THEN RemoveAt(q, IndexOf(q, s)) ELSE q

\* The elements that are in S, in their order: SelectSeq() with a set as its
\* test, about which TLAPS can reason.
Filtered(q, S) ==
    LET filtered[n \in 0 .. Len(q)] ==
          IF n = 0 THEN << >>
          ELSE IF q[n] \in S THEN Append(filtered[n - 1], q[n])
          ELSE filtered[n - 1]
    IN  filtered[Len(q)]

\* The first n elements, if there are that many.
FirstOf(q, n) == SubSeq(q, 1, IF n < Len(q) THEN n ELSE Len(q))
=============================================================================
