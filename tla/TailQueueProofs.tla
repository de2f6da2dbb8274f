---------------------------- MODULE TailQueueProofs ----------------------------
(***************************************************************************)
(* What the operators of TailQueues return, for any sequence.              *)
(***************************************************************************)
EXTENDS TailQueues, SequenceTheorems, WellFoundedInduction, TLAPS

\* The least-number principle, about a set.
LEMMA LeastNumber ==
    ASSUME NEW T \in SUBSET Nat, T # {}
    PROVE  \E n \in T : \A m \in T : n <= m
  <1> DEFINE R == OpToRel(<, Nat)
  <1>1. IsWellFoundedOn(R, Nat)
    BY NatLessThanWellFounded
  <1>2. \A x, y \in Nat : x < y => <<x, y>> \in R
    BY DEF OpToRel
  <1> HIDE DEF R
  <1>3. PICK x \in T : \A y \in T : ~(<<y, x>> \in R)
    BY <1>1, WFMin
  <1>4. ASSUME NEW y \in T PROVE x <= y
    <2>1. x \in Nat /\ y \in Nat
      OBVIOUS
    <2>2. ~(y < x)
      BY <1>2, <1>3, <2>1, Zenon
    <2> QED
      BY <2>1, <2>2
  <1> QED
    BY <1>4

\* Induction up to N, with the set of the numbers that have the property.
LEMMA InductionUpTo ==
    ASSUME NEW N \in Nat, NEW T, 0 \in T,
           \A n \in 1 .. N : n - 1 \in T => n \in T
    PROVE  0 .. N \subseteq T
  <1> DEFINE F == {n \in 0 .. N : n \notin T}
  <1>1. SUFFICES ASSUME F # {} PROVE FALSE
    OBVIOUS
  <1>2. PICK n \in F : \A m \in F : n <= m
    <2>1. F \in SUBSET Nat
      OBVIOUS
    <2> QED
      BY <1>1, <2>1, LeastNumber
  <1>3. n \in 1 .. N /\ n - 1 \in 0 .. N /\ n - 1 < n
    BY <1>2
  <1>4. n - 1 \in T
    BY <1>2, <1>3
  <1> QED
    BY <1>2, <1>3, <1>4

\* f is defined up to N by its value at 0, and at n from the one at n - 1.
IsRecursive(f, N, A, base, step) ==
    /\ f \in [0 .. N -> A]
    /\ f[0] = base
    /\ \A n \in 1 .. N : f[n] = step[<<f[n - 1], n>>]

\* Recursion up to N: there is such a function.
LEMMA RecursionUpTo ==
    ASSUME NEW N \in Nat, NEW A, NEW base \in A, NEW step,
           step \in [A \X (1 .. N) -> A]
    PROVE  \E f : IsRecursive(f, N, A, base, step)
  <1> DEFINE Partial(f, m) ==
               f[0] = base /\ \A n \in 1 .. m : f[n] = step[<<f[n - 1], n>>]
             T == {m \in 0 .. N : \E f \in [0 .. m -> A] : Partial(f, m)}
  <1>1. 0 \in T
    <2> DEFINE g == [n \in 0 .. 0 |-> base]
    <2>1. g \in [0 .. 0 -> A] /\ Partial(g, 0)
      OBVIOUS
    <2> HIDE DEF g, Partial
    <2> QED
      BY <2>1
  <1>2. ASSUME NEW m \in 1 .. N, m - 1 \in T PROVE m \in T
    <2>1. PICK f \in [0 .. m - 1 -> A] : Partial(f, m - 1)
      BY <1>2
    <2> DEFINE new == step[<<f[m - 1], m>>]
               g == [n \in 0 .. m |-> IF n = m THEN new ELSE f[n]]
    <2>2. f[m - 1] \in A /\ new \in A
      OBVIOUS
    <2>3. g \in [0 .. m -> A]
      BY <2>2
    <2>4. g[0] = base /\ g[m] = new /\ \A n \in 0 .. m - 1 : g[n] = f[n]
      BY <2>1
    <2>5. ASSUME NEW n \in 1 .. m PROVE g[n] = step[<<g[n - 1], n>>]
      <3> HIDE DEF g
      <3>1. CASE n = m
        <4>1. m - 1 \in 0 .. m - 1
          OBVIOUS
        <4> QED
          BY <2>4, <3>1, <4>1, Zenon
      <3>2. CASE n # m
        <4>1. n \in 0 .. m - 1 /\ n \in 1 .. m - 1 /\ n - 1 \in 0 .. m - 1
          BY <3>2
        <4> QED
          BY <2>1, <2>4, <4>1
      <3> QED
        BY <3>1, <3>2
    <2>6. Partial(g, m)
      BY <2>4, <2>5
    <2> HIDE DEF g, Partial
    <2> QED
      BY <2>3, <2>6
  <1> HIDE DEF T
  <1>3. N \in T
    BY <1>1, <1>2, InductionUpTo
  <1> QED
    BY <1>3 DEF T, IsRecursive

\* And only one.
LEMMA RecursionUnique ==
    ASSUME NEW N \in Nat, NEW A, NEW base, NEW step, NEW f, NEW g,
           IsRecursive(f, N, A, base, step), IsRecursive(g, N, A, base, step)
    PROVE  f[N] = g[N]
  <1> DEFINE T == {n \in 0 .. N : f[n] = g[n]}
  <1>1. 0 \in T
    BY DEF IsRecursive
  <1>2. ASSUME NEW n \in 1 .. N, n - 1 \in T PROVE n \in T
    <2>1. n \in 0 .. N /\ f[n - 1] = g[n - 1]
      BY <1>2
    <2>2. f[n] = step[<<f[n - 1], n>>] /\ g[n] = step[<<g[n - 1], n>>]
      BY DEF IsRecursive
    <2> QED
      BY <2>1, <2>2
  <1> HIDE DEF T
  <1>3. N \in T
    BY <1>1, <1>2, InductionUpTo
  <1> QED
    BY <1>3 DEF T

-----------------------------------------------------------------------------
(***************************************************************************)
(* Elements of sequences.                                                  *)
(***************************************************************************)

\* No element is in two places.
Injective(q) == \A j, k \in DOMAIN q : q[j] = q[k] => j = k

\* The element of index m is removed, and those after it move.
LEMMA RemoveAtElements ==
    ASSUME NEW S, NEW q \in Seq(S), NEW m \in 1 .. Len(q)
    PROVE  /\ RemoveAt(q, m) \in Seq(S)
           /\ Len(RemoveAt(q, m)) = Len(q) - 1
           /\ \A k \in 1 .. Len(q) - 1 : RemoveAt(q, m)[k] = IF k < m THEN q[k] ELSE q[k + 1]
  <1> DEFINE a == SubSeq(q, 1, m - 1)
             b == SubSeq(q, m + 1, Len(q))
  <1>0. Len(q) \in Nat /\ DOMAIN q = 1 .. Len(q)
    BY LenProperties
  <1>1. /\ a \in Seq(S) /\ Len(a) = m - 1
        /\ \A k \in 1 .. m - 1 : a[k] = q[k]
    BY <1>0, SubSeqProperties
  <1>2. /\ b \in Seq(S) /\ Len(b) = Len(q) - m
        /\ \A k \in 1 .. Len(q) - m : b[k] = q[m + k]
    <2>1. \A k \in m + 1 .. Len(q) : q[k] \in S
      BY <1>0
    <2>2. /\ b \in Seq(S)
          /\ Len(b) = IF m + 1 <= Len(q) THEN Len(q) - (m + 1) + 1 ELSE 0
          /\ \A k \in 1 .. Len(q) - (m + 1) + 1 : b[k] = q[(m + 1) + k - 1]
      <3>1. m + 1 \in Int /\ Len(q) \in Int
        BY <1>0
      <3> QED
        BY <2>1, <3>1, SubSeqProperties
    <2>3. Len(q) - (m + 1) + 1 = Len(q) - m /\ \A k \in Int : (m + 1) + k - 1 = m + k
      BY <1>0
    <2> HIDE DEF b
    <2>4. Len(b) = Len(q) - m
      <3>1. ASSUME NEW n \in Nat, NEW l \in 1 .. n
            PROVE  (IF l + 1 <= n THEN n - (l + 1) + 1 ELSE 0) = n - l
        OBVIOUS
      <3>2. (IF m + 1 <= Len(q) THEN Len(q) - (m + 1) + 1 ELSE 0) = Len(q) - m
        BY <1>0, <3>1, Zenon
      <3>3. Len(b) = IF m + 1 <= Len(q) THEN Len(q) - (m + 1) + 1 ELSE 0
        BY <2>2
      <3> QED
        BY <3>2, <3>3
    <2>5. ASSUME NEW k \in 1 .. Len(q) - m PROVE b[k] = q[m + k]
      <3>1. k \in 1 .. Len(q) - (m + 1) + 1 /\ (m + 1) + k - 1 = m + k
        BY <1>0, <2>3
      <3>2. b[k] = q[(m + 1) + k - 1]
        BY <2>2, <3>1, Zenon
      <3> QED
        BY <3>1, <3>2, Zenon
    <2> QED
      BY <2>2, <2>4, <2>5
  <1>5. RemoveAt(q, m) = a \o b
    BY DEF RemoveAt
  <1> HIDE DEF a, b
  <1>3. /\ a \o b \in Seq(S) /\ Len(a \o b) = Len(a) + Len(b)
        /\ \A k \in 1 .. Len(a) + Len(b) :
             (a \o b)[k] = IF k <= Len(a) THEN a[k] ELSE b[k - Len(a)]
    BY <1>1, <1>2, ConcatProperties
  <1>4. ASSUME NEW k \in 1 .. Len(q) - 1
        PROVE  (a \o b)[k] = IF k < m THEN q[k] ELSE q[k + 1]
    <2>1. CASE k < m
      BY <1>0, <1>1, <1>2, <1>3, <2>1
    <2>2. CASE k >= m
      <3>1. (a \o b)[k] = b[k - (m - 1)] /\ k - (m - 1) \in 1 .. Len(q) - m
        BY <1>0, <1>1, <1>2, <1>3, <2>2
      <3>2. m + (k - (m - 1)) = k + 1 /\ ~(k < m)
        BY <1>0, <2>2
      <3>3. b[k - (m - 1)] = q[m + (k - (m - 1))]
        BY <1>2, <3>1
      <3>4. (a \o b)[k] = q[k + 1]
        BY <3>1, <3>2, <3>3, Zenon
      <3> QED
        BY <3>2, <3>4, Zenon
    <2>3. k < m \/ k >= m
      BY <1>0
    <2> QED
      BY <2>1, <2>2, <2>3, Zenon
  <1>6. Len(a \o b) = Len(q) - 1
    BY <1>0, <1>1, <1>2, <1>3
  <1> QED
    BY <1>3, <1>4, <1>5, <1>6, Zenon

\* IndexOf gives an index of the element.
LEMMA IndexIsThere ==
    ASSUME NEW q, NEW s \in ToSet(q)
    PROVE  IndexOf(q, s) \in DOMAIN q /\ q[IndexOf(q, s)] = s
  BY DEF ToSet, IndexOf

\* VTAILQ_REMOVE() of s removes s, and nothing else.
LEMMA RemovedElements ==
    ASSUME NEW A, NEW q \in Seq(A), Injective(q), NEW s
    PROVE  /\ Removed(q, s) \in Seq(A)
           /\ ToSet(Removed(q, s)) = ToSet(q) \ {s}
           /\ Injective(Removed(q, s))
           /\ s \in ToSet(q) => Len(Removed(q, s)) = Len(q) - 1
  <1>1. CASE s \notin ToSet(q)
    BY <1>1 DEF Removed
  <1>2. CASE s \in ToSet(q)
    <2> DEFINE m == IndexOf(q, s)
               r == RemoveAt(q, m)
    <2>0. Len(q) \in Nat /\ DOMAIN q = 1 .. Len(q)
      BY LenProperties
    <2>1. m \in 1 .. Len(q) /\ q[m] = s
      BY <1>2, <2>0, IndexIsThere
    <2> HIDE DEF m
    <2>2. /\ r \in Seq(A) /\ Len(r) = Len(q) - 1
          /\ \A k \in 1 .. Len(q) - 1 : r[k] = IF k < m THEN q[k] ELSE q[k + 1]
      BY <2>1, RemoveAtElements
    <2> HIDE DEF r
    <2>3. DOMAIN r = 1 .. Len(q) - 1
      BY <2>0, <2>2, LenProperties
    <2>4. ToSet(r) = ToSet(q) \ {s}
      <3>1. ASSUME NEW x \in ToSet(r) PROVE x \in ToSet(q) /\ x # s
        <4>1. PICK k \in 1 .. Len(q) - 1 : x = r[k]
          BY <2>3 DEF ToSet
        <4>2. PICK j \in 1 .. Len(q) : x = q[j] /\ j # m
          BY <2>0, <2>1, <2>2, <4>1
        <4> QED
          BY <2>0, <2>1, <4>2 DEF ToSet, Injective
      <3>2. ASSUME NEW x \in ToSet(q), x # s PROVE x \in ToSet(r)
        <4>1. PICK j \in 1 .. Len(q) : x = q[j]
          BY <2>0 DEF ToSet
        <4>2. j # m
          BY <2>1, <3>2, <4>1
        <4>3. CASE j < m
          <5>1. j \in 1 .. Len(q) - 1 /\ r[j] = q[j]
            BY <2>0, <2>1, <2>2, <4>3
          <5> QED
            BY <2>3, <4>1, <5>1 DEF ToSet
        <4>4. CASE j > m
          <5>1. j - 1 \in 1 .. Len(q) - 1 /\ ~(j - 1 < m) /\ (j - 1) + 1 = j
            BY <2>0, <2>1, <4>4
          <5>2. r[j - 1] = q[j]
            BY <2>2, <5>1
          <5> QED
            BY <2>3, <4>1, <5>1, <5>2 DEF ToSet
        <4> QED
          BY <2>0, <2>1, <4>2, <4>3, <4>4
      <3> QED
        BY <3>1, <3>2
    <2>5. Injective(r)
      <3> SUFFICES ASSUME NEW j \in 1 .. Len(q) - 1, NEW k \in 1 .. Len(q) - 1, r[j] = r[k]
                   PROVE  j = k
        BY <2>3 DEF Injective
      <3> DEFINE from(n) == IF n < m THEN n ELSE n + 1
      <3>1. from(j) \in 1 .. Len(q) /\ from(k) \in 1 .. Len(q)
        BY <2>0, <2>1
      <3>2. q[from(j)] = q[from(k)]
        BY <2>2
      <3>3. from(j) = from(k)
        BY <2>0, <3>1, <3>2 DEF Injective
      <3> QED
        BY <2>1, <3>3
    <2> QED
      BY <1>2, <2>2, <2>4, <2>5 DEF Removed, r, m
  <1> QED
    BY <1>1, <1>2

\* VTAILQ_INSERT_TAIL of a new element: one element more, and none twice.
LEMMA AppendElements ==
    ASSUME NEW A, NEW q \in Seq(A), Injective(q), NEW s \in A, s \notin ToSet(q)
    PROVE  /\ Append(q, s) \in Seq(A)
           /\ ToSet(Append(q, s)) = ToSet(q) \union {s}
           /\ Injective(Append(q, s))
  <1> DEFINE r == Append(q, s)
  <1>0. Len(q) \in Nat /\ DOMAIN q = 1 .. Len(q)
    BY LenProperties
  <1>1. /\ r \in Seq(A) /\ Len(r) = Len(q) + 1
        /\ \A k \in 1 .. Len(q) : r[k] = q[k]
        /\ r[Len(q) + 1] = s
    BY AppendProperties
  <1> HIDE DEF r
  <1>2. DOMAIN r = 1 .. Len(q) + 1
    BY <1>0, <1>1, LenProperties
  <1>3. \A k \in DOMAIN r : k \in DOMAIN q \/ k = Len(q) + 1
    BY <1>0, <1>2
  <1>4. DOMAIN q \subseteq DOMAIN r /\ Len(q) + 1 \in DOMAIN r
    BY <1>0, <1>2
  <1>5. ToSet(r) = ToSet(q) \union {s}
    BY <1>0, <1>1, <1>3, <1>4 DEF ToSet
  <1>6. Injective(r)
    BY <1>0, <1>1, <1>3 DEF Injective, ToSet
  <1> QED
    BY <1>1, <1>5, <1>6 DEF r

\* The elements after the first one.
LEMMA TailElements ==
    ASSUME NEW A, NEW q \in Seq(A), q # << >>
    PROVE  /\ Head(q) \in A /\ Head(q) \in ToSet(q)
           /\ Tail(q) \in Seq(A) /\ Len(Tail(q)) = Len(q) - 1
           /\ ToSet(q) = ToSet(Tail(q)) \union {Head(q)}
           /\ Injective(q) => Injective(Tail(q)) /\ Head(q) \notin ToSet(Tail(q))
  <1> DEFINE t == Tail(q)
  <1>1. /\ Len(q) \in Nat /\ DOMAIN q = 1 .. Len(q) /\ 1 \in 1 .. Len(q)
        /\ Head(q) = q[1] /\ Head(q) \in A
        /\ t \in Seq(A) /\ Len(t) = Len(q) - 1 /\ DOMAIN t = 1 .. Len(q) - 1
        /\ \A k \in 1 .. Len(q) - 1 : t[k] = q[k + 1]
    BY HeadTailProperties
  <1> HIDE DEF t
  <1>2. \A k \in 1 .. Len(q) - 1 : k + 1 \in 1 .. Len(q) /\ k + 1 # 1
    BY <1>1
  <1>3. \A k \in 1 .. Len(q) : k = 1 \/ (k - 1 \in 1 .. Len(q) - 1 /\ (k - 1) + 1 = k)
    BY <1>1
  <1>4. ASSUME NEW x \in ToSet(q), x # Head(q) PROVE x \in ToSet(t)
    <2>1. PICK k \in 1 .. Len(q) : x = q[k] /\ k # 1
      BY <1>1, <1>4 DEF ToSet
    <2>2. x = t[k - 1] /\ k - 1 \in DOMAIN t
      BY <1>1, <1>3, <2>1
    <2> QED
      BY <2>2 DEF ToSet
  <1>5. ASSUME NEW x \in ToSet(t) PROVE x \in ToSet(q)
    <2>1. PICK k \in 1 .. Len(q) - 1 : x = t[k]
      BY <1>1 DEF ToSet
    <2> QED
      BY <1>1, <1>2, <2>1 DEF ToSet
  <1>6. Head(q) \in ToSet(q)
    BY <1>1 DEF ToSet
  <1>7. ASSUME Injective(q) PROVE Injective(t) /\ Head(q) \notin ToSet(t)
    <2>1. ASSUME NEW j \in 1 .. Len(q) - 1, NEW k \in 1 .. Len(q) - 1, t[j] = t[k]
          PROVE  j = k
      <3>1. j + 1 = k + 1
        BY <1>1, <1>2, <1>7, <2>1 DEF Injective
      <3> QED
        BY <3>1
    <2>2. ASSUME Head(q) \in ToSet(t) PROVE FALSE
      <3>1. PICK k \in 1 .. Len(q) - 1 : q[1] = q[k + 1]
        BY <1>1, <2>2 DEF ToSet
      <3> QED
        BY <1>1, <1>2, <1>7, <3>1 DEF Injective
    <2> QED
      BY <1>1, <2>1, <2>2 DEF Injective
  <1> QED
    BY <1>1, <1>4, <1>5, <1>6, <1>7 DEF t

\* The first element becomes the last one.
LEMMA RotatedElements ==
    ASSUME NEW A, NEW q \in Seq(A), q # << >>
    PROVE  /\ Append(Tail(q), Head(q)) \in Seq(A)
           /\ Append(Tail(q), Head(q)) # << >>
           /\ ToSet(Append(Tail(q), Head(q))) = ToSet(q)
  <1> DEFINE t == Tail(q)
             h == Head(q)
             r == Append(t, h)
  <1>1. t \in Seq(A) /\ h \in A /\ ToSet(q) = ToSet(t) \union {h}
    BY TailElements
  <1> HIDE DEF t, h
  <1>2. /\ Len(t) \in Nat /\ DOMAIN t = 1 .. Len(t)
        /\ r \in Seq(A) /\ Len(r) = Len(t) + 1 /\ DOMAIN r = 1 .. Len(t) + 1
        /\ \A k \in 1 .. Len(t) : r[k] = t[k]
        /\ r[Len(t) + 1] = h
    BY <1>1, AppendProperties
  <1> HIDE DEF r
  <1>3. \A k \in DOMAIN r : k \in DOMAIN t \/ k = Len(t) + 1
    BY <1>2
  <1>4. DOMAIN t \subseteq DOMAIN r /\ Len(t) + 1 \in DOMAIN r
    BY <1>2
  <1>5. ToSet(r) = ToSet(t) \union {h}
    BY <1>2, <1>3, <1>4 DEF ToSet
  <1>6. r # << >>
    BY <1>2
  <1> QED
    BY <1>1, <1>2, <1>5, <1>6 DEF t, h, r

\* The elements of a prefix.
LEMMA FirstOfElements ==
    ASSUME NEW A, NEW q \in Seq(A), NEW n \in Nat
    PROVE  /\ FirstOf(q, n) \in Seq(A)
           /\ Len(FirstOf(q, n)) = IF n < Len(q) THEN n ELSE Len(q)
           /\ \A k \in 1 .. Len(FirstOf(q, n)) : k \in 1 .. Len(q) /\ FirstOf(q, n)[k] = q[k]
           /\ ToSet(FirstOf(q, n)) \subseteq ToSet(q)
           /\ Injective(q) => Injective(FirstOf(q, n))
  <1> DEFINE m == IF n < Len(q) THEN n ELSE Len(q)
             r == SubSeq(q, 1, m)
  <1>1. Len(q) \in Nat /\ DOMAIN q = 1 .. Len(q) /\ m \in 0 .. Len(q) /\ 1 \in Int /\ m \in Int
    BY LenProperties
  <1> HIDE DEF m
  <1>2. \A k \in 1 .. m : k \in 1 .. Len(q) /\ q[k] \in A
    BY <1>1
  <1>3. /\ r \in Seq(A)
        /\ Len(r) = m
        /\ \A k \in 1 .. m : r[k] = q[k]
    BY <1>1, <1>2, SubSeqProperties
  <1> HIDE DEF r
  <1>4. DOMAIN r = 1 .. m
    BY <1>1, <1>3, LenProperties
  <1>5. FirstOf(q, n) = r
    BY DEF FirstOf, r, m
  <1>6. ToSet(r) \subseteq ToSet(q)
    BY <1>1, <1>2, <1>3, <1>4 DEF ToSet
  <1>7. Injective(q) => Injective(r)
    BY <1>1, <1>2, <1>3, <1>4 DEF Injective
  <1> QED
    BY <1>2, <1>3, <1>5, <1>6, <1>7, Zenon DEF m

-----------------------------------------------------------------------------
(***************************************************************************)
(* Loops over a list that collect some of its elements.                    *)
(***************************************************************************)

\* What the loop over the first n elements of q has collected.
FilteredUpTo(q, S, f) ==
    /\ f[0] = << >>
    /\ \A n \in 1 .. Len(q) :
         f[n] = IF q[n] \in S THEN Append(f[n - 1], q[n]) ELSE f[n - 1]

\* The recursive function in the definition of Filtered exists.
LEMMA FilteredLoop ==
    ASSUME NEW A, NEW q \in Seq(A), NEW S
    PROVE  \E f : FilteredUpTo(q, S, f) /\ Filtered(q, S) = f[Len(q)]
  <1> DEFINE N == Len(q)
             Loop(f) == f = [n \in 0 .. N |-> IF n = 0 THEN << >>
                                             ELSE IF q[n] \in S THEN Append(f[n - 1], q[n])
                                             ELSE f[n - 1]]
             step == [x \in Seq(A) \X (1 .. N) |->
                        IF q[x[2]] \in S THEN Append(x[1], q[x[2]]) ELSE x[1]]
             chosen == CHOOSE f : Loop(f)
  <1>1. N \in Nat /\ \A n \in 1 .. N : q[n] \in A
    OBVIOUS
  <1>2. step \in [Seq(A) \X (1 .. N) -> Seq(A)]
    BY <1>1
  <1>3. << >> \in Seq(A)
    OBVIOUS
  <1>4. ASSUME NEW s \in Seq(A), NEW n \in 1 .. N
        PROVE  step[<<s, n>>] = IF q[n] \in S THEN Append(s, q[n]) ELSE s
    OBVIOUS
  <1> HIDE DEF step, N, Loop
  <1>5. PICK g \in [0 .. N -> Seq(A)] :
          g[0] = << >> /\ \A n \in 1 .. N : g[n] = step[<<g[n - 1], n>>]
    <2> DEFINE B == Seq(A)
    <2>1. step \in [B \X (1 .. N) -> B] /\ << >> \in B
      BY <1>2, <1>3
    <2> HIDE DEF B
    <2>2. \E g : IsRecursive(g, N, B, << >>, step)
      BY <1>1, <2>1, RecursionUpTo
    <2> QED
      BY <2>2 DEF B, IsRecursive
  <1>6. Loop(g)
    <2> DEFINE Value(n) == IF n = 0 THEN << >>
                           ELSE IF q[n] \in S THEN Append(g[n - 1], q[n])
                           ELSE g[n - 1]
    <2>1. ASSUME NEW n \in 0 .. N PROVE g[n] = Value(n)
      <3>1. CASE n = 0
        BY <1>5, <3>1
      <3>2. CASE n # 0
        <4>1. n \in 1 .. N /\ n - 1 \in 0 .. N
          BY <1>1, <3>2
        <4>2. g[n - 1] \in Seq(A)
          BY <4>1
        <4>3. g[n] = IF q[n] \in S THEN Append(g[n - 1], q[n]) ELSE g[n - 1]
          BY <1>4, <1>5, <4>1, <4>2, Zenon
        <4> QED
          BY <3>2, <4>3
      <3> QED
        BY <3>1, <3>2
    <2> HIDE DEF Value
    <2>2. g = [n \in 0 .. N |-> Value(n)]
      BY <2>1
    <2> QED
      BY <2>2, Zenon DEF Loop, Value
  <1>7. Loop(chosen)
    BY <1>6
  <1>8. FilteredUpTo(q, S, chosen)
    <2> HIDE DEF chosen
    <2>1. chosen[0] = << >>
      BY <1>1, <1>7 DEF Loop
    <2>2. ASSUME NEW n \in 1 .. N
          PROVE  chosen[n] = IF q[n] \in S THEN Append(chosen[n - 1], q[n])
                             ELSE chosen[n - 1]
      <3>1. n \in 0 .. N /\ n # 0
        BY <1>1
      <3> QED
        BY <1>7, <3>1 DEF Loop
    <2> QED
      BY <2>1, <2>2 DEF FilteredUpTo, N
  <1>9. Filtered(q, S) = chosen[Len(q)]
    BY DEF Filtered, Loop, N
  <1> QED
    BY <1>8, <1>9

\* r has the first n elements of q that are in S, and no other, in their order.
Collected(r, n, q, S) ==
    /\ Len(r) <= n
    /\ Len(r) = n => \A k \in 1 .. n : q[k] \in S
    /\ \A i \in 1 .. Len(r) : \E k \in 1 .. n : r[i] = q[k] /\ q[k] \in S
    /\ \A k \in 1 .. n : q[k] \in S => \E i \in 1 .. Len(r) : r[i] = q[k]
    /\ \A i, j \in 1 .. Len(r) :
         i < j => \E k, l \in 1 .. n : k < l /\ r[i] = q[k] /\ r[j] = q[l]

\* One more turn of the loop collects the element or skips it.
LEMMA CollectedStep ==
    ASSUME NEW A, NEW q \in Seq(A), NEW S, NEW n \in 1 .. Len(q),
           NEW r \in Seq(A), Collected(r, n - 1, q, S)
    PROVE  /\ q[n] \in S => Collected(Append(r, q[n]), n, q, S)
           /\ q[n] \notin S => Collected(r, n, q, S)
  <1>1. /\ Len(q) \in Nat /\ q[n] \in A /\ Len(r) \in Nat
        /\ \A k \in 1 .. n - 1 : k \in 1 .. n
        /\ \A k \in 1 .. n : k # n => k \in 1 .. n - 1
        /\ n - 1 < n /\ n \in 1 .. n
    OBVIOUS
  <1>2. ASSUME q[n] \notin S PROVE Collected(r, n, q, S)
    <2>1. Len(r) <= n /\ Len(r) # n
      BY <1>1 DEF Collected
    <2>2. \A i \in 1 .. Len(r) : \E k \in 1 .. n : r[i] = q[k] /\ q[k] \in S
      BY <1>1, Zenon DEF Collected
    <2>3. \A k \in 1 .. n : q[k] \in S => \E i \in 1 .. Len(r) : r[i] = q[k]
      BY <1>1, <1>2, Zenon DEF Collected
    <2>4. \A i, j \in 1 .. Len(r) :
            i < j => \E k, l \in 1 .. n : k < l /\ r[i] = q[k] /\ r[j] = q[l]
      <3>1. SUFFICES ASSUME NEW i \in 1 .. Len(r), NEW j \in 1 .. Len(r), i < j
                     PROVE  \E k, l \in 1 .. n : k < l /\ r[i] = q[k] /\ r[j] = q[l]
        OBVIOUS
      <3>2. PICK k \in 1 .. n - 1, l \in 1 .. n - 1 : k < l /\ r[i] = q[k] /\ r[j] = q[l]
        BY <3>1, Zenon DEF Collected
      <3> QED
        BY <1>1, <3>2, Zenon
    <2> QED
      BY <2>1, <2>2, <2>3, <2>4 DEF Collected
  <1>3. ASSUME q[n] \in S PROVE Collected(Append(r, q[n]), n, q, S)
    <2> DEFINE p == Append(r, q[n])
    <2>1. /\ Len(p) = Len(r) + 1 /\ p[Len(r) + 1] = q[n]
          /\ \A i \in 1 .. Len(r) : p[i] = r[i]
      BY <1>1, AppendProperties
    <2> HIDE DEF p
    <2>2. /\ \A i \in 1 .. Len(p) : i \in 1 .. Len(r) \/ i = Len(p)
          /\ \A i \in 1 .. Len(r) : i \in 1 .. Len(p)
          /\ p[Len(p)] = q[n] /\ Len(p) \in 1 .. Len(p)
      BY <1>1, <2>1
    <2>3. Len(p) <= n /\ (Len(p) = n => Len(r) = n - 1)
      BY <1>1, <2>1 DEF Collected
    <2>4. Len(p) = n => \A k \in 1 .. n : q[k] \in S
      BY <1>1, <1>3, <2>3, Zenon DEF Collected
    <2>5. ASSUME NEW i \in 1 .. Len(p)
          PROVE  \E k \in 1 .. n : p[i] = q[k] /\ q[k] \in S
      <3>1. CASE i = Len(p)
        BY <1>1, <1>3, <2>2, <3>1, Zenon
      <3>2. CASE i \in 1 .. Len(r)
        <4>1. PICK k \in 1 .. n - 1 : r[i] = q[k] /\ q[k] \in S
          BY <3>2, Zenon DEF Collected
        <4> QED
          BY <1>1, <2>1, <3>2, <4>1, Zenon
      <3> QED
        BY <2>2, <3>1, <3>2
    <2>6. ASSUME NEW k \in 1 .. n, q[k] \in S
          PROVE  \E i \in 1 .. Len(p) : p[i] = q[k]
      <3>1. CASE k = n
        BY <2>2, <3>1
      <3>2. CASE k # n
        <4>1. PICK i \in 1 .. Len(r) : r[i] = q[k]
          BY <1>1, <2>6, <3>2, Zenon DEF Collected
        <4> QED
          BY <2>1, <2>2, <4>1
      <3> QED
        BY <3>1, <3>2
    <2>7. ASSUME NEW i \in 1 .. Len(p), NEW j \in 1 .. Len(p), i < j
          PROVE  \E k, l \in 1 .. n : k < l /\ p[i] = q[k] /\ p[j] = q[l]
      <3>1. i \in 1 .. Len(r) /\ p[i] = r[i]
        BY <1>1, <2>1, <2>7
      <3>2. CASE j \in 1 .. Len(r)
        <4>1. PICK k \in 1 .. n - 1, l \in 1 .. n - 1 : k < l /\ r[i] = q[k] /\ r[j] = q[l]
          BY <2>7, <3>1, <3>2, Zenon DEF Collected
        <4> QED
          BY <1>1, <2>1, <3>1, <3>2, <4>1
      <3>3. CASE j = Len(p)
        <4>1. PICK k \in 1 .. n - 1 : r[i] = q[k]
          BY <3>1, Zenon DEF Collected
        <4>2. k < n
          BY <1>1
        <4> QED
          BY <1>1, <2>2, <3>1, <3>3, <4>1, <4>2
      <3> QED
        BY <2>2, <3>2, <3>3
    <2> QED
      BY <2>3, <2>4, <2>5, <2>6, <2>7, Zenon DEF Collected, p
  <1> QED
    BY <1>2, <1>3

\* The loop as a whole collects the elements of S in their order.
LEMMA FilteredCollects ==
    ASSUME NEW A, NEW q \in Seq(A), NEW S
    PROVE  Filtered(q, S) \in Seq(A) /\ Collected(Filtered(q, S), Len(q), q, S)
  <1>1. PICK f : FilteredUpTo(q, S, f) /\ Filtered(q, S) = f[Len(q)]
    BY FilteredLoop
  <1> DEFINE T == {n \in 0 .. Len(q) : f[n] \in Seq(A) /\ Collected(f[n], n, q, S)}
  <1>2. Len(q) \in Nat
    OBVIOUS
  <1>3. 0 \in T
    <2>1. f[0] = << >> /\ << >> \in Seq(A) /\ Len(<< >>) = 0
      BY <1>1 DEF FilteredUpTo
    <2>2. Collected(<< >>, 0, q, S)
      BY DEF Collected
    <2>3. 0 \in 0 .. Len(q)
      BY <1>2
    <2>4. f[0] \in Seq(A) /\ Collected(f[0], 0, q, S)
      BY <2>1, <2>2, Zenon
    <2> QED
      BY <2>3, <2>4, Zenon
  <1>4. ASSUME NEW n \in 1 .. Len(q), n - 1 \in T PROVE n \in T
    <2>1. /\ f[n - 1] \in Seq(A) /\ Collected(f[n - 1], n - 1, q, S)
          /\ n \in 0 .. Len(q) /\ q[n] \in A
      BY <1>2, <1>4
    <2>2. f[n] = IF q[n] \in S THEN Append(f[n - 1], q[n]) ELSE f[n - 1]
      BY <1>1 DEF FilteredUpTo
    <2>3. CASE q[n] \in S
      <3>1. f[n] = Append(f[n - 1], q[n])
        BY <2>2, <2>3
      <3>2. Append(f[n - 1], q[n]) \in Seq(A)
        BY <2>1
      <3>3. Collected(Append(f[n - 1], q[n]), n, q, S)
        BY <2>1, <2>3, CollectedStep
      <3> QED
        BY <2>1, <3>1, <3>2, <3>3
    <2>4. CASE q[n] \notin S
      <3>1. f[n] = f[n - 1]
        BY <2>2, <2>4
      <3>2. Collected(f[n - 1], n, q, S)
        BY <2>1, <2>4, CollectedStep
      <3> QED
        BY <2>1, <3>1, <3>2
    <2> QED
      BY <2>3, <2>4
  <1> HIDE DEF T
  <1>5. Len(q) \in T
    <2> DEFINE N == Len(q)
    <2>1. N \in Nat /\ N \in 0 .. N /\ \A n \in 1 .. N : n - 1 \in T => n \in T
      BY <1>2, <1>4
    <2> HIDE DEF N
    <2>2. 0 .. N \subseteq T
      BY <1>3, <2>1, InductionUpTo
    <2> QED
      BY <2>1, <2>2 DEF N
  <1> QED
    BY <1>1, <1>5 DEF T

\* The elements of S, and only them, each as often as it was there.
LEMMA FilteredElements ==
    ASSUME NEW A, NEW q \in Seq(A), NEW S
    PROVE  /\ Filtered(q, S) \in Seq(A)
           /\ Len(Filtered(q, S)) <= Len(q)
           /\ ToSet(Filtered(q, S)) = ToSet(q) \cap S
           /\ ToSet(q) \subseteq S \/ Len(Filtered(q, S)) < Len(q)
           /\ Injective(q) => Injective(Filtered(q, S))
  <1> DEFINE r == Filtered(q, S)
  <1>1. r \in Seq(A) /\ Collected(r, Len(q), q, S)
    BY FilteredCollects
  <1> HIDE DEF r
  <1>2. /\ DOMAIN q = 1 .. Len(q) /\ Len(q) \in Nat
        /\ DOMAIN r = 1 .. Len(r) /\ Len(r) \in Nat
    BY <1>1
  <1>3. ToSet(r) = ToSet(q) \cap S
    <2>1. ASSUME NEW x \in ToSet(r) PROVE x \in ToSet(q) \cap S
      <3>1. PICK i \in 1 .. Len(r) : x = r[i]
        BY <1>2 DEF ToSet
      <3>2. PICK k \in 1 .. Len(q) : r[i] = q[k] /\ q[k] \in S
        BY <1>1, Zenon DEF Collected
      <3> QED
        BY <1>2, <3>1, <3>2 DEF ToSet
    <2>2. ASSUME NEW x \in ToSet(q) \cap S PROVE x \in ToSet(r)
      <3>1. PICK k \in 1 .. Len(q) : x = q[k] /\ q[k] \in S
        BY <1>2 DEF ToSet
      <3>2. PICK i \in 1 .. Len(r) : r[i] = q[k]
        BY <1>1, <3>1, Zenon DEF Collected
      <3> QED
        BY <1>2, <3>1, <3>2 DEF ToSet
    <2> QED
      BY <2>1, <2>2
  <1>4. ToSet(q) \subseteq S \/ Len(r) < Len(q)
    <2>1. CASE Len(r) = Len(q)
      BY <1>1, <1>2, <2>1, Zenon DEF Collected, ToSet
    <2>2. CASE Len(r) # Len(q)
      <3>1. Len(r) <= Len(q)
        BY <1>1, Zenon DEF Collected
      <3>2. Len(r) \in Nat /\ Len(q) \in Nat
        BY <1>2, Zenon
      <3>3. ASSUME NEW m \in Nat, NEW n \in Nat, m <= n, m # n PROVE m < n
        BY <3>3
      <3> QED
        BY <2>2, <3>1, <3>2, <3>3, Zenon
    <2> QED
      BY <2>1, <2>2
  <1>5. ASSUME Injective(q), NEW i \in DOMAIN r, NEW j \in DOMAIN r, r[i] = r[j]
        PROVE  i = j
    <2>1. ASSUME NEW a \in DOMAIN r, NEW b \in DOMAIN r, a < b PROVE r[a] # r[b]
      <3>1. PICK k \in 1 .. Len(q), l \in 1 .. Len(q) : k < l /\ r[a] = q[k] /\ r[b] = q[l]
        <4>1. a \in 1 .. Len(r) /\ b \in 1 .. Len(r)
          BY <1>2
        <4> QED
          BY <1>1, <2>1, <4>1, Zenon DEF Collected
      <3>2. k # l
        BY <1>2, <3>1
      <3> QED
        BY <1>2, <1>5, <3>1, <3>2 DEF Injective
    <2>2. i < j \/ j < i \/ i = j
      BY <1>2
    <2> QED
      BY <1>5, <2>1, <2>2
  <1> QED
    BY <1>1, <1>3, <1>4, <1>5, <1>2 DEF Collected, Injective, r

\* The first one is the first that is in S.
LEMMA FilteredFirst ==
    ASSUME NEW A, NEW q \in Seq(A), NEW S, Injective(q), Filtered(q, S) # << >>
    PROVE  \E k \in 1 .. Len(q) :
             /\ Head(Filtered(q, S)) = q[k]
             /\ q[k] \in S
             /\ \A j \in 1 .. Len(q) : q[j] \in S => k <= j
  <1> DEFINE r == Filtered(q, S)
  <1>1. r \in Seq(A) /\ Collected(r, Len(q), q, S) /\ r # << >>
    BY FilteredCollects
  <1> HIDE DEF r
  <1>2. /\ DOMAIN q = 1 .. Len(q) /\ Len(q) \in Nat
        /\ DOMAIN r = 1 .. Len(r) /\ Len(r) \in Nat
        /\ 1 \in 1 .. Len(r) /\ Head(r) = r[1]
    BY <1>1
  <1>3. PICK k \in 1 .. Len(q) : r[1] = q[k] /\ q[k] \in S
    BY <1>1, <1>2, Zenon DEF Collected
  <1>4. ASSUME NEW j \in 1 .. Len(q), q[j] \in S PROVE k <= j
    <2>1. PICK i \in 1 .. Len(r) : r[i] = q[j]
      BY <1>1, <1>4, Zenon DEF Collected
    <2>2. CASE i = 1
      BY <1>2, <1>3, <2>1, <2>2 DEF Injective
    <2>3. CASE 1 < i
      <3>1. PICK m \in 1 .. Len(q), l \in 1 .. Len(q) : m < l /\ r[1] = q[m] /\ r[i] = q[l]
        BY <1>1, <1>2, <2>3, Zenon DEF Collected
      <3>2. m = k /\ l = j
        BY <1>2, <1>3, <2>1, <3>1, Zenon DEF Injective
      <3> QED
        BY <1>2, <3>1, <3>2
    <2> QED
      BY <1>2, <2>2, <2>3
  <1> QED
    BY <1>2, <1>3, <1>4 DEF r

-----------------------------------------------------------------------------
(***************************************************************************)
(* Loops over several lists, one after the other.                          *)
(***************************************************************************)

\* q has the elements of X, once each, in the order of their keys.
Arranged(q, X, key) ==
    /\ ToSet(q) = X
    /\ \A j, k \in DOMAIN q : j < k => q[j] # q[k] /\ key[q[j]] <= key[q[k]]

\* No element of a list comes twice if those of two places differ.
LEMMA InjectiveArranged ==
    ASSUME NEW A, NEW q \in Seq(A), NEW key, NEW c \in Int, Injective(q),
           \A x \in ToSet(q) : key[x] = c
    PROVE  Arranged(q, ToSet(q), key)
  <1>1. SUFFICES ASSUME NEW j \in DOMAIN q, NEW k \in DOMAIN q, j < k
                 PROVE  q[j] # q[k] /\ key[q[j]] <= key[q[k]]
    BY DEF Arranged
  <1>2. DOMAIN q = 1 .. Len(q) /\ Len(q) \in Nat
    OBVIOUS
  <1>3. j # k
    BY <1>1, <1>2
  <1>4. q[j] # q[k]
    BY <1>3 DEF Injective
  <1>5. key[q[j]] = c /\ key[q[k]] = c
    BY DEF ToSet
  <1> QED
    BY <1>4, <1>5

\* One list after another, whose elements all come later.
LEMMA ArrangedConcat ==
    ASSUME NEW A, NEW key \in [A -> Int], NEW p \in Seq(A), NEW q \in Seq(A), NEW X, NEW Y,
           Arranged(p, X, key), Arranged(q, Y, key), \A x \in X, y \in Y : key[x] < key[y]
    PROVE  p \o q \in Seq(A) /\ Arranged(p \o q, X \union Y, key)
  <1> DEFINE r == p \o q
             m == Len(p)
             n == Len(q)
  <1>1. /\ m \in Nat /\ n \in Nat /\ DOMAIN p = 1 .. m /\ DOMAIN q = 1 .. n
        /\ \A k \in 1 .. m : p[k] \in A
        /\ \A k \in 1 .. n : q[k] \in A
    OBVIOUS
  <1>2. /\ r \in Seq(A) /\ Len(r) = m + n
        /\ \A k \in 1 .. m + n : r[k] = IF k <= m THEN p[k] ELSE q[k - m]
    BY ConcatProperties
  <1>3. DOMAIN r = 1 .. m + n
    BY <1>1, <1>2
  <1> HIDE DEF r, m, n
  <1>4. /\ \A k \in 1 .. m : k \in 1 .. m + n /\ r[k] = p[k]
        /\ \A k \in 1 .. n : m + k \in 1 .. m + n /\ r[m + k] = q[k]
    BY <1>1, <1>2
  <1>5. ASSUME NEW k \in 1 .. m + n
        PROVE  \/ k \in 1 .. m /\ r[k] = p[k]
               \/ k - m \in 1 .. n /\ k > m /\ r[k] = q[k - m]
    BY <1>1, <1>2
  <1>6. ToSet(r) = X \union Y
    <2>1. ASSUME NEW x \in ToSet(r) PROVE x \in X \union Y
      <3>1. PICK k \in 1 .. m + n : x = r[k]
        BY <1>3 DEF ToSet
      <3> QED
        BY <1>1, <1>5, <3>1 DEF Arranged, ToSet
    <2>2. ASSUME NEW x \in X PROVE x \in ToSet(r)
      <3>1. PICK k \in 1 .. m : x = p[k]
        BY <1>1 DEF Arranged, ToSet
      <3> QED
        BY <1>3, <1>4, <3>1 DEF ToSet
    <2>3. ASSUME NEW x \in Y PROVE x \in ToSet(r)
      <3>1. PICK k \in 1 .. n : x = q[k]
        BY <1>1 DEF Arranged, ToSet
      <3> QED
        BY <1>3, <1>4, <3>1 DEF ToSet
    <2> QED
      BY <2>1, <2>2, <2>3
  <1>7. ASSUME NEW j \in 1 .. m + n, NEW k \in 1 .. m + n, j < k
        PROVE  r[j] # r[k] /\ key[r[j]] <= key[r[k]]
    <2>1. CASE j \in 1 .. m /\ k \in 1 .. m
      BY <1>1, <1>4, <1>7, <2>1 DEF Arranged
    <2>2. CASE j \in 1 .. m /\ k - m \in 1 .. n /\ r[k] = q[k - m]
      <3>1. p[j] \in X /\ q[k - m] \in Y /\ p[j] \in A /\ q[k - m] \in A
        BY <1>1, <2>2 DEF Arranged, ToSet
      <3>2. key[p[j]] < key[q[k - m]] /\ key[p[j]] \in Int /\ key[q[k - m]] \in Int
        BY <3>1
      <3>3. p[j] # q[k - m] /\ key[p[j]] <= key[q[k - m]]
        BY <3>2
      <3> QED
        BY <1>4, <2>2, <3>3
    <2>3. CASE j - m \in 1 .. n /\ k - m \in 1 .. n /\ r[j] = q[j - m] /\ r[k] = q[k - m]
      <3>1. j - m < k - m
        BY <1>1, <1>7
      <3> QED
        BY <1>1, <2>3, <3>1 DEF Arranged
    <2>4. j > m => k > m
      BY <1>1, <1>7
    <2> QED
      BY <1>1, <1>5, <2>1, <2>2, <2>3, <2>4
  <1> QED
    BY <1>2, <1>3, <1>6, <1>7 DEF Arranged, r

\* f has what the loop has collected once it is done with each list.
FlattenedUpTo(seqs, N, f) ==
    /\ f[1] = seqs[1]
    /\ \A n \in 2 .. N : f[n] = f[n - 1] \o seqs[n]

\* There is such a function, and FlattenSeq() of the community modules takes
\* its last value.
LEMMA FlattenLoop ==
    ASSUME NEW A, NEW N \in Nat \ {0}, NEW seqs \in [1 .. N -> Seq(A)]
    PROVE  \E f : FlattenedUpTo(seqs, N, f) /\ FlattenSeq(seqs) = f[N]
  <1> DEFINE Loop(f) == f = [i \in 1 .. N |-> IF i = 1 THEN seqs[i] ELSE f[i - 1] \o seqs[i]]
             step == [x \in Seq(A) \X (1 .. N) |-> x[1] \o seqs[x[2]]]
             chosen == CHOOSE f : Loop(f)
  <1>1. N \in Nat /\ 1 \in 1 .. N /\ \A n \in 1 .. N : seqs[n] \in Seq(A)
    OBVIOUS
  <1>2. step \in [Seq(A) \X (1 .. N) -> Seq(A)]
    BY <1>1
  <1>3. << >> \in Seq(A)
    OBVIOUS
  <1>4. ASSUME NEW s \in Seq(A), NEW n \in 1 .. N
        PROVE  step[<<s, n>>] = s \o seqs[n]
    OBVIOUS
  <1>5. Len(seqs) = N
    BY <1>1
  <1> HIDE DEF step, Loop
  <1>6. PICK g \in [0 .. N -> Seq(A)] :
          g[0] = << >> /\ \A n \in 1 .. N : g[n] = step[<<g[n - 1], n>>]
    <2> DEFINE B == Seq(A)
    <2>1. step \in [B \X (1 .. N) -> B] /\ << >> \in B
      BY <1>2, <1>3
    <2> HIDE DEF B
    <2>2. \E g : IsRecursive(g, N, B, << >>, step)
      BY <1>1, <2>1, RecursionUpTo
    <2> QED
      BY <2>2 DEF B, IsRecursive
  <1> DEFINE h == [i \in 1 .. N |-> g[i]]
  <1>7. Loop(h)
    <2> DEFINE Value(i) == IF i = 1 THEN seqs[i] ELSE h[i - 1] \o seqs[i]
    <2>1. ASSUME NEW i \in 1 .. N PROVE g[i] = Value(i)
      <3>1. i - 1 \in 0 .. N /\ g[i - 1] \in Seq(A)
        BY <1>1
      <3>2. g[i] = g[i - 1] \o seqs[i]
        BY <1>4, <1>6, <3>1, Zenon
      <3>3. CASE i = 1
        <4>1. g[i - 1] = << >>
          BY <1>6, <3>3
        <4>2. << >> \o seqs[i] = seqs[i]
          BY <1>1, ConcatEmptySeq
        <4> QED
          BY <3>2, <3>3, <4>1, <4>2
      <3>4. CASE i # 1
        <4>1. i - 1 \in 1 .. N
          BY <1>1, <3>4
        <4>2. h[i - 1] = g[i - 1]
          BY <4>1
        <4> QED
          BY <3>2, <3>4, <4>2
      <3> QED
        BY <3>3, <3>4
    <2> HIDE DEF Value
    <2>2. h = [i \in 1 .. N |-> Value(i)]
      BY <2>1
    <2> HIDE DEF h
    <2> QED
      BY <2>2, Zenon DEF Loop, Value
  <1> HIDE DEF h
  <1>8. Loop(chosen)
    BY <1>7
  <1>9. FlattenedUpTo(seqs, N, chosen)
    <2> HIDE DEF chosen
    <2>1. chosen[1] = seqs[1]
      BY <1>1, <1>8 DEF Loop
    <2>2. ASSUME NEW n \in 2 .. N PROVE chosen[n] = chosen[n - 1] \o seqs[n]
      <3>1. n \in 1 .. N /\ n # 1
        BY <1>1
      <3> QED
        BY <1>8, <3>1 DEF Loop
    <2> QED
      BY <2>1, <2>2 DEF FlattenedUpTo
  <1>10. FlattenSeq(seqs) = chosen[N]
    BY <1>1, <1>5 DEF FlattenSeq, Loop
  <1> QED
    BY <1>9, <1>10

\* Lists whose elements have the key of their list, one after the other.
LEMMA FlattenArranged ==
    ASSUME NEW A, NEW N \in Nat \ {0}, NEW seqs \in [1 .. N -> Seq(A)],
           NEW key \in [A -> Int], NEW base \in Int,
           \A n \in 1 .. N : /\ Injective(seqs[n])
                             /\ \A x \in ToSet(seqs[n]) : key[x] = base + n
    PROVE  /\ FlattenSeq(seqs) \in Seq(A)
           /\ Arranged(FlattenSeq(seqs), UNION {ToSet(seqs[n]) : n \in 1 .. N}, key)
  <1>1. PICK f : FlattenedUpTo(seqs, N, f) /\ FlattenSeq(seqs) = f[N]
    BY FlattenLoop
  <1> DEFINE X(n) == UNION {ToSet(seqs[k]) : k \in 1 .. n}
             T == {n \in 0 .. N : n # 0 => f[n] \in Seq(A) /\ Arranged(f[n], X(n), key)}
  <1>2. 0 \in T
    OBVIOUS
  <1>3. ASSUME NEW n \in 1 .. N, n - 1 \in T PROVE n \in T
    <2>1. /\ seqs[n] \in Seq(A) /\ Injective(seqs[n]) /\ base + n \in Int
          /\ \A x \in ToSet(seqs[n]) : key[x] = base + n
      OBVIOUS
    <2>2. Arranged(seqs[n], ToSet(seqs[n]), key)
      BY <2>1, InjectiveArranged
    <2>3. CASE n = 1
      <3>1. X(1) = ToSet(seqs[1])
        OBVIOUS
      <3>2. f[n] = seqs[1]
        BY <1>1, <2>3 DEF FlattenedUpTo
      <3> HIDE DEF X
      <3> QED
        BY <2>1, <2>2, <2>3, <3>1, <3>2
    <2>4. CASE n # 1
      <3>1. /\ n \in 2 .. N /\ n - 1 # 0
            /\ \A k \in 1 .. n : k \in 1 .. n - 1 \/ k = n
            /\ \A k \in 1 .. n - 1 : k \in 1 .. n /\ k \in 1 .. N /\ k < n
        BY <2>4
      <3>2. X(n) = X(n - 1) \union ToSet(seqs[n])
        <4>1. ASSUME NEW x \in X(n) PROVE x \in X(n - 1) \union ToSet(seqs[n])
          <5>1. PICK k \in 1 .. n : x \in ToSet(seqs[k])
            OBVIOUS
          <5> QED
            BY <3>1, <5>1
        <4>2. ASSUME NEW x \in X(n - 1) PROVE x \in X(n)
          <5>1. PICK k \in 1 .. n - 1 : x \in ToSet(seqs[k])
            OBVIOUS
          <5> QED
            BY <3>1, <5>1
        <4>3. n \in 1 .. n
          OBVIOUS
        <4>4. ToSet(seqs[n]) \subseteq X(n)
          BY <4>3
        <4> HIDE DEF X
        <4> QED
          BY <4>1, <4>2, <4>4
      <3>3. f[n - 1] \in Seq(A) /\ Arranged(f[n - 1], X(n - 1), key)
        BY <1>3, <3>1
      <3>4. f[n] = f[n - 1] \o seqs[n]
        BY <1>1, <3>1 DEF FlattenedUpTo
      <3>5. ASSUME NEW x \in X(n - 1), NEW y \in ToSet(seqs[n]) PROVE key[x] < key[y]
        <4>1. PICK k \in 1 .. n - 1 : x \in ToSet(seqs[k])
          OBVIOUS
        <4>2. k \in 1 .. N /\ k < n /\ k \in Int
          BY <3>1
        <4>3. key[x] = base + k /\ key[y] = base + n
          BY <2>1, <4>1, <4>2
        <4> QED
          BY <4>2, <4>3
      <3> HIDE DEF X
      <3>6. f[n] \in Seq(A) /\ Arranged(f[n], X(n), key)
        <4> DEFINE p == f[n - 1]
                   q == seqs[n]
                   Y == X(n - 1)
        <4>1. /\ p \in Seq(A) /\ q \in Seq(A) /\ Arranged(p, Y, key)
              /\ Arranged(q, ToSet(q), key) /\ \A x \in Y, y \in ToSet(q) : key[x] < key[y]
          BY <2>1, <2>2, <3>3, <3>5
        <4> HIDE DEF p, q, Y
        <4>2. p \o q \in Seq(A) /\ Arranged(p \o q, Y \union ToSet(q), key)
          BY <4>1, ArrangedConcat
        <4> QED
          BY <3>2, <3>4, <4>2, Zenon DEF p, q, Y
      <3> QED
        BY <3>6
    <2> QED
      BY <2>3, <2>4
  <1> HIDE DEF T
  <1>4. N \in T
    <2>1. 0 .. N \subseteq T
      BY <1>2, <1>3, InductionUpTo
    <2> QED
      BY <2>1
  <1> QED
    BY <1>1, <1>4 DEF T

\* The first elements are the ones with the smallest keys.
LEMMA FirstOfArranged ==
    ASSUME NEW A, NEW key \in [A -> Int], NEW q \in Seq(A), NEW X, NEW n \in Nat,
           Arranged(q, X, key)
    PROVE  LET r == FirstOf(q, n)
           IN  /\ r \in Seq(A) /\ Len(r) <= n
               /\ Arranged(r, ToSet(r), key)
               /\ ToSet(r) \subseteq X
               /\ \A x \in ToSet(r), y \in X \ ToSet(r) : key[x] <= key[y]
               /\ Len(r) = n \/ ToSet(r) = X
               /\ r = << >> <=> n = 0 \/ X = {}
  <1> DEFINE r == FirstOf(q, n)
  <1>1. /\ Len(q) \in Nat /\ DOMAIN q = 1 .. Len(q)
        /\ r \in Seq(A) /\ Len(r) = IF n < Len(q) THEN n ELSE Len(q)
        /\ \A k \in 1 .. Len(r) : k \in 1 .. Len(q) /\ r[k] = q[k]
        /\ ToSet(r) \subseteq ToSet(q)
    BY FirstOfElements
  <1> HIDE DEF r
  <1>2. Len(r) \in Nat /\ DOMAIN r = 1 .. Len(r) /\ Len(r) <= n /\ Len(r) <= Len(q)
    BY <1>1
  <1>3. Arranged(r, ToSet(r), key)
    BY <1>1, <1>2 DEF Arranged
  <1>4. ASSUME NEW x \in ToSet(r), NEW y \in X \ ToSet(r) PROVE key[x] <= key[y]
    <2>1. PICK j \in 1 .. Len(r) : x = r[j]
      BY <1>2 DEF ToSet
    <2>2. PICK k \in 1 .. Len(q) : y = q[k]
      BY <1>1 DEF Arranged, ToSet
    <2>3. k \notin 1 .. Len(r)
      BY <1>1, <1>2, <2>2 DEF ToSet
    <2>4. j < k
      BY <1>1, <1>2, <2>3
    <2> QED
      BY <1>1, <2>1, <2>2, <2>4 DEF Arranged
  <1>5. Len(r) = n \/ ToSet(r) = X
    <2>1. SUFFICES ASSUME Len(r) # n PROVE ToSet(r) = X
      OBVIOUS
    <2>2. Len(r) = Len(q)
      BY <1>1, <2>1
    <2>3. ToSet(r) = ToSet(q)
      BY <1>1, <1>2, <2>2 DEF ToSet
    <2> QED
      BY <2>3 DEF Arranged
  <1>6. r = << >> <=> n = 0 \/ X = {}
    <2>1. r = << >> <=> Len(r) = 0
      BY <1>1
    <2>2. X = {} <=> Len(q) = 0
      <3>1. X = {q[k] : k \in 1 .. Len(q)}
        BY <1>1 DEF Arranged, ToSet
      <3>2. Len(q) # 0 => 1 \in 1 .. Len(q)
        BY <1>1
      <3>3. Len(q) = 0 => 1 .. Len(q) = {}
        BY <1>1
      <3> QED
        BY <3>1, <3>2, <3>3
    <2> QED
      BY <1>1, <2>1, <2>2
  <1> QED
    BY <1>1, <1>2, <1>3, <1>4, <1>5, <1>6 DEF Arranged, r

-----------------------------------------------------------------------------
(***************************************************************************)
(* Elements that move between lists.                                       *)
(***************************************************************************)

\* Each element is at most once in the lists, in the one that is its home.
AtHome(lists, L, S, home) ==
    /\ lists \in [L -> Seq(S)]
    /\ \A l \in L : Injective(lists[l]) /\ \A x \in ToSet(lists[l]) : l = home[x]

\* x leaves the list it is in, if any, for the tail of "to", which is its home now.
MovedBetween(lists, L, x, to) ==
    [l \in L |-> IF l = to THEN Append(Removed(lists[l], x), x) ELSE Removed(lists[l], x)]

\* Nobody else changes home.
NewHomes(new, home, S, x, to) == \A y \in S : new[y] = IF y = x THEN to ELSE home[y]

\* Who is in some list.
AllOf(lists, L) == UNION {ToSet(lists[l]) : l \in L}

\* x is in some list now, and nobody left them.
Gain(after, before, L, x) == AllOf(after, L) = AllOf(before, L) \union {x}

\* Everybody is at home after that, and nobody is lost.
LEMMA MovedAtHome ==
    ASSUME NEW S, NEW L, NEW lists, NEW home, NEW new,
           AtHome(lists, L, S, home), NEW x \in S, NEW to \in L,
           NewHomes(new, home, S, x, to)
    PROVE  /\ AtHome(MovedBetween(lists, L, x, to), L, S, new)
           /\ Gain(MovedBetween(lists, L, x, to), lists, L, x)
  <1> DEFINE moved == MovedBetween(lists, L, x, to)
  <1>1. ASSUME NEW l \in L
        PROVE  /\ moved[l] \in Seq(S) /\ Injective(moved[l])
               /\ ToSet(moved[l]) = (ToSet(lists[l]) \ {x}) \union (IF l = to THEN {x} ELSE {})
    <2>1. lists[l] \in Seq(S) /\ Injective(lists[l])
      BY DEF AtHome
    <2>2. /\ Removed(lists[l], x) \in Seq(S)
          /\ ToSet(Removed(lists[l], x)) = ToSet(lists[l]) \ {x}
          /\ Injective(Removed(lists[l], x))
      BY <2>1, RemovedElements
    <2>3. CASE l = to
      <3>1. moved[l] = Append(Removed(lists[l], x), x)
        BY <2>3 DEF MovedBetween
      <3> QED
        BY <2>2, <2>3, <3>1, AppendElements
    <2>4. CASE l # to
      <3>1. moved[l] = Removed(lists[l], x)
        BY <2>4 DEF MovedBetween
      <3> QED
        BY <2>2, <2>4, <3>1
    <2> QED
      BY <2>3, <2>4
  <1>2. moved \in [L -> Seq(S)]
    BY <1>1 DEF MovedBetween
  <1>3. AtHome(moved, L, S, new)
    <2>1. ASSUME NEW l \in L, NEW y \in ToSet(moved[l])
          PROVE  l = new[y]
      <3>0. \A z \in S : new[z] = IF z = x THEN to ELSE home[z]
        BY DEF NewHomes
      <3>1. CASE y = x
        BY <1>1, <2>1, <3>0, <3>1
      <3>2. CASE y # x
        <4>1. y \in ToSet(lists[l])
          BY <1>1, <2>1, <3>2
        <4>2. y \in S
          BY <4>1 DEF ToSet, AtHome
        <4>3. l = home[y]
          BY <4>1 DEF AtHome
        <4> QED
          BY <3>0, <3>2, <4>2, <4>3
      <3> QED
        BY <3>1, <3>2
    <2> HIDE DEF moved
    <2> QED
      BY <1>1, <1>2, <2>1 DEF AtHome
  <1> HIDE DEF moved
  <1>4. AllOf(moved, L) = AllOf(lists, L) \union {x}
    <2>1. ASSUME NEW y \in AllOf(moved, L) PROVE y \in AllOf(lists, L) \union {x}
      BY <1>1, <2>1 DEF AllOf
    <2>2. ASSUME NEW y \in AllOf(lists, L), y # x PROVE y \in AllOf(moved, L)
      <3>1. PICK l \in L : y \in ToSet(lists[l])
        BY <2>2 DEF AllOf
      <3>2. y \in ToSet(moved[l])
        BY <1>1, <2>2, <3>1
      <3> QED
        BY <3>2 DEF AllOf
    <2>3. x \in AllOf(moved, L)
      BY <1>1 DEF AllOf
    <2> QED
      BY <2>1, <2>2, <2>3
  <1> QED
    BY <1>3, <1>4 DEF moved, Gain
=============================================================================
