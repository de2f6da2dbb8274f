----------------------------- MODULE KeySlotProofs -----------------------------
(***************************************************************************)
(* KeySlot: crc16() computes the checksum of Redis Cluster, and a command  *)
(* of a cluster gets the slot of its key, for keys of any length and       *)
(* characters.                                                             *)
(***************************************************************************)
EXTENDS ClusterExecution, TailQueueProofs

\* The values of a uint16_t.
Words == SUBSET (0 .. 15)

-----------------------------------------------------------------------------
(***************************************************************************)
(* A step of the division.                                                 *)
(***************************************************************************)

\* The bits of a word after a step of the division: they have moved by one
\* place, and the divisor has been subtracted if the first one was 1.
LEMMA DivideBits ==
    ASSUME NEW r \in Words, NEW b
    PROVE  /\ Divide(r, b) \in Words
           /\ \A i \in 0 .. 15 :
                i \in Divide(r, b)
                  <=> ((i = 0 /\ b = 1) \/ i - 1 \in r) # (15 \in r /\ i \in {0, 5, 12})
  <1> DEFINE m == {i + 1 : i \in r} \union (IF b = 1 THEN {0} ELSE {})
  <1>1. \A i \in Int : i \in m <=> (i = 0 /\ b = 1) \/ i - 1 \in r
    BY DEF Words
  <1>2. m \subseteq 0 .. 16
    BY DEF Words
  <1>3. 16 \in m <=> 15 \in r
    BY <1>1
  <1>4. Divide(r, b) = IF 15 \in r THEN SymDiff(m, Divisor) ELSE m
    BY DEF Divide
  <1> HIDE DEF m
  <1>5. CASE 15 \in r
    <2>1. Divide(r, b) = (m \ Divisor) \union (Divisor \ m) /\ 16 \in m
      BY <1>3, <1>4, <1>5 DEF SymDiff
    <2>2. Divide(r, b) \in Words
      BY <1>2, <2>1 DEF Divisor, Words
    <2>3. ASSUME NEW i \in 0 .. 15
          PROVE  i \in Divide(r, b) <=> (i \in m) # (i \in {0, 5, 12})
      BY <2>1 DEF Divisor
    <2> QED
      BY <1>1, <1>5, <2>2, <2>3
  <1>6. CASE 15 \notin r
    <2>1. Divide(r, b) = m /\ 16 \notin m
      BY <1>3, <1>4, <1>6
    <2>2. Divide(r, b) \in Words
      BY <1>2, <2>1 DEF Words
    <2> QED
      BY <1>1, <1>6, <2>1, <2>2
  <1> QED
    BY <1>5, <1>6

\* Bits of a sum.
LEMMA SumBits ==
    ASSUME NEW r \in Words, NEW s \in Words
    PROVE  /\ SymDiff(r, s) \in Words
           /\ \A i : i \in SymDiff(r, s) <=> (i \in r) # (i \in s)
  BY DEF Words, SymDiff

\* Words with the same bits are equal.
LEMMA SameBits ==
    ASSUME NEW r \in Words, NEW s \in Words, \A i \in 0 .. 15 : i \in r <=> i \in s
    PROVE  r = s
  BY DEF Words

\* A step of the division is linear.
LEMMA DivideSum ==
    ASSUME NEW r \in Words, NEW s \in Words, NEW b, NEW c, NEW d,
           (d = 1) <=> ((b = 1) # (c = 1))
    PROVE  Divide(SymDiff(r, s), d) = SymDiff(Divide(r, b), Divide(s, c))
  <1> DEFINE x == Divide(SymDiff(r, s), d)
             y == SymDiff(Divide(r, b), Divide(s, c))
  <1>1. x \in Words /\ y \in Words
    BY DivideBits, SumBits
  <1>2. ASSUME NEW i \in 0 .. 15 PROVE i \in x <=> i \in y
    <2>1. i \in x <=> ((i = 0 /\ d = 1) \/ i - 1 \in SymDiff(r, s))
                        # (15 \in SymDiff(r, s) /\ i \in {0, 5, 12})
      BY SumBits, DivideBits
    <2>2. /\ i - 1 \in SymDiff(r, s) <=> (i - 1 \in r) # (i - 1 \in s)
          /\ 15 \in SymDiff(r, s) <=> (15 \in r) # (15 \in s)
      BY SumBits
    <2>3. i \in y <=> (i \in Divide(r, b)) # (i \in Divide(s, c))
      BY SumBits, DivideBits
    <2>4. /\ i \in Divide(r, b) <=> ((i = 0 /\ b = 1) \/ i - 1 \in r)
                                      # (15 \in r /\ i \in {0, 5, 12})
          /\ i \in Divide(s, c) <=> ((i = 0 /\ c = 1) \/ i - 1 \in s)
                                      # (15 \in s /\ i \in {0, 5, 12})
      BY DivideBits
    <2>5. i = 0 => i - 1 \notin r /\ i - 1 \notin s
      BY DEF Words
    <2> HIDE DEF x, y
    <2> QED
      BY <2>1, <2>2, <2>3, <2>4, <2>5
  <1> HIDE DEF x, y
  <1>3. x = y
    BY <1>1, <1>2, SameBits
  <1> QED
    BY <1>3 DEF x, y

-----------------------------------------------------------------------------
(***************************************************************************)
(* The division of a sequence of bits.                                     *)
(***************************************************************************)

\* f has the rests of the division, from "rest" on.
IsDivision(f, rest, bits) ==
    /\ f \in [0 .. Len(bits) -> Words]
    /\ f[0] = rest
    /\ \A n \in 1 .. Len(bits) : f[n] = Divide(f[n - 1], bits[n])

\* The loop of Division, as a function of all the words.
DivideAt(bits) == [x \in Words \X (1 .. Len(bits)) |-> Divide(x[1], bits[x[2]])]

\* A division is such a recursion.
LEMMA DivisionRecursive ==
    ASSUME NEW bits, Len(bits) \in Nat, NEW rest \in Words, NEW f
    PROVE  IsDivision(f, rest, bits)
             <=> IsRecursive(f, Len(bits), Words, rest, DivideAt(bits))
  <1>1. ASSUME NEW x \in Words, NEW n \in 1 .. Len(bits)
        PROVE  DivideAt(bits)[<<x, n>>] = Divide(x, bits[n])
    BY DEF DivideAt
  <1>2. \A n \in 1 .. Len(bits) : n - 1 \in 0 .. Len(bits)
    OBVIOUS
  <1>3. ASSUME f \in [0 .. Len(bits) -> Words]
        PROVE  \A n \in 1 .. Len(bits) :
                 Divide(f[n - 1], bits[n]) = DivideAt(bits)[<<f[n - 1], n>>]
    BY <1>1, <1>2, <1>3
  <1> QED
    BY <1>3, Zenon DEF IsDivision, IsRecursive

\* The rests of the division exist, are unique, and Division returns the last one.
LEMMA DivisionLoop ==
    ASSUME NEW bits, Len(bits) \in Nat, NEW rest \in Words
    PROVE  /\ \E f : IsDivision(f, rest, bits)
           /\ \A f : IsDivision(f, rest, bits) => Division(rest, bits) = f[Len(bits)]
           /\ Division(rest, bits) \in Words
  <1> DEFINE N == Len(bits)
             Loop(f) == f = [n \in 0 .. N |-> IF n = 0 THEN rest ELSE Divide(f[n - 1], bits[n])]
             chosen == CHOOSE f : Loop(f)
             step == DivideAt(bits)
  <1>1. step \in [Words \X (1 .. N) -> Words]
    BY DivideBits DEF DivideAt
  <1>2. Division(rest, bits) = chosen[N]
    BY Zenon DEF Division
  <1> HIDE DEF N, Loop, step
  <1>3. N \in Nat
    BY DEF N
  <1>4. PICK g : IsRecursive(g, N, Words, rest, step)
    <2> DEFINE B == Words
    <2>1. step \in [B \X (1 .. N) -> B] /\ rest \in B
      BY <1>1
    <2> HIDE DEF B
    <2>2. \E g : IsRecursive(g, N, B, rest, step)
      BY <1>3, <2>1, RecursionUpTo
    <2> QED
      BY <2>2 DEF B
  <1>5. IsDivision(g, rest, bits)
    BY <1>4, DivisionRecursive DEF N, step
  <1>6. Loop(g)
    <2> DEFINE Value(n) == IF n = 0 THEN rest ELSE Divide(g[n - 1], bits[n])
    <2>1. \A n \in 0 .. N : g[n] = Value(n)
      <3>1. \A n \in 0 .. N : n = 0 \/ n \in 1 .. N
        BY <1>3
      <3> QED
        BY <1>5, <3>1 DEF IsDivision, N
    <2> HIDE DEF Value
    <2>2. g = [n \in 0 .. N |-> Value(n)]
      BY <1>4, <2>1 DEF IsRecursive
    <2> QED
      BY <2>2 DEF Loop, Value
  <1>7. Loop(chosen)
    BY <1>6
  <1> HIDE DEF chosen
  <1>8. IsDivision(chosen, rest, bits)
    <2>1. \A n \in 0 .. N : chosen[n] = IF n = 0 THEN rest ELSE Divide(chosen[n - 1], bits[n])
      BY <1>7 DEF Loop
    <2> DEFINE T == {n \in 0 .. N : chosen[n] \in Words}
    <2>2. 0 \in T
      BY <1>3, <2>1
    <2>3. ASSUME NEW n \in 1 .. N, n - 1 \in T PROVE n \in T
      <3>1. n \in 0 .. N /\ n # 0
        OBVIOUS
      <3>2. chosen[n] = Divide(chosen[n - 1], bits[n])
        BY <2>1, <3>1
      <3> QED
        BY <2>3, <3>1, <3>2, DivideBits
    <2> HIDE DEF T
    <2>4. 0 .. N \subseteq T
      BY <1>3, <2>2, <2>3, InductionUpTo
    <2>5. \A n \in 0 .. N : chosen[n] \in Words
      BY <2>4 DEF T
    <2>6. chosen \in [0 .. N -> Words]
      <3> DEFINE Value(n) == IF n = 0 THEN rest ELSE Divide(chosen[n - 1], bits[n])
      <3>1. chosen = [n \in 0 .. N |-> Value(n)]
        BY <1>7 DEF Loop
      <3> HIDE DEF Value
      <3> QED
        BY <2>5, <3>1
    <2>7. 0 \in 0 .. N /\ \A n \in 1 .. N : n \in 0 .. N /\ n # 0
      BY <1>3
    <2> QED
      BY <2>1, <2>6, <2>7 DEF IsDivision, N
  <1>9. ASSUME NEW f, IsDivision(f, rest, bits) PROVE chosen[N] = f[N]
    <2>1. IsRecursive(f, N, Words, rest, step) /\ IsRecursive(chosen, N, Words, rest, step)
      BY <1>8, <1>9, DivisionRecursive DEF N, step
    <2> QED
      BY <1>3, <2>1, RecursionUnique
  <1>10. chosen[N] \in Words
    BY <1>3, <1>8 DEF IsDivision, N
  <1> QED
    BY <1>2, <1>5, <1>9, <1>10 DEF N

\* The elements of two sequences, one after the other.
LEMMA ConcatElements ==
    ASSUME NEW S, NEW t \in Seq(S), NEW u \in Seq(S)
    PROVE  /\ t \o u \in Seq(S)
           /\ Len(t) \in Nat /\ Len(u) \in Nat /\ Len(t \o u) = Len(t) + Len(u)
           /\ \A k \in 1 .. Len(t) : (t \o u)[k] = t[k]
           /\ \A k \in 1 .. Len(u) : (t \o u)[Len(t) + k] = u[k]
  BY ConcatProperties, LenProperties

\* The division of a sequence goes on with the rest of that of its beginning.
LEMMA DivisionConcat ==
    ASSUME NEW S, NEW t \in Seq(S), NEW u \in Seq(S), NEW rest \in Words
    PROVE  Division(rest, t \o u) = Division(Division(rest, t), u)
  <1> DEFINE m == Len(t)
             n == Len(u)
             v == t \o u
  <1>1. /\ m \in Nat /\ n \in Nat /\ Len(v) = m + n
        /\ \A k \in 1 .. m : v[k] = t[k]
        /\ \A k \in 1 .. n : v[m + k] = u[k]
    BY ConcatElements
  <1>2. PICK f : IsDivision(f, rest, t)
    BY <1>1, DivisionLoop
  <1>3. f[m] = Division(rest, t) /\ f[m] \in Words
    BY <1>1, <1>2, DivisionLoop
  <1>4. PICK g : IsDivision(g, f[m], u)
    BY <1>1, <1>3, DivisionLoop
  <1>5. g[n] = Division(f[m], u)
    BY <1>1, <1>3, <1>4, DivisionLoop
  <1> DEFINE h == [k \in 0 .. m + n |-> IF k <= m THEN f[k] ELSE g[k - m]]
  <1> HIDE DEF m, n, v
  <1>6. /\ f \in [0 .. m -> Words] /\ f[0] = rest
        /\ \A k \in 1 .. m : f[k] = Divide(f[k - 1], t[k])
    BY <1>2 DEF IsDivision, m
  <1>7. /\ g \in [0 .. n -> Words] /\ g[0] = f[m]
        /\ \A k \in 1 .. n : g[k] = Divide(g[k - 1], u[k])
    BY <1>4 DEF IsDivision, n
  <1>8. h \in [0 .. m + n -> Words]
    <2>1. ASSUME NEW k \in 0 .. m + n PROVE h[k] \in Words
      <3>1. CASE k <= m
        BY <1>1, <1>6, <3>1
      <3>2. CASE ~(k <= m)
        <4>1. k - m \in 0 .. n
          BY <1>1, <3>2
        <4> QED
          BY <1>7, <3>2, <4>1
      <3> QED
        BY <3>1, <3>2
    <2> QED
      BY <2>1
  <1>9. (\A k \in 0 .. m : h[k] = f[k]) /\ (\A k \in 0 .. n : h[m + k] = g[k])
    <2>1. ASSUME NEW k \in 0 .. n PROVE h[m + k] = g[k]
      <3>1. CASE k = 0
        BY <1>1, <1>7, <3>1
      <3>2. CASE k # 0
        <4>1. m + k \in 0 .. m + n /\ ~(m + k <= m) /\ (m + k) - m = k
          BY <1>1, <3>2
        <4> QED
          BY <4>1
      <3> QED
        BY <3>1, <3>2
    <2>2. ASSUME NEW k \in 0 .. m PROVE h[k] = f[k]
      BY <1>1
    <2> QED
      BY <2>1, <2>2
  <1> HIDE DEF h
  <1>10. ASSUME NEW k \in 1 .. m + n PROVE h[k] = Divide(h[k - 1], v[k])
    <2>1. CASE k <= m
      <3>1. k \in 0 .. m /\ k \in 1 .. m /\ k - 1 \in 0 .. m
        BY <1>1, <2>1
      <3> QED
        BY <1>1, <1>6, <1>9, <3>1
    <2>2. CASE ~(k <= m)
      <3> DEFINE j == k - m
      <3>1. j \in 0 .. n /\ j \in 1 .. n /\ j - 1 \in 0 .. n /\ m + j = k /\ m + (j - 1) = k - 1
        BY <1>1, <2>2
      <3> HIDE DEF j
      <3>2. h[k] = g[j] /\ h[k - 1] = g[j - 1] /\ v[k] = u[j]
        BY <1>1, <1>9, <3>1
      <3> QED
        BY <1>7, <3>1, <3>2
    <2> QED
      BY <2>1, <2>2
  <1>11. h[0] = rest /\ h[m + n] = g[n]
    <2>1. 0 \in 0 .. m /\ n \in 0 .. n
      BY <1>1
    <2> QED
      BY <1>6, <1>9, <2>1
  <1>12. IsDivision(h, rest, v)
    BY <1>1, <1>8, <1>10, <1>11 DEF IsDivision
  <1>13. Division(rest, v) = h[m + n]
    <2>1. Len(v) \in Nat
      BY <1>1
    <2> QED
      BY <1>1, <1>12, <2>1, DivisionLoop
  <1> QED
    BY <1>3, <1>5, <1>11, <1>13 DEF v

\* The division is linear.
LEMMA DivisionSum ==
    ASSUME NEW r \in Words, NEW s \in Words, NEW t, NEW u, NEW v,
           Len(v) \in Nat, Len(t) = Len(v), Len(u) = Len(v),
           \A n \in 1 .. Len(v) : (v[n] = 1) <=> ((t[n] = 1) # (u[n] = 1))
    PROVE  Division(SymDiff(r, s), v) = SymDiff(Division(r, t), Division(s, u))
  <1> DEFINE N == Len(v)
  <1>1. PICK f : IsDivision(f, r, t)
    BY DivisionLoop
  <1>2. PICK g : IsDivision(g, s, u)
    BY DivisionLoop
  <1>3. f[N] = Division(r, t) /\ g[N] = Division(s, u)
    BY <1>1, <1>2, DivisionLoop
  <1> DEFINE h == [n \in 0 .. N |-> SymDiff(f[n], g[n])]
  <1>4. /\ f \in [0 .. N -> Words] /\ g \in [0 .. N -> Words] /\ f[0] = r /\ g[0] = s
        /\ \A n \in 1 .. N : f[n] = Divide(f[n - 1], t[n]) /\ g[n] = Divide(g[n - 1], u[n])
    BY <1>1, <1>2 DEF IsDivision
  <1>5. \A n \in 0 .. N : h[n] = SymDiff(f[n], g[n]) /\ h[n] \in Words
    BY <1>4, SumBits
  <1>6. h \in [0 .. N -> Words]
    BY <1>5
  <1> HIDE DEF h
  <1>7. ASSUME NEW n \in 1 .. N PROVE h[n] = Divide(h[n - 1], v[n])
    <2>1. n \in 0 .. N /\ n - 1 \in 0 .. N
      OBVIOUS
    <2>2. f[n - 1] \in Words /\ g[n - 1] \in Words
      BY <1>4, <2>1
    <2>3. Divide(SymDiff(f[n - 1], g[n - 1]), v[n])
            = SymDiff(Divide(f[n - 1], t[n]), Divide(g[n - 1], u[n]))
      BY <2>2, DivideSum
    <2> QED
      BY <1>4, <1>5, <2>1, <2>3
  <1>8. h[0] = SymDiff(r, s) /\ h[N] = SymDiff(f[N], g[N])
    BY <1>4, <1>5
  <1>9. IsDivision(h, SymDiff(r, s), v)
    BY <1>6, <1>7, <1>8 DEF IsDivision
  <1>10. Division(SymDiff(r, s), v) = h[N]
    BY <1>9, SumBits, DivisionLoop
  <1> QED
    BY <1>3, <1>8, <1>10

\* Bits that enter a word from the right, whose first bits are 0.
LEMMA DivisionShift ==
    ASSUME NEW N \in 0 .. 16, NEW t, Len(t) = N, NEW r \in Words,
           \A i \in r : i + N <= 15
    PROVE  /\ Division(r, t) \in Words
           /\ \A i \in 0 .. 15 : i \in Division(r, t) <=> (i < N /\ t[N - i] = 1) \/ i - N \in r
  <1> DEFINE Bit(n, i) == (i < n /\ t[n - i] = 1) \/ i - n \in r
             h == [n \in 0 .. N |-> {i \in 0 .. 15 : Bit(n, i)}]
  <1>1. \A n \in 0 .. N : h[n] \in Words /\ \A i \in 0 .. 15 : i \in h[n] <=> Bit(n, i)
    BY DEF Words
  <1>2. h \in [0 .. N -> Words]
    BY <1>1
  <1>3. h[0] = r
    <2>1. 0 \in 0 .. N
      OBVIOUS
    <2>2. \A i \in 0 .. 15 : i \in h[0] <=> i \in r
      BY <1>1, <2>1
    <2> QED
      BY <1>1, <2>1, <2>2, SameBits
  <1> HIDE DEF h
  <1>4. ASSUME NEW n \in 1 .. N PROVE h[n] = Divide(h[n - 1], t[n])
    <2>1. n \in 0 .. N /\ n - 1 \in 0 .. N
      OBVIOUS
    <2>2. 15 \notin h[n - 1]
      <3>1. ~(15 < n - 1)
        OBVIOUS
      <3>2. 15 - (n - 1) \notin r
        OBVIOUS
      <3> QED
        BY <1>1, <2>1, <3>1, <3>2
    <2> DEFINE w == h[n - 1]
               b == t[n]
    <2>0. w \in Words /\ h[n] \in Words
      BY <1>1, <2>1
    <2>3. ASSUME NEW i \in 0 .. 15 PROVE i \in h[n] <=> i \in Divide(h[n - 1], t[n])
      <3>1. i \in Divide(h[n - 1], t[n]) <=> (i = 0 /\ t[n] = 1) \/ i - 1 \in h[n - 1]
        <4>1. 15 \notin w
          BY <2>2
        <4> HIDE DEF w, b
        <4>2. i \in Divide(w, b) <=> (i = 0 /\ b = 1) \/ i - 1 \in w
          BY <2>0, <4>1, DivideBits
        <4> QED
          BY <4>2 DEF w, b
      <3>2. i \in h[n] <=> Bit(n, i)
        BY <1>1, <2>1
      <3>3. CASE i = 0
        <4>1. i - 1 \notin h[n - 1]
          BY <1>1, <2>1, <3>3 DEF Words
        <4>2. i - n \notin r
          BY <3>3 DEF Words
        <4> QED
          BY <3>1, <3>2, <3>3, <4>1, <4>2
      <3>4. CASE i # 0
        <4>1. i - 1 \in 0 .. 15 /\ (n - 1) - (i - 1) = n - i /\ (i - 1) - (n - 1) = i - n
              /\ (i - 1 < n - 1 <=> i < n)
          BY <3>4
        <4>2. i - 1 \in h[n - 1] <=> Bit(n - 1, i - 1)
          BY <1>1, <2>1, <4>1
        <4> QED
          BY <3>1, <3>2, <3>4, <4>1, <4>2
      <3> QED
        BY <3>3, <3>4
    <2> HIDE DEF w, b
    <2>4. Divide(w, b) \in Words
      BY <2>0, DivideBits
    <2>5. \A i \in 0 .. 15 : i \in h[n] <=> i \in Divide(w, b)
      BY <2>3 DEF w, b
    <2>6. h[n] = Divide(w, b)
      BY <2>0, <2>4, <2>5, SameBits
    <2> QED
      BY <2>6 DEF w, b
  <1>5. IsDivision(h, r, t)
    BY <1>2, <1>3, <1>4 DEF IsDivision
  <1>6. N \in Nat /\ N \in 0 .. N
    OBVIOUS
  <1>7. Division(r, t) = h[N]
    BY <1>5, <1>6, DivisionLoop
  <1> QED
    BY <1>1, <1>6, <1>7

-----------------------------------------------------------------------------
(***************************************************************************)
(* The table, and a step of crc16().                                       *)
(***************************************************************************)

\* The bits of a byte, and eight more zeros.
BitsOfByte(byte) == [i \in 1 .. 8 |-> IF 8 - i \in byte THEN 1 ELSE 0]
EightZeros == [i \in 1 .. 8 |-> 0]

\* The zeros that are divided after a message are bits.
LEMMA ZerosBits ==
    /\ Zeros \in Seq({0, 1}) /\ Len(Zeros) = 16 /\ \A i \in 1 .. 16 : Zeros[i] = 0
    /\ EightZeros \in Seq({0, 1}) /\ Len(EightZeros) = 8 /\ \A i \in 1 .. 8 : EightZeros[i] = 0
  BY DEF Zeros, EightZeros

\* So are those of a byte, the most significant first.
LEMMA ByteBits ==
    ASSUME NEW byte
    PROVE  /\ BitsOfByte(byte) \in Seq({0, 1}) /\ Len(BitsOfByte(byte)) = 8
           /\ \A i \in 1 .. 8 : BitsOfByte(byte)[i] = 1 <=> 8 - i \in byte
  BY DEF BitsOfByte

\* A sequence of zeros is given by its length.
LEMMA ZerosOnly ==
    ASSUME NEW t \in Seq({0, 1}), NEW u \in Seq({0, 1}), NEW v \in Seq({0, 1}),
           Len(v) = Len(t) + Len(u),
           \A i \in 1 .. Len(t) : t[i] = 0,
           \A i \in 1 .. Len(u) : u[i] = 0,
           \A i \in 1 .. Len(v) : v[i] = 0
    PROVE  t \o u = v
  <1> DEFINE w == t \o u
  <1>1. /\ w \in Seq({0, 1}) /\ Len(w) = Len(t) + Len(u) /\ Len(t) \in Nat /\ Len(u) \in Nat
        /\ \A i \in 1 .. Len(t) : w[i] = t[i]
        /\ \A i \in 1 .. Len(u) : w[Len(t) + i] = u[i]
    BY ConcatElements
  <1> HIDE DEF w
  <1>2. ASSUME NEW i \in 1 .. Len(w) PROVE w[i] = 0
    <2>1. CASE i <= Len(t)
      BY <1>1, <2>1
    <2>2. CASE ~(i <= Len(t))
      <3>1. i - Len(t) \in 1 .. Len(u) /\ Len(t) + (i - Len(t)) = i
        BY <1>1, <2>2
      <3> QED
        BY <1>1, <3>1
    <2> QED
      BY <2>1, <2>2
  <1>3. \A i \in 1 .. Len(w) : w[i] = v[i]
    BY <1>1, <1>2
  <1>4. w = v
    BY <1>1, <1>3, SeqEqual
  <1> QED
    BY <1>4 DEF w

\* Zeros may be divided in any order.
LEMMA ZerosConcat ==
    /\ EightZeros \o EightZeros = Zeros
    /\ EightZeros \o Zeros = Zeros \o EightZeros
  <1> DEFINE more == [i \in 1 .. 24 |-> 0]
  <1>1. more \in Seq({0, 1}) /\ Len(more) = 24 /\ \A i \in 1 .. Len(more) : more[i] = 0
    OBVIOUS
  <1> HIDE DEF more
  <1>2. /\ \A i \in 1 .. Len(Zeros) : Zeros[i] = 0
        /\ \A i \in 1 .. Len(EightZeros) : EightZeros[i] = 0
        /\ Len(EightZeros) + Len(Zeros) = 24 /\ Len(Zeros) + Len(EightZeros) = 24
        /\ Len(EightZeros) + Len(EightZeros) = Len(Zeros)
        /\ Zeros \in Seq({0, 1}) /\ EightZeros \in Seq({0, 1})
    BY ZerosBits
  <1>6. Len(more) = Len(EightZeros) + Len(Zeros) /\ Len(more) = Len(Zeros) + Len(EightZeros)
    BY <1>1, <1>2
  <1>3. EightZeros \o Zeros = more
    BY <1>1, <1>2, <1>6, ZerosOnly, Zenon
  <1>4. Zeros \o EightZeros = more
    BY <1>1, <1>2, <1>6, ZerosOnly, Zenon
  <1>5. EightZeros \o EightZeros = Zeros
    BY <1>2, ZerosOnly, Zenon
  <1> QED
    BY <1>3, <1>4, <1>5

\* The rest of a byte is a word.
LEMMA RestOfByte ==
    ASSUME NEW byte
    PROVE  Division({}, BitsOfByte(byte)) \in Words
  <1>1. {} \in Words
    BY DEF Words
  <1>2. Len(BitsOfByte(byte)) \in Nat
    BY ByteBits
  <1> QED
    BY <1>1, <1>2, DivisionLoop

\* An entry of the table is the rest of its byte followed by zeros.
LEMMA EntryIsRest ==
    ASSUME NEW byte \in SUBSET (0 .. 7)
    PROVE  /\ Entry(byte) = Division(Division({}, BitsOfByte(byte)), Zeros)
           /\ Entry(byte) \in Words
  <1>1. Entry(byte) = Division({}, BitsOfByte(byte) \o Zeros)
    BY TableAssumption DEF Remainder, BitsOfByte
  <1>2. {} \in Words
    BY DEF Words
  <1>3. Division({}, BitsOfByte(byte) \o Zeros) = Division(Division({}, BitsOfByte(byte)), Zeros)
    <2>1. BitsOfByte(byte) \in Seq({0, 1}) /\ Zeros \in Seq({0, 1})
      BY ByteBits, ZerosBits
    <2> QED
      BY <1>2, <2>1, DivisionConcat, Zenon
  <1>4. Entry(byte) \in Words
    BY DEF Entry, Word, Words
  <1> QED
    BY <1>1, <1>3, <1>4

\* The table is linear.
LEMMA EntrySum ==
    ASSUME NEW a \in SUBSET (0 .. 7), NEW b \in SUBSET (0 .. 7)
    PROVE  Entry(SymDiff(a, b)) = SymDiff(Entry(a), Entry(b))
  <1> DEFINE s == SymDiff(a, b)
             Rest(byte) == Division({}, BitsOfByte(byte))
  <1>1. s \in SUBSET (0 .. 7) /\ \A i : i \in s <=> (i \in a) # (i \in b)
    BY DEF SymDiff
  <1>2. {} \in Words /\ SymDiff({}, {}) = {}
    BY DEF Words, SymDiff
  <1> HIDE DEF s
  <1>3. Rest(s) = SymDiff(Rest(a), Rest(b)) /\ Rest(a) \in Words /\ Rest(b) \in Words
    <2>1. \A n \in 1 .. 8 : (BitsOfByte(s)[n] = 1)
                              <=> ((BitsOfByte(a)[n] = 1) # (BitsOfByte(b)[n] = 1))
      <3> SUFFICES ASSUME NEW n \in 1 .. 8
                   PROVE  (BitsOfByte(s)[n] = 1)
                            <=> ((BitsOfByte(a)[n] = 1) # (BitsOfByte(b)[n] = 1))
        OBVIOUS
      <3>1. BitsOfByte(s)[n] = 1 <=> 8 - n \in s
        BY ByteBits, Zenon
      <3>2. BitsOfByte(a)[n] = 1 <=> 8 - n \in a
        BY ByteBits, Zenon
      <3>3. BitsOfByte(b)[n] = 1 <=> 8 - n \in b
        BY ByteBits, Zenon
      <3>4. 8 - n \in s <=> (8 - n \in a) # (8 - n \in b)
        BY <1>1
      <3> QED
        BY <3>1, <3>2, <3>3, <3>4
    <2>2. Division(SymDiff({}, {}), BitsOfByte(s)) = SymDiff(Rest(a), Rest(b))
      <3> DEFINE t == BitsOfByte(a)
                 u == BitsOfByte(b)
                 v == BitsOfByte(s)
      <3>1. Len(t) = 8 /\ Len(u) = 8 /\ Len(v) = 8
        BY ZerosBits, ByteBits
      <3>2. \A n \in 1 .. Len(v) : (v[n] = 1) <=> ((t[n] = 1) # (u[n] = 1))
        BY <2>1, <3>1
      <3> HIDE DEF t, u, v
      <3>3. Division(SymDiff({}, {}), v) = SymDiff(Division({}, t), Division({}, u))
        BY <1>2, <3>1, <3>2, DivisionSum
      <3> QED
        BY <3>3 DEF t, u, v
    <2>3. Rest(a) \in Words /\ Rest(b) \in Words
      BY RestOfByte
    <2> QED
      BY <1>2, <2>2, <2>3
  <1> HIDE DEF Rest
  <1>4. Division(SymDiff(Rest(a), Rest(b)), Zeros)
          = SymDiff(Division(Rest(a), Zeros), Division(Rest(b), Zeros))
    <2>1. Len(Zeros) = 16 /\ \A n \in 1 .. Len(Zeros) :
            (Zeros[n] = 1) <=> ((Zeros[n] = 1) # (Zeros[n] = 1))
      BY ZerosBits, ByteBits
    <2> QED
      BY <1>3, <2>1, DivisionSum
  <1>5. /\ Entry(s) = Division(Rest(s), Zeros)
        /\ Entry(a) = Division(Rest(a), Zeros)
        /\ Entry(b) = Division(Rest(b), Zeros)
    BY <1>1, EntryIsRest DEF Rest
  <1> QED
    BY <1>3, <1>4, <1>5 DEF s

\* Eight more zeros: the last byte of a word moves, and the first one is
\* replaced by its entry of the table.
LEMMA EightZerosMore ==
    ASSUME NEW c \in Words
    PROVE  Division(c, EightZeros) = SymDiff(ShiftedLeft(c), Entry(ShiftedRight(c)))
  <1> DEFINE low == {i \in c : i <= 7}
             high == {i \in c : i >= 8}
             byte == ShiftedRight(c)
  <1>1. low \in Words /\ high \in Words /\ c = SymDiff(low, high)
    <2>1. c \subseteq 0 .. 15
      BY DEF Words
    <2>2. ASSUME NEW i PROVE i \in c <=> (i \in low) # (i \in high)
      <3>1. CASE i \in c
        <4>1. i \in Int /\ ((i <= 7) # (i >= 8))
          BY <2>1, <3>1
        <4> QED
          BY <3>1, <4>1
      <3> QED
        BY <3>1
    <2>3. low \in Words /\ high \in Words
      BY <2>1 DEF Words
    <2> HIDE DEF low, high
    <2> QED
      BY <2>2, <2>3 DEF SymDiff
  <1>2. byte \in SUBSET (0 .. 7) /\ ShiftedLeft(c) \in Words
    BY DEF ShiftedLeft, ShiftedRight, Words
  <1>3. Division(low, EightZeros) = ShiftedLeft(c)
    <2> DEFINE w == Division(low, EightZeros)
    <2>1. \A i \in low : i + 8 <= 15
      BY DEF Words
    <2>2. w \in Words /\ \A i \in 0 .. 15 :
            i \in w <=> (i < 8 /\ EightZeros[8 - i] = 1) \/ i - 8 \in low
      <3> HIDE DEF low
      <3>1. Len(EightZeros) = 8 /\ 8 \in 0 .. 16
        BY ZerosBits
      <3> QED
        BY <1>1, <2>1, <3>1, DivisionShift, Zenon
    <2>3. ASSUME NEW i \in 0 .. 15 PROVE i \in w <=> i \in ShiftedLeft(c)
      <3>1. i < 8 => EightZeros[8 - i] = 0
        BY ZerosBits, ByteBits
      <3>2. i - 8 \in low <=> i >= 8 /\ i - 8 \in c
        BY DEF Words
      <3> HIDE DEF w, low
      <3> QED
        BY <2>2, <3>1, <3>2 DEF ShiftedLeft
    <2> HIDE DEF w
    <2>4. w = ShiftedLeft(c)
      BY <1>2, <2>2, <2>3, SameBits
    <2> QED
      BY <2>4 DEF w
  <1>4. high = Division({}, BitsOfByte(byte) \o EightZeros)
    <2> DEFINE t == BitsOfByte(byte) \o EightZeros
               w == Division({}, t)
    <2>1. /\ Len(t) = 16
          /\ \A i \in 1 .. 8 : t[i] = BitsOfByte(byte)[i]
          /\ \A i \in 9 .. 16 : t[i] = 0
      <3> DEFINE u == BitsOfByte(byte)
      <3>1. u \in Seq({0, 1}) /\ Len(u) = 8 /\ EightZeros \in Seq({0, 1}) /\ Len(EightZeros) = 8
        BY ByteBits, ZerosBits
      <3> HIDE DEF u
      <3> DEFINE z == EightZeros
      <3> HIDE DEF z
      <3>4. z \in Seq({0, 1}) /\ Len(z) = 8
        BY <3>1 DEF z
      <3>2. /\ Len(u \o z) = Len(u) + Len(z)
            /\ \A i \in 1 .. Len(u) : (u \o z)[i] = u[i]
            /\ \A i \in 1 .. Len(z) : (u \o z)[Len(u) + i] = z[i]
        <4> DEFINE B == {0, 1}
        <4>1. u \in Seq(B) /\ z \in Seq(B)
          BY <3>1, <3>4
        <4> HIDE DEF B
        <4> QED
          BY <4>1, ConcatElements
      <3>3. \A i \in 9 .. 16 : z[i - 8] = 0 /\ i - 8 \in 1 .. 8 /\ 8 + (i - 8) = i
        BY ZerosBits DEF z
      <3>5. t = u \o z
        BY DEF u, z
      <3> HIDE DEF t
      <3>6. /\ Len(t) = 16 /\ \A i \in 1 .. 8 : t[i] = u[i]
            /\ \A i \in 9 .. 16 : t[i] = 0
        BY <3>1, <3>2, <3>3, <3>4, <3>5
      <3> QED
        BY <3>6 DEF u
    <2> HIDE DEF t
    <2>2. w \in Words /\ \A i \in 0 .. 15 : i \in w <=> (i < 16 /\ t[16 - i] = 1) \/ i - 16 \in {}
      <3>1. {} \in Words /\ \A i \in {} : i + 16 <= 15
        BY DEF Words
      <3>2. Len(t) = 16 /\ 16 \in 0 .. 16
        BY <2>1
      <3> QED
        BY <3>1, <3>2, DivisionShift, Zenon
    <2>3. ASSUME NEW i \in 0 .. 15 PROVE i \in w <=> i \in high
      <3>1. i \in w <=> t[16 - i] = 1
        BY <2>2
      <3>2. CASE i <= 7
        BY <2>1, <3>1, <3>2
      <3>3. CASE i >= 8
        <4>1. 16 - i \in 1 .. 8 /\ 8 - (16 - i) = i - 8
          BY <3>3
        <4>2. t[16 - i] = 1 <=> i - 8 \in byte
          <5>1. BitsOfByte(byte)[16 - i] = 1 <=> 8 - (16 - i) \in byte
            BY <4>1, ByteBits, Zenon
          <5>2. t[16 - i] = BitsOfByte(byte)[16 - i]
            BY <2>1, <4>1
          <5> QED
            BY <4>1, <5>1, <5>2
        <4>3. i - 8 \in byte <=> i \in c
          BY <3>3 DEF ShiftedRight
        <4> QED
          BY <3>1, <3>3, <4>2, <4>3
      <3> QED
        BY <3>2, <3>3
    <2> HIDE DEF w, high
    <2>4. high = w
      BY <1>1, <2>2, <2>3, SameBits
    <2> QED
      BY <2>4 DEF w, t
  <1>5. Division(high, EightZeros) = Entry(byte)
    <2> DEFINE r == Division({}, BitsOfByte(byte))
    <2>1. {} \in Words /\ r \in Words
      BY RestOfByte DEF Words
    <2>2. high = Division(r, EightZeros)
      <3>1. EightZeros \in Seq({0, 1}) /\ BitsOfByte(byte) \in Seq({0, 1})
        BY ZerosBits, ByteBits, Zenon
      <3>2. Division({}, BitsOfByte(byte) \o EightZeros) = Division(r, EightZeros)
        BY <2>1, <3>1, DivisionConcat, Zenon
      <3> HIDE DEF r, high
      <3> QED
        BY <1>4, <3>2, Zenon
    <2>3. Entry(byte) = Division(r, Zeros)
      BY <1>2, EntryIsRest
    <2> HIDE DEF r
    <2>4. Division(r, EightZeros \o EightZeros) = Division(Division(r, EightZeros), EightZeros)
      BY <2>1, ZerosBits, ByteBits, DivisionConcat
    <2> QED
      BY <2>2, <2>3, <2>4, ZerosConcat
  <1>6. Division(SymDiff(low, high), EightZeros)
          = SymDiff(Division(low, EightZeros), Division(high, EightZeros))
    <2>1. Len(EightZeros) = 8 /\ \A n \in 1 .. Len(EightZeros) :
            (EightZeros[n] = 1) <=> ((EightZeros[n] = 1) # (EightZeros[n] = 1))
      BY ZerosBits, ByteBits
    <2> HIDE DEF low, high
    <2> QED
      BY <1>1, <2>1, DivisionSum
  <1> HIDE DEF low, high
  <1> QED
    BY <1>1, <1>3, <1>5, <1>6

\* One more char: crc16() goes on as the division does.
LEMMA OneMoreChar ==
    ASSUME NEW rest \in Words, NEW char, NEW bits,
           Len(bits) = 8, \A i \in 1 .. 8 : bits[i] = 1 <=> 8 - i \in Byte(char)
    PROVE  Division(Division(rest, bits), Zeros) = Crc16Step(Division(rest, Zeros), char)
  <1> DEFINE byte == Byte(char)
             r == Division(rest, EightZeros)
             s == Division({}, BitsOfByte(byte))
             c == Division(rest, Zeros)
  <1>1. byte \in SUBSET (0 .. 7)
    BY DEF Byte
  <1>2. {} \in Words /\ SymDiff(rest, {}) = rest
    BY DEF Words, SymDiff
  <1>3. r \in Words /\ s \in Words /\ c \in Words
    <2>1. Len(EightZeros) \in Nat /\ Len(Zeros) \in Nat
      BY ZerosBits
    <2> QED
      BY <2>1, RestOfByte, DivisionLoop, Zenon
  <1>4. Division(rest, bits) = SymDiff(r, s)
    <2> DEFINE t == EightZeros
               u == BitsOfByte(byte)
    <2>1. Len(t) = 8 /\ Len(u) = 8
          /\ \A n \in 1 .. Len(bits) : (bits[n] = 1) <=> ((t[n] = 1) # (u[n] = 1))
      <3>1. Len(t) = 8 /\ \A n \in 1 .. 8 : t[n] = 0
        BY ZerosBits, Zenon
      <3>2. Len(u) = 8 /\ \A n \in 1 .. 8 : u[n] = 1 <=> 8 - n \in byte
        BY ByteBits, Zenon
      <3> HIDE DEF t, u
      <3>3. ASSUME NEW n \in 1 .. 8
            PROVE  (bits[n] = 1) <=> ((t[n] = 1) # (u[n] = 1))
        <4>1. bits[n] = 1 <=> u[n] = 1
          BY <3>2, Zenon
        <4>2. t[n] # 1
          BY <3>1
        <4> QED
          BY <4>1, <4>2, Zenon
      <3> QED
        BY <3>1, <3>2, <3>3
    <2> HIDE DEF t, u
    <2>2. Division(SymDiff(rest, {}), bits) = SymDiff(Division(rest, t), Division({}, u))
      BY <1>2, <2>1, DivisionSum
    <2> QED
      BY <1>2, <2>2 DEF t, u
  <1>5. Division(SymDiff(r, s), Zeros) = SymDiff(Division(r, Zeros), Division(s, Zeros))
    <2>1. Len(Zeros) = 16 /\ \A n \in 1 .. Len(Zeros) :
            (Zeros[n] = 1) <=> ((Zeros[n] = 1) # (Zeros[n] = 1))
      BY ZerosBits, ByteBits
    <2> HIDE DEF r, s
    <2> QED
      BY <1>3, <2>1, DivisionSum
  <1>6. Division(s, Zeros) = Entry(byte)
    BY <1>1, EntryIsRest
  <1>7. Division(r, Zeros) = Division(c, EightZeros)
    <2>1. Division(rest, EightZeros \o Zeros) = Division(r, Zeros)
      BY ZerosBits, ByteBits, DivisionConcat
    <2>2. Division(rest, Zeros \o EightZeros) = Division(c, EightZeros)
      BY ZerosBits, ByteBits, DivisionConcat
    <2> QED
      BY <2>1, <2>2, ZerosConcat
  <1> HIDE DEF c, r, s, byte
  <1>8. Division(c, EightZeros) = SymDiff(ShiftedLeft(c), Entry(ShiftedRight(c)))
    BY <1>3, EightZerosMore
  <1>9. SymDiff(SymDiff(ShiftedLeft(c), Entry(ShiftedRight(c))), Entry(byte))
          = SymDiff(ShiftedLeft(c), SymDiff(Entry(ShiftedRight(c)), Entry(byte)))
    BY DEF SymDiff
  <1>10. SymDiff(Entry(ShiftedRight(c)), Entry(byte)) = Entry(SymDiff(ShiftedRight(c), byte))
    <2>1. ShiftedRight(c) \in SUBSET (0 .. 7)
      BY DEF ShiftedRight
    <2> QED
      BY <1>1, <2>1, EntrySum
  <1>11. Crc16Step(c, char) = SymDiff(ShiftedLeft(c), Entry(SymDiff(ShiftedRight(c), byte)))
    BY DEF Crc16Step, byte
  <1>12. Division(Division(rest, bits), Zeros) = Crc16Step(c, char)
    BY <1>4, <1>5, <1>6, <1>7, <1>8, <1>9, <1>10, <1>11
  <1> QED
    BY <1>12 DEF c

-----------------------------------------------------------------------------
(***************************************************************************)
(* crc16().                                                                *)
(***************************************************************************)

\* The bits of a char are those of its byte, also if it is negative.
LEMMA BitsOfChar ==
    ASSUME NEW char \in Int
    PROVE  /\ BitsOf(char) \in [1 .. 8 -> {0, 1}] /\ Len(BitsOf(char)) = 8
           /\ \A i \in 1 .. 8 : BitsOf(char)[i] = 1 <=> 8 - i \in Byte(char)
  <1>1. \A i \in 1 .. 8 : BitsOf(char)[i] = (char \div 2 ^ (8 - i)) % 2
    BY DEF BitsOf
  <1>2. \A k \in 0 .. 7 : (char \div 2 ^ k) % 2 \in {0, 1}
    OBVIOUS
  <1>3. \A i \in 1 .. 8 : 8 - i \in 0 .. 7
    OBVIOUS
  <1>4. \A i \in 1 .. 8 : BitsOf(char)[i] \in {0, 1}
    BY <1>1, <1>2, <1>3
  <1>5. BitsOf(char) \in [1 .. 8 -> {0, 1}]
    BY <1>4 DEF BitsOf
  <1>6. Len(BitsOf(char)) = 8
    BY DEF BitsOf
  <1>7. \A i \in 1 .. 8 : BitsOf(char)[i] = 1 <=> 8 - i \in Byte(char)
    BY <1>1, <1>3 DEF Byte
  <1> QED
    BY <1>5, <1>6, <1>7

\* The bits of a sequence are those of its chars, one after the other.
LEMMA BitsOfSequence ==
    ASSUME NEW buf \in Seq(Int)
    PROVE  /\ Bits(buf) \in Seq({0, 1}) /\ Len(Bits(buf)) = 8 * Len(buf)
           /\ \A m \in 1 .. Len(buf), k \in 1 .. 8 :
                Bits(buf)[8 * (m - 1) + k] = BitsOf(buf[m])[k]
  <1> DEFINE N == Len(buf)
             At(i) == ((i - 1) \div 8) + 1
             In(i) == ((i - 1) % 8) + 1
             Bit(i) == BitsOf(buf[At(i)])[In(i)]
  <1>1. N \in Nat /\ 8 * N \in Nat /\ \A m \in 1 .. N : buf[m] \in Int
    OBVIOUS
  <1>2. \A i \in 1 .. 8 * N : At(i) \in 1 .. N /\ In(i) \in 1 .. 8
    BY <1>1
  <1>3. ASSUME NEW i \in 1 .. 8 * N PROVE Bit(i) \in {0, 1}
    <2> DEFINE char == buf[At(i)]
    <2>1. char \in Int /\ In(i) \in 1 .. 8
      BY <1>1, <1>2
    <2> HIDE DEF char
    <2>2. BitsOf(char) \in [1 .. 8 -> {0, 1}]
      BY <2>1, BitsOfChar
    <2>3. BitsOf(char)[In(i)] \in {0, 1}
      BY <2>1, <2>2
    <2> QED
      BY <2>3 DEF char
  <1>4. Bits(buf) = [i \in 1 .. 8 * N |-> Bit(i)]
    BY DEF Bits
  <1>5. ASSUME NEW m \in 1 .. N, NEW k \in 1 .. 8
        PROVE  8 * (m - 1) + k \in 1 .. 8 * N /\ Bit(8 * (m - 1) + k) = BitsOf(buf[m])[k]
    <2>1. 8 * (m - 1) + k \in 1 .. 8 * N
      BY <1>1
    <2>2. At(8 * (m - 1) + k) = m /\ In(8 * (m - 1) + k) = k
      BY <1>1
    <2> HIDE DEF At, In
    <2> QED
      BY <2>1, <2>2
  <1> HIDE DEF Bit, N
  <1>6. Bits(buf) \in Seq({0, 1}) /\ Len(Bits(buf)) = 8 * N
    BY <1>1, <1>3, <1>4
  <1>7. \A m \in 1 .. N, k \in 1 .. 8 : Bits(buf)[8 * (m - 1) + k] = BitsOf(buf[m])[k]
    BY <1>4, <1>5
  <1> QED
    BY <1>6, <1>7 DEF N

\* crc16() returns the remainder of the division by x^16 + x^12 + x^5 + 1 of
\* the bits it is given followed by 16 zeros, as the servers of a cluster do,
\* for sequences of any length, with chars that may be negative.
THEOREM Crc16Correct ==
    ASSUME NEW buf \in Seq(Int)
    PROVE  Crc16(buf) = Checksum(buf)
  <1> DEFINE N == Len(buf)
             bits == Bits(buf)
             Loop(f) == f = [n \in 0 .. N |-> IF n = 0 THEN {} ELSE Crc16Step(f[n - 1], buf[n])]
             chosen == CHOOSE f : Loop(f)
  <1>1. N \in Nat /\ \A n \in 1 .. N : buf[n] \in Int
    OBVIOUS
  <1>2. Crc16(buf) = chosen[N]
    BY Zenon DEF Crc16
  <1>3. {} \in Words
    BY DEF Words
  <1>4. /\ bits \in Seq({0, 1}) /\ Len(bits) = 8 * N
        /\ \A m \in 1 .. N, k \in 1 .. 8 : bits[8 * (m - 1) + k] = BitsOf(buf[m])[k]
    BY BitsOfSequence
  <1> HIDE DEF N, bits, Loop
  <1>5. 8 * N \in Nat
    BY <1>1
  <1>6. PICK g : IsDivision(g, {}, bits)
    BY <1>3, <1>4, <1>5, DivisionLoop
  <1>7. /\ g \in [0 .. 8 * N -> Words] /\ g[0] = {}
        /\ \A n \in 1 .. 8 * N : g[n] = Divide(g[n - 1], bits[n])
    BY <1>4, <1>6 DEF IsDivision
  <1> DEFINE h == [n \in 0 .. N |-> Division(g[8 * n], Zeros)]
  <1>8. \A n \in 0 .. N : h[n] = Division(g[8 * n], Zeros)
    OBVIOUS
  <1>9. h[0] = {}
    <2> DEFINE w == Division({}, Zeros)
    <2>1. Len(Zeros) = 16 /\ 16 \in 0 .. 16 /\ \A i \in {} : i + 16 <= 15
      BY ZerosBits
    <2>2. w \in Words /\ \A i \in 0 .. 15 : i \in w <=> (i < 16 /\ Zeros[16 - i] = 1) \/ i - 16 \in {}
      BY <1>3, <2>1, DivisionShift, Zenon
    <2>3. ASSUME NEW i \in 0 .. 15 PROVE Zeros[16 - i] # 1
      <3>1. 16 - i \in 1 .. 16
        OBVIOUS
      <3> QED
        BY <3>1, ZerosBits
    <2> HIDE DEF w
    <2>4. \A i \in 0 .. 15 : i \in w <=> i \in {}
      BY <2>2, <2>3, Zenon
    <2>5. w = {}
      BY <1>3, <2>2, <2>4, SameBits
    <2>6. 0 \in 0 .. N /\ 8 * 0 = 0
      BY <1>1
    <2> QED
      BY <1>7, <1>8, <2>5, <2>6 DEF w
  <1>10. ASSUME NEW n \in 1 .. N PROVE h[n] = Crc16Step(h[n - 1], buf[n])
    <2> DEFINE first == 8 * (n - 1)
               beta == BitsOf(buf[n])
               f == [k \in 0 .. 8 |-> g[first + k]]
    <2>1. /\ n \in 0 .. N /\ n - 1 \in 0 .. N /\ first + 8 = 8 * n /\ first \in 0 .. 8 * N
          /\ \A k \in 0 .. 8 : first + k \in 0 .. 8 * N
          /\ \A k \in 1 .. 8 : first + k \in 1 .. 8 * N /\ (first + k) - 1 = first + (k - 1)
      BY <1>1
    <2>2. Len(beta) = 8 /\ \A i \in 1 .. 8 : beta[i] = 1 <=> 8 - i \in Byte(buf[n])
      BY <1>1, BitsOfChar, Zenon
    <2>3. \A k \in 1 .. 8 : bits[first + k] = beta[k]
      BY <1>4
    <2> HIDE DEF first, beta
    <2>4. g[first] \in Words
      BY <1>7, <2>1
    <2>5. IsDivision(f, g[first], beta)
      <3>1. f \in [0 .. 8 -> Words]
        BY <1>7, <2>1
      <3>2. f[0] = g[first]
        BY <2>1
      <3>3. ASSUME NEW k \in 1 .. 8 PROVE f[k] = Divide(f[k - 1], beta[k])
        <4>1. g[first + k] = Divide(g[(first + k) - 1], bits[first + k])
          BY <1>7, <2>1
        <4>2. k - 1 \in 0 .. 8 /\ k \in 0 .. 8
          OBVIOUS
        <4>3. f[k] = g[first + k] /\ f[k - 1] = g[first + (k - 1)]
          BY <4>2
        <4> HIDE DEF f
        <4> QED
          BY <2>1, <2>3, <4>1, <4>3
      <3> HIDE DEF f
      <3> QED
        BY <2>2, <3>1, <3>2, <3>3 DEF IsDivision
    <2>6. Division(g[first], beta) = g[8 * n]
      <3>1. f[8] = g[first + 8]
        OBVIOUS
      <3> HIDE DEF f
      <3>2. Division(g[first], beta) = f[8]
        <4> DEFINE r == g[first]
        <4>1. Len(beta) \in Nat /\ r \in Words /\ IsDivision(f, r, beta)
          BY <2>2, <2>4, <2>5
        <4> HIDE DEF r
        <4>2. Division(r, beta) = f[Len(beta)]
          BY <4>1, DivisionLoop
        <4> QED
          BY <2>2, <4>2 DEF r
      <3> QED
        BY <2>1, <3>1, <3>2
    <2>7. Division(Division(g[first], beta), Zeros) = Crc16Step(Division(g[first], Zeros), buf[n])
      BY <2>2, <2>4, OneMoreChar
    <2>8. h[n] = Division(g[8 * n], Zeros) /\ h[n - 1] = Division(g[first], Zeros)
      BY <1>8, <2>1 DEF first
    <2> QED
      BY <2>6, <2>7, <2>8
  <1>11. DOMAIN h = 0 .. N
    OBVIOUS
  <1>12. \A n \in 0 .. N : n = 0 \/ n \in 1 .. N
    BY <1>1
  <1> DEFINE Value(n) == IF n = 0 THEN {} ELSE Crc16Step(h[n - 1], buf[n])
  <1>13. h = [n \in 0 .. N |-> Value(n)]
    <2>1. \A n \in 0 .. N : h[n] = Value(n)
      BY <1>9, <1>10, <1>12
    <2>2. h = [n \in 0 .. N |-> h[n]]
      OBVIOUS
    <2> HIDE DEF h, Value
    <2> QED
      BY <2>1, <2>2
  <1> HIDE DEF h
  <1>14. Loop(h)
    BY <1>13 DEF Loop
  <1>15. Loop(chosen)
    BY <1>14
  <1> HIDE DEF chosen
  <1>16. chosen[N] = h[N]
    <2> DEFINE T == {n \in 0 .. N : chosen[n] = h[n]}
    <2>1. \A n \in 0 .. N : chosen[n] = IF n = 0 THEN {} ELSE Crc16Step(chosen[n - 1], buf[n])
      BY <1>15 DEF Loop
    <2>2. 0 \in T
      <3>1. 0 \in 0 .. N
        BY <1>1
      <3>2. chosen[0] = {}
        BY <2>1, <3>1
      <3> QED
        BY <1>9, <3>1, <3>2
    <2>3. ASSUME NEW n \in 1 .. N, n - 1 \in T PROVE n \in T
      <3>1. n \in 0 .. N /\ n # 0 /\ chosen[n - 1] = h[n - 1]
        BY <2>3
      <3> QED
        BY <1>10, <2>1, <3>1
    <2> HIDE DEF T
    <2>4. N \in T
      <3>1. 0 .. N \subseteq T
        BY <1>1, <2>2, <2>3, InductionUpTo
      <3>2. N \in 0 .. N
        BY <1>1
      <3> QED
        BY <3>1, <3>2
    <2> QED
      BY <2>4 DEF T
  <1>17. h[N] = Division(Division({}, bits), Zeros)
    <2>1. N \in 0 .. N
      BY <1>1
    <2>2. Division({}, bits) = g[8 * N]
      BY <1>3, <1>4, <1>5, <1>6, DivisionLoop
    <2> QED
      BY <1>8, <2>1, <2>2
  <1>18. Division({}, bits \o Zeros) = Division(Division({}, bits), Zeros)
    BY <1>3, <1>4, ZerosBits, DivisionConcat, Zenon
  <1> QED
    BY <1>2, <1>16, <1>17, <1>18 DEF Checksum, Remainder, bits

-----------------------------------------------------------------------------
(***************************************************************************)
(* get_cluster_slot().                                                     *)
(***************************************************************************)

\* Search returns the first c from the index i on, if there is one.
LEMMA SearchFirst ==
    ASSUME NEW key \in Seq(Int), NEW c, NEW i \in Nat \ {0}
    PROVE  LET j == Search(key, c, i)
           IN  \/ j = Len(key) + 1 /\ \A k \in i .. Len(key) : key[k] # c
               \/ j \in i .. Len(key) /\ key[j] = c /\ \A k \in i .. j - 1 : key[k] # c
  <1> DEFINE found == {j \in i .. Len(key) : key[j] = c}
             first == CHOOSE j \in found : \A k \in found : j <= k
  <1>1. Search(key, c, i) = IF found = {} THEN Len(key) + 1 ELSE first
    BY DEF Search
  <1>2. Len(key) \in Nat
    OBVIOUS
  <1>3. CASE found = {}
    BY <1>1, <1>3
  <1>4. CASE found # {}
    <2>1. found \in SUBSET Nat
      BY <1>2
    <2>2. \E j \in found : \A k \in found : j <= k
      BY <1>4, <2>1, LeastNumber
    <2>3. first \in found /\ \A k \in found : first <= k
      BY <2>2
    <2> HIDE DEF first
    <2>4. first \in i .. Len(key) /\ key[first] = c
      BY <2>3
    <2>5. ASSUME NEW k \in i .. first - 1, key[k] = c PROVE FALSE
      <3>1. k \in i .. Len(key) /\ ~(first <= k)
        BY <1>2, <2>4
      <3> QED
        BY <2>3, <2>5, <3>1
    <2> QED
      BY <1>1, <1>4, <2>4, <2>5
  <1> QED
    BY <1>3, <1>4

\* The indexes of the tag of a key.
IsTag(key, r) ==
    /\ r[1] \in 2 .. r[2] /\ r[2] < Len(key)
    /\ key[r[1] - 1] = Open /\ key[r[2] + 1] = Close
    /\ \A i \in 1 .. r[1] - 2 : key[i] # Open
    /\ \A i \in r[1] .. r[2] : key[i] # Close

\* get_cluster_slot() hashes the tag of a key, or all of it if it has none or an
\* empty one, wherever its braces are.
THEOREM TagHashed ==
    ASSUME NEW key \in Seq(Int)
    PROVE  Hashed(key) = Tag(key)
  <1> DEFINE N == Len(key)
             s == Search(key, Open, 1)
             e == Search(key, Close, s + 1)
             pairs == {r \in (DOMAIN key) \X (DOMAIN key) : IsTag(key, r)}
             none == s > N \/ e > N \/ e = s + 1
  <1>0. N \in Nat /\ DOMAIN key = 1 .. N
    OBVIOUS
  <1>1. Hashed(key) = IF none THEN key ELSE SubSeq(key, s + 1, e - 1)
    BY DEF Hashed
  <1>2. TagsOf(key) = {SubSeq(key, r[1], r[2]) : r \in pairs}
    BY Zenon DEF TagsOf, IsTag
  <1>3. \/ s = N + 1 /\ \A k \in 1 .. N : key[k] # Open
        \/ s \in 1 .. N /\ key[s] = Open /\ \A k \in 1 .. s - 1 : key[k] # Open
    BY SearchFirst
  <1>4. s \in Nat /\ s + 1 \in Nat \ {0}
    BY <1>0, <1>3
  <1>5. \/ e = N + 1 /\ \A k \in s + 1 .. N : key[k] # Close
        \/ e \in s + 1 .. N /\ key[e] = Close /\ \A k \in s + 1 .. e - 1 : key[k] # Close
    <2> HIDE DEF s
    <2> QED
      BY <1>4, SearchFirst
  <1> HIDE DEF N, s, e
  <1>6. e \in Nat
    BY <1>0, <1>4, <1>5
  <1>7. ASSUME NEW r \in pairs PROVE ~none /\ r[1] = s + 1 /\ r[2] = e - 1
    <2> DEFINE a == r[1]
               b == r[2]
    <2>1. /\ a \in 2 .. b /\ b < N /\ b \in 1 .. N
          /\ key[a - 1] = Open /\ key[b + 1] = Close
          /\ \A i \in 1 .. a - 2 : key[i] # Open
          /\ \A i \in a .. b : key[i] # Close
      BY <1>0 DEF IsTag, N
    <2> HIDE DEF a, b
    <2>2. a - 1 \in 1 .. N /\ a \in Nat /\ b \in Nat
      BY <1>0, <2>1
    <2>3. s \in 1 .. N /\ key[s] = Open /\ \A k \in 1 .. s - 1 : key[k] # Open
      BY <1>3, <2>1, <2>2
    <2>4. s = a - 1
      <3>1. ~(s < a - 1)
        <4>1. s < a - 1 => s \in 1 .. a - 2
          BY <2>2, <2>3
        <4> QED
          BY <2>1, <2>3, <4>1
      <3>2. ~(a - 1 < s)
        <4>1. a - 1 < s => a - 1 \in 1 .. s - 1
          BY <2>2, <2>3
        <4> QED
          BY <2>1, <2>3, <4>1
      <3> QED
        BY <1>4, <2>2, <3>1, <3>2
    <2>5. b + 1 \in s + 1 .. N
      BY <1>0, <2>1, <2>2, <2>4
    <2>6. e \in s + 1 .. N /\ key[e] = Close /\ \A k \in s + 1 .. e - 1 : key[k] # Close
      BY <1>5, <2>1, <2>5
    <2>7. e = b + 1
      <3>1. ~(e < b + 1)
        <4>1. e < b + 1 => e \in a .. b
          BY <1>4, <1>6, <2>2, <2>4, <2>6
        <4> QED
          BY <2>1, <2>6, <4>1
      <3>2. ~(b + 1 < e)
        <4>1. b + 1 < e => b + 1 \in s + 1 .. e - 1
          BY <1>4, <1>6, <2>2, <2>5
        <4> QED
          BY <2>1, <2>6, <4>1
      <3> QED
        BY <1>6, <2>2, <3>1, <3>2
    <2>8. ~none
      BY <1>0, <1>4, <2>1, <2>2, <2>3, <2>4, <2>6, <2>7
    <2>9. a = s + 1 /\ b = e - 1
      BY <2>2, <2>4, <2>7
    <2> QED
      BY <2>8, <2>9 DEF a, b
  <1>8. ASSUME ~none PROVE <<s + 1, e - 1>> \in pairs
    <2> DEFINE r == <<s + 1, e - 1>>
    <2>1. s \in 1 .. N /\ e \in s + 1 .. N /\ e # s + 1
      BY <1>0, <1>3, <1>4, <1>5, <1>6, <1>8
    <2>2. /\ s + 1 \in 2 .. e - 1 /\ e - 1 < N /\ s + 1 \in 1 .. N /\ e - 1 \in 1 .. N
          /\ (s + 1) - 1 = s /\ (e - 1) + 1 = e /\ (s + 1) - 2 = s - 1
      BY <1>0, <1>4, <1>6, <2>1
    <2>3. /\ key[s] = Open /\ key[e] = Close
          /\ \A i \in 1 .. s - 1 : key[i] # Open
          /\ \A i \in s + 1 .. e - 1 : key[i] # Close
      BY <1>0, <1>3, <1>5, <2>1
    <2>4. r[1] = s + 1 /\ r[2] = e - 1 /\ r \in (1 .. N) \X (1 .. N)
      BY <2>2
    <2> HIDE DEF r
    <2>5. IsTag(key, r)
      BY <2>2, <2>3, <2>4 DEF IsTag, N
    <2>6. r \in pairs
      BY <1>0, <2>4, <2>5
    <2> QED
      BY <2>6 DEF r
  <1> HIDE DEF pairs, none
  <1>9. CASE none
    <2>1. TagsOf(key) = {}
      BY <1>2, <1>7, <1>9
    <2>2. Tag(key) = key
      BY <2>1 DEF Tag
    <2> QED
      BY <1>1, <1>9, <2>2
  <1>10. CASE ~none
    <2> DEFINE t == SubSeq(key, s + 1, e - 1)
    <2>1. \A r \in pairs : SubSeq(key, r[1], r[2]) = t
      BY <1>7
    <2>2. \E r \in pairs : TRUE
      BY <1>8, <1>10
    <2> HIDE DEF t
    <2>3. TagsOf(key) = {t}
      BY <1>2, <2>1, <2>2
    <2>4. Tag(key) = t
      BY <2>3 DEF Tag
    <2> QED
      BY <1>1, <1>10, <2>4 DEF t
  <1> QED
    BY <1>9, <1>10

-----------------------------------------------------------------------------
(***************************************************************************)
(* The commands of a cluster.                                              *)
(***************************************************************************)

\* A key is sent to the slot of its tag.
LEMMA SlotCorrect ==
    ASSUME NEW key \in Seq(Int)
    PROVE  Slot(key) = Number(Checksum(Tag(key))) % NREDIS_CLUSTER_SLOTS
  <1> DEFINE t == Hashed(key)
  <1>1. t \in Seq(Int)
    <2> DEFINE s == Search(key, Open, 1)
               e == Search(key, Close, s + 1)
    <2>1. s \in 1 .. Len(key) + 1
      BY SearchFirst
    <2>2. s + 1 \in Nat \ {0}
      BY <2>1
    <2> HIDE DEF s
    <2>3. e \in Nat /\ (e \in s + 1 .. Len(key) \/ e = Len(key) + 1)
      BY <2>2, SearchFirst
    <2> HIDE DEF e
    <2>4. t = key \/ (t = SubSeq(key, s + 1, e - 1) /\ ~(s > Len(key)) /\ ~(e > Len(key)))
      BY DEF Hashed, s, e
    <2>5. e <= Len(key) => \A k \in s + 1 .. e - 1 : key[k] \in Int
      BY <2>1, <2>3
    <2>6. e <= Len(key) => SubSeq(key, s + 1, e - 1) \in Seq(Int)
      BY <2>1, <2>3, <2>5, SubSeqProperties
    <2>7. Len(key) \in Nat
      OBVIOUS
    <2>8. ~(e > Len(key)) => e <= Len(key)
      BY <2>3, <2>7
    <2> HIDE DEF t
    <2> QED
      BY <2>4, <2>6, <2>8, Zenon
  <1>2. t = Tag(key)
    BY TagHashed
  <1> HIDE DEF t
  <1>3. Crc16(t) = Checksum(Tag(key))
    BY <1>1, <1>2, Crc16Correct
  <1> QED
    BY <1>3 DEF Slot, t

\* What crc16() is checked with are sequences of numbers.
LEMMA KeysAreSequences ==
    /\ Keys \subseteq Seq(Int)
    /\ SeqOf(-128 .. 127, 1) \subseteq Seq(Int)
    /\ Digits \in Seq(Int)
  <1>1. Chars \subseteq Int /\ -128 .. 127 \subseteq Int /\ MaxKey \in Nat
    BY KeysAssumption
  <1>2. ASSUME NEW S \in SUBSET Int, NEW n \in Nat, NEW q \in SeqOf(S, n)
        PROVE  q \in Seq(Int)
    <2>1. PICK m \in 0 .. n : q \in [1 .. m -> S]
      BY DEF SeqOf
    <2>2. m \in Nat /\ \A k \in 1 .. m : q[k] \in Int
      <3>1. m \in Nat
        OBVIOUS
      <3>2. \A k \in 1 .. m : q[k] \in S
        BY <2>1, Zenon
      <3>3. \A x \in S : x \in Int
        BY Zenon
      <3> QED
        BY <3>1, <3>2, <3>3, Zenon
    <2>3. q = [k \in 1 .. m |-> q[k]]
      BY <2>1
    <2>4. q \in [1 .. m -> Int]
      BY <2>2, <2>3
    <2> QED
      BY <2>2, <2>4
  <1>3. Digits \in Seq(Int)
    BY DEF Digits
  <1> QED
    BY <1>1, <1>2, <1>3 DEF Keys

\* A sequence is its first n elements followed by the others.
LEMMA CutInTwo ==
    ASSUME NEW S, NEW q \in Seq(S), NEW N \in Nat, Len(q) = N, NEW n \in 0 .. N
    PROVE  /\ SubSeq(q, 1, n) \in Seq(S) /\ SubSeq(q, n + 1, N) \in Seq(S)
           /\ SubSeq(q, 1, n) \o SubSeq(q, n + 1, N) = q
  <1>1. \A i \in 1 .. N : q[i] \in S
    BY ElementOfSeq
  <1>2. SubSeq(q, 1, n) \in Seq(S)
    <2>1. 1 \in Int /\ n \in Int /\ \A i \in 1 .. n : q[i] \in S
      BY <1>1
    <2> QED
      BY <2>1, SubSeqProperties, Zenon
  <1>3. SubSeq(q, n + 1, N) \in Seq(S)
    <2>1. n + 1 \in Int /\ N \in Int /\ \A i \in n + 1 .. N : q[i] \in S
      BY <1>1
    <2> QED
      BY <2>1, SubSeqProperties, Zenon
  <1>4. SubSeq(q, 1, n) \o SubSeq(q, n + 1, N) = SubSeq(q, 1, N)
    <2>1. 1 \in 1 .. Len(q) + 1 /\ n \in 1 - 1 .. Len(q) /\ N \in n .. Len(q)
      OBVIOUS
    <2> QED
      BY <2>1, ConcatAdjacentSubSeq, Zenon
  <1>5. SubSeq(q, 1, N) = q
    BY SubSeqFull
  <1> QED
    BY <1>2, <1>3, <1>4, <1>5, Zenon

\* A division in two parts.
LEMMA DivisionCut ==
    ASSUME NEW S, NEW q \in Seq(S), NEW z \in Seq(S),
           NEW N \in Nat, Len(q) = N, NEW n \in 0 .. N, NEW m, m = n + 1
    PROVE  Division({}, q \o z)
             = Division(Division({}, SubSeq(q, 1, n)), SubSeq(q, m, N) \o z)
  <1>1. PICK first \in Seq(S), last \in Seq(S) :
          first = SubSeq(q, 1, n) /\ last = SubSeq(q, m, N) /\ q = first \o last
    <2>1. /\ SubSeq(q, 1, n) \in Seq(S) /\ SubSeq(q, n + 1, N) \in Seq(S)
          /\ SubSeq(q, 1, n) \o SubSeq(q, n + 1, N) = q
      BY CutInTwo, Zenon
    <2> QED
      BY <2>1, Zenon
  <1>2. q \o z = first \o (last \o z)
    <2>1. (first \o last) \o z = first \o (last \o z)
      OBVIOUS
    <2> QED
      BY <1>1, <2>1, Zenon
  <1>3. last \o z \in Seq(S) /\ {} \in Words
    BY ConcatElements DEF Words
  <1>4. Division({}, first \o (last \o z)) = Division(Division({}, first), last \o z)
    BY <1>3, DivisionConcat, Zenon
  <1> QED
    BY <1>1, <1>2, <1>4, Zenon

\* The check value of the algorithm is that of the whole division.
LEMMA CheckValue == Checksum(Digits) = Word(12739)
  <1> DEFINE b == Bits(Digits)
             n == 40
             m == 41
             N == 72
  <1>1. b \in Seq({0, 1}) /\ Len(b) = N
    <2>1. Len(Digits) = 9
      BY DEF Digits
    <2>2. Digits \in Seq(Int)
      BY KeysAreSequences
    <2>3. b \in Seq({0, 1}) /\ Len(b) = 8 * Len(Digits)
      BY <2>2, BitsOfSequence, Zenon
    <2> HIDE DEF b
    <2> QED
      BY <2>1, <2>3
  <1>2. Division(Division({}, SubSeq(b, 1, n)), SubSeq(b, m, N) \o Zeros) = Word(12739)
    BY CheckAssumption DEF Remainder
  <1>3. N \in Nat /\ n \in 0 .. N /\ m = n + 1
    OBVIOUS
  <1>4. Checksum(Digits) = Division({}, b \o Zeros)
    BY DEF Checksum, Remainder
  <1>5. Zeros \in Seq({0, 1})
    BY ZerosBits
  <1> HIDE DEF b, n, m, N
  <1>6. Division({}, b \o Zeros)
          = Division(Division({}, SubSeq(b, 1, n)), SubSeq(b, m, N) \o Zeros)
    BY <1>1, <1>3, <1>5, DivisionCut
  <1> QED
    BY <1>2, <1>4, <1>6

\* In a clustered database crc16() is the XMODEM CRC 16 of every key.
THEOREM Crc16Xmodem == Spec => []Crc16IsXmodem
  <1>1. \A buf \in Checked : Crc16(buf) = Checksum(buf)
    BY KeysAreSequences, Crc16Correct DEF Checked
  <1>2. Crc16(Digits) = Word(12739)
    BY KeysAreSequences, Crc16Correct, CheckValue
  <1>3. Crc16IsXmodem
    BY <1>1, <1>2 DEF Crc16IsXmodem, WrongChecksums
  <1> QED
    BY <1>3, PTL

\* The commands considered have their first key where get_key_index() looks for it.
KeysWhereSearched ==
    \A cmd \in DOMAIN KeyOf : KeyOf[cmd] = IF KeyIndex(cmd) > 0 THEN KeyIndex(cmd) ELSE 0

\* In a clustered database cluster_execute() looks for the slot of the tag of the
\* key of the command, if its key is where get_key_index() looks for it.
THEOREM SlotsOfCommands ==
    ASSUME KeysWhereSearched
    PROVE  Spec => []SlotOfCommand
  <1>1. ASSUME NEW cmd \in DOMAIN KeyOf, NEW key \in Keys, NEW n \in 0 .. 3
        PROVE  LET args == [i \in 1 .. n |-> IF i = KeyOf[cmd] THEN key ELSE <<Open>>]
               IN  CommandSlot(cmd, args) =
                     IF KeyOf[cmd] \in 1 .. n
                     THEN Number(Checksum(Tag(key))) % NREDIS_CLUSTER_SLOTS
                     ELSE NoKey
    <2> DEFINE args == [i \in 1 .. n |-> IF i = KeyOf[cmd] THEN key ELSE <<Open>>]
               index == KeyIndex(cmd)
    <2>1. Len(args) = n
      OBVIOUS
    <2>2. index \in {-1, 1, 3}
      BY DEF KeyIndex
    <2>3. CommandSlot(cmd, args) = IF index > 0 /\ index <= n THEN Slot(args[index]) ELSE NoKey
      BY <2>1 DEF CommandSlot
    <2>4. KeyOf[cmd] = IF index > 0 THEN index ELSE 0
      BY DEF KeysWhereSearched
    <2> HIDE DEF index
    <2>5. KeyOf[cmd] \in 1 .. n <=> index > 0 /\ index <= n
      BY <2>2, <2>4
    <2>6. KeyOf[cmd] \in 1 .. n => args[index] = key
      BY <2>2, <2>4, <2>5
    <2>7. Slot(key) = Number(Checksum(Tag(key))) % NREDIS_CLUSTER_SLOTS
      BY KeysAreSequences, SlotCorrect
    <2> HIDE DEF args
    <2>8. CommandSlot(cmd, args) = IF KeyOf[cmd] \in 1 .. n
                                   THEN Number(Checksum(Tag(key))) % NREDIS_CLUSTER_SLOTS
                                   ELSE NoKey
      BY <2>3, <2>5, <2>6, <2>7
    <2> QED
      BY <2>8 DEF args
  <1>2. WrongSlots = {}
    BY <1>1 DEF WrongSlots
  <1>3. SlotOfCommand
    BY <1>2 DEF SlotOfCommand
  <1> QED
    BY <1>3, PTL
=============================================================================
