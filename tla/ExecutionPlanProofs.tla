------------------------- MODULE ExecutionPlanProofs -------------------------
(***************************************************************************)
(* ExecutionPlan: the lists stay consistent, a plan has the best servers   *)
(* there are, in order, and no server waits for its turn for ever, for any *)
(* servers, weights, slots and sizes.                                      *)
(***************************************************************************)
EXTENDS ExecutionPlan, Plans, TailQueueProofs, FiniteSetTheorems

-----------------------------------------------------------------------------
(***************************************************************************)
(* The lists of a database.                                                *)
(***************************************************************************)

\* The lists of a consistent registry as sets.
LEMMA MatchAsSets ==
    ASSUME NEW lists, NEW roles
    PROVE  ListsMatchRoles(lists, roles)
             <=> \A l \in Lists : /\ Injective(lists[l])
                                  /\ \A s \in ToSet(lists[l]) : l = List(s, roles[s])
  BY DEF ListsMatchRoles, Injective, ToSet

\* The list for the weight and role of a server is one of the lists.
LEMMA ListInLists ==
    ASSUME NEW s \in Servers, NEW r \in Roles
    PROVE  List(s, r) \in Lists
  BY WeightsAssumption DEF List, Lists, Roles, Slave, Master, TBD

\* unsafe_add_redis_server() keeps the registry consistent, and nobody leaves it.
LEMMA MovedStep ==
    ASSUME NEW lists \in [Lists -> Seq(Servers)], NEW roles \in [Servers -> Roles],
           ListsMatchRoles(lists, roles), NEW s \in Servers, NEW r \in Roles
    PROVE  /\ MovedTo(lists, s, r) \in [Lists -> Seq(Servers)]
           /\ ListsMatchRoles(MovedTo(lists, s, r), [roles EXCEPT ![s] = r])
           /\ InSomeList(MovedTo(lists, s, r)) = InSomeList(lists) \union {s}
  <1> DEFINE new == [roles EXCEPT ![s] = r]
             home == [x \in Servers |-> List(x, roles[x])]
             moves == [x \in Servers |-> List(x, new[x])]
             to == List(s, r)
             moved == MovedBetween(lists, Lists, s, to)
  <1>1. moved = MovedTo(lists, s, r)
    BY DEF MovedTo, MovedBetween
  <1>2. to \in Lists /\ NewHomes(moves, home, Servers, s, to)
    BY ListInLists DEF NewHomes
  <1>3. \A l \in Lists : \A x \in ToSet(lists[l]) : x \in Servers
    BY DEF ToSet
  <1>4. AtHome(lists, Lists, Servers, home)
    BY <1>3, MatchAsSets DEF AtHome
  <1>5. \A x \in Servers : moves[x] = List(x, new[x])
    OBVIOUS
  <1> HIDE DEF home, moves, to, moved, new
  <1>6. /\ AtHome(moved, Lists, Servers, moves)
        /\ Gain(moved, lists, Lists, s)
    BY <1>2, <1>4, MovedAtHome DEF moved
  <1>7. \A l \in Lists : \A x \in ToSet(moved[l]) : x \in Servers
    BY <1>6 DEF ToSet, AtHome
  <1>8. ListsMatchRoles(moved, new)
    BY <1>5, <1>6, <1>7, MatchAsSets DEF AtHome
  <1> QED
    <2>1. moved \in [Lists -> Seq(Servers)]
      BY <1>6 DEF AtHome
    <2>2. InSomeList(moved) = InSomeList(lists) \union {s}
      BY <1>6 DEF InSomeList, Gain, AllOf
    <2> QED
      BY <1>1, <1>8, <2>1, <2>2, Zenon DEF new

-----------------------------------------------------------------------------
(***************************************************************************)
(* The inductive invariant.                                                *)
(***************************************************************************)

\* Who has been passed over n times was that many places further back: what
\* is left of the list before a server bounds how often it may be again.
TurnsInv ==
    /\ \A l \in Lists : \A k \in DOMAIN servers[l] :
         skipped[servers[l][k]] + k <= Cardinality(Servers)
    /\ \A s \in Servers \ Known : skipped[s] = 0

ListsInv ==
    /\ clustered \in BOOLEAN
    /\ servers \in [Lists -> Seq(Servers)]
    /\ role \in [Servers -> Roles]
    /\ slots \in [Servers -> SUBSET Slots]
    /\ sick \in SUBSET Servers
    /\ skipped \in [Servers -> Nat]
    /\ ListsConsistent
    /\ TurnsInv

-----------------------------------------------------------------------------
(***************************************************************************)
(* Lists and what a round takes from them.                                 *)
(***************************************************************************)

\* A list is no longer than there are servers.
LEMMA ListLength ==
    ASSUME NEW q \in Seq(Servers), Injective(q)
    PROVE  Len(q) \in Nat /\ Cardinality(Servers) \in Nat /\ Len(q) <= Cardinality(Servers)
  <1> DEFINE n == Len(q)
  <1>1. n \in Nat /\ q \in [1 .. n -> Servers]
    OBVIOUS
  <1> HIDE DEF n
  <1>2. q \in Injection(1 .. n, Servers)
    BY <1>1 DEF Injection, IsInjective, Injective
  <1>3. IsFiniteSet(Servers) /\ Cardinality(Servers) \in Nat
    BY WeightsAssumption, FS_CardinalityType
  <1>4. Cardinality(1 .. n) <= Cardinality(Servers)
    BY <1>2, <1>3, FS_Injection
  <1>5. 1 \in Int /\ n \in Int
    BY <1>1
  <1>6. Cardinality(1 .. n) = IF 1 > n THEN 0 ELSE n - 1 + 1
    BY <1>5, FS_Interval
  <1>7. Cardinality(1 .. n) = n
    BY <1>1, <1>6
  <1> QED
    BY <1>1, <1>3, <1>4, <1>7 DEF n

\* VTAILQ_REMOVE() of the server that is i-th: those behind it come nearer.
LEMMA RemovedPlaces ==
    ASSUME NEW q \in Seq(Servers), Injective(q), NEW i \in 1 .. Len(q)
    PROVE  /\ Len(Removed(q, q[i])) = Len(q) - 1
           /\ \A k \in 1 .. Len(q) - 1 :
                Removed(q, q[i])[k] = IF k < i THEN q[k] ELSE q[k + 1]
  <1>1. DOMAIN q = 1 .. Len(q)
    OBVIOUS
  <1>2. q[i] \in ToSet(q)
    BY <1>1 DEF ToSet
  <1>3. IndexOf(q, q[i]) = i
    BY <1>1, <1>2, IndexIsThere DEF Injective
  <1>4. Removed(q, q[i]) = RemoveAt(q, i)
    BY <1>2, <1>3 DEF Removed
  <1> QED
    BY <1>4, RemoveAtElements

\* Nobody goes back when somebody leaves a list.
LEMMA RemovedNearer ==
    ASSUME NEW q \in Seq(Servers), Injective(q), NEW s
    PROVE  \A k \in 1 .. Len(Removed(q, s)) :
             \E j \in 1 .. Len(q) : k <= j /\ Removed(q, s)[k] = q[j]
  <1>1. Len(q) \in Nat /\ DOMAIN q = 1 .. Len(q)
    OBVIOUS
  <1>2. CASE s \notin ToSet(q)
    <2>1. Removed(q, s) = q
      BY <1>2 DEF Removed
    <2>2. \A k \in 1 .. Len(q) : k <= k
      BY <1>1
    <2> QED
      BY <2>1, <2>2
  <1>3. CASE s \in ToSet(q)
    <2>1. PICK i \in 1 .. Len(q) : s = q[i]
      BY <1>1, <1>3 DEF ToSet
    <2> DEFINE r == Removed(q, s)
    <2>2. /\ Len(r) = Len(q) - 1
          /\ \A k \in 1 .. Len(q) - 1 : r[k] = IF k < i THEN q[k] ELSE q[k + 1]
      BY <2>1, RemovedPlaces
    <2> HIDE DEF r
    <2>3. ASSUME NEW k \in 1 .. Len(r)
          PROVE  \E j \in 1 .. Len(q) : k <= j /\ r[k] = q[j]
      <3>1. /\ k \in 1 .. Len(q) - 1 /\ k \in 1 .. Len(q) /\ k + 1 \in 1 .. Len(q)
            /\ k <= k /\ k <= k + 1
        BY <1>1, <2>2
      <3> QED
        BY <2>2, <3>1
    <2> QED
      BY <2>3 DEF r
  <1> QED
    BY <1>2, <1>3

\* The list a server is in tells its role.
LEMMA RoleOfList ==
    ASSUME NEW s \in Servers, NEW r \in Roles
    PROVE  RoleOf(List(s, r)) = r
  <1>1. Weight[s] \in Nat
    BY WeightsAssumption
  <1> DEFINE w == Weight[s]
  <1>2. w \in Nat
    BY <1>1
  <1> HIDE DEF w
  <1>3. (3 * w + 0) % 3 = 0 /\ (3 * w + 1) % 3 = 1 /\ (3 * w + 2) % 3 = 2
    BY <1>2
  <1> QED
    BY <1>3 DEF RoleOf, List, Roles, Slave, Master, TBD, w

\* What a round would take from list l.
LEMMA MatchingElements ==
    ASSUME ListsInv, NEW round, NEW master, NEW slot, NEW l \in Lists
    PROVE  /\ Matching(round, l, master, slot) \in Seq(Servers)
           /\ Injective(Matching(round, l, master, slot))
           /\ \A s : s \in ToSet(Matching(round, l, master, slot))
                       <=> /\ s \in ToSet(servers[l])
                           /\ round \in {3, 4} \/ Considered(round, l, master)
                           /\ Matches(s, round, master, slot)
  <1> DEFINE S == {s \in Servers : Matches(s, round, master, slot)}
             q == servers[l]
  <1>1. q \in Seq(Servers) /\ Injective(q)
    BY MatchAsSets DEF ListsInv, ListsConsistent
  <1>2. ToSet(q) \subseteq Servers
    BY <1>1, ElementOfSeq DEF ToSet
  <1>3. \A s \in ToSet(q) : s \in S <=> Matches(s, round, master, slot)
    BY <1>2
  <1> HIDE DEF S, q
  <1>4. /\ Filtered(q, S) \in Seq(Servers)
        /\ ToSet(Filtered(q, S)) = ToSet(q) \cap S
        /\ Injective(Filtered(q, S))
    BY <1>1, FilteredElements
  <1>5. CASE round \in {3, 4} \/ Considered(round, l, master)
    <2>1. Matching(round, l, master, slot) = Filtered(q, S)
      BY <1>5 DEF Matching, S, q
    <2> QED
      BY <1>3, <1>4, <1>5, <2>1 DEF q
  <1>6. CASE ~(round \in {3, 4} \/ Considered(round, l, master))
    <2>1. Matching(round, l, master, slot) = << >>
      BY <1>6 DEF Matching
    <2>2. << >> \in Seq(Servers) /\ Injective(<< >>) /\ ToSet(<< >>) = {}
      BY DEF Injective, ToSet
    <2> QED
      BY <1>6, <2>1, <2>2
  <1> QED
    BY <1>5, <1>6

\* The server a list is rotated by is the first one of the list that matches.
LEMMA FirstTaken ==
    ASSUME ListsInv, NEW master, NEW slot, NEW l \in Lists,
           Matching(1, l, master, slot) # << >>
    PROVE  \E i \in 1 .. Len(servers[l]) :
             /\ Head(Matching(1, l, master, slot)) = servers[l][i]
             /\ servers[l][i] \in ToSet(Matching(1, l, master, slot))
             /\ \A j \in 1 .. Len(servers[l]) :
                  servers[l][j] \in ToSet(Matching(1, l, master, slot)) => i <= j
  <1> DEFINE S == {s \in Servers : Matches(s, 1, master, slot)}
             q == servers[l]
             matching == Matching(1, l, master, slot)
  <1>1. q \in Seq(Servers) /\ Injective(q)
    BY MatchAsSets DEF ListsInv, ListsConsistent
  <1>2. matching = Filtered(q, S)
    BY DEF Matching
  <1>3. matching # << >>
    OBVIOUS
  <1> HIDE DEF S, q, matching
  <1>4. ToSet(matching) = ToSet(q) \cap S
    BY <1>1, <1>2, FilteredElements
  <1>5. PICK i \in 1 .. Len(q) : /\ Head(Filtered(q, S)) = q[i] /\ q[i] \in S
                                 /\ \A j \in 1 .. Len(q) : q[j] \in S => i <= j
    BY <1>1, <1>2, <1>3, FilteredFirst
  <1>6. q[i] \in ToSet(matching)
    BY <1>1, <1>4, <1>5 DEF ToSet
  <1> QED
    BY <1>2, <1>4, <1>5, <1>6 DEF q, matching

-----------------------------------------------------------------------------
(***************************************************************************)
(* Steps: the lists and the turns.                                         *)
(***************************************************************************)

\* A list that servers are taken from is rotated: the first one taken goes to
\* the tail, and those behind it come one place nearer.
LEMMA RotatedList ==
    ASSUME ListsInv, NEW master, NEW slot, NEW n, NEW l \in Lists,
           TakenFrom(l, master, slot, n)
    PROVE  LET q == servers[l]
               r == Rotated(master, slot, n)[l]
               first == Head(Matching(1, l, master, slot))
           IN  /\ r \in Seq(Servers) /\ Injective(r) /\ ToSet(r) = ToSet(q)
               /\ \A k \in 1 .. Len(r) :
                    \/ r[k] = first /\ first \in ToSet(Matching(1, l, master, slot))
                    \/ /\ k \in 1 .. Len(q) /\ r[k] = q[k]
                       /\ q[k] \notin ToSet(Matching(1, l, master, slot))
                    \/ k + 1 \in 1 .. Len(q) /\ r[k] = q[k + 1]
  <1> DEFINE q == servers[l]
             first == Head(Matching(1, l, master, slot))
             matching == ToSet(Matching(1, l, master, slot))
             rest == Removed(q, first)
             r == Append(rest, first)
  <1>1. Rotated(master, slot, n)[l] = r
    BY DEF Rotated
  <1>2. q \in Seq(Servers) /\ Injective(q)
    BY MatchAsSets DEF ListsInv, ListsConsistent
  <1>3. PICK i \in 1 .. Len(q) : /\ first = q[i] /\ q[i] \in matching
                                 /\ \A j \in 1 .. Len(q) : q[j] \in matching => i <= j
    BY FirstTaken DEF TakenFrom
  <1> HIDE DEF q, first, matching
  <1>4. Len(q) \in Nat /\ first \in Servers /\ first \in ToSet(q)
    BY <1>2, <1>3 DEF ToSet
  <1>5. /\ rest \in Seq(Servers) /\ ToSet(rest) = ToSet(q) \ {first} /\ Injective(rest)
    BY <1>2, RemovedElements
  <1>6. /\ Len(rest) = Len(q) - 1
        /\ \A k \in 1 .. Len(q) - 1 : rest[k] = IF k < i THEN q[k] ELSE q[k + 1]
    BY <1>2, <1>3, RemovedPlaces
  <1> HIDE DEF rest
  <1>7. r \in Seq(Servers) /\ ToSet(r) = ToSet(rest) \union {first} /\ Injective(r)
    BY <1>4, <1>5, AppendElements
  <1>8. /\ Len(r) = Len(q)
        /\ \A k \in 1 .. Len(q) - 1 : r[k] = rest[k]
        /\ r[Len(q)] = first
    <2>1. /\ Len(r) = Len(rest) + 1 /\ r[Len(rest) + 1] = first
          /\ \A k \in 1 .. Len(rest) : r[k] = rest[k]
      BY <1>4, <1>5, AppendProperties
    <2>2. Len(rest) + 1 = Len(q)
      BY <1>4, <1>6
    <2> QED
      BY <1>6, <2>1, <2>2
  <1> HIDE DEF r
  <1>9. ASSUME NEW k \in 1 .. Len(r)
        PROVE  \/ r[k] = first /\ first \in matching
               \/ k \in 1 .. Len(q) /\ r[k] = q[k] /\ q[k] \notin matching
               \/ k + 1 \in 1 .. Len(q) /\ r[k] = q[k + 1]
    <2>1. CASE k = Len(q)
      BY <1>3, <1>8, <2>1
    <2>2. CASE k # Len(q) /\ k < i
      <3>1. k \in 1 .. Len(q) /\ k \in 1 .. Len(q) - 1 /\ ~(i <= k)
        BY <1>4, <1>8, <2>2
      <3> QED
        BY <1>3, <1>6, <1>8, <2>2, <3>1
    <2>3. CASE k # Len(q) /\ ~(k < i)
      <3>1. k + 1 \in 1 .. Len(q) /\ k \in 1 .. Len(q) - 1
        BY <1>4, <1>8, <2>3
      <3> QED
        BY <1>6, <1>8, <2>3, <3>1
    <2> QED
      BY <2>1, <2>2, <2>3
  <1>10. ToSet(r) = ToSet(q)
    BY <1>4, <1>5, <1>7
  <1> QED
    BY <1>1, <1>7, <1>9, <1>10 DEF q, first, matching

\* The rotation keeps every server in its list.
LEMMA RotatedLists ==
    ASSUME ListsInv, NEW master, NEW slot, NEW n
    PROVE  /\ Rotated(master, slot, n) \in [Lists -> Seq(Servers)]
           /\ ListsMatchRoles(Rotated(master, slot, n), role)
           /\ InSomeList(Rotated(master, slot, n)) = Known
  <1> DEFINE r == Rotated(master, slot, n)
  <1>1. ASSUME NEW l \in Lists
        PROVE  r[l] \in Seq(Servers) /\ Injective(r[l]) /\ ToSet(r[l]) = ToSet(servers[l])
    <2>1. servers[l] \in Seq(Servers) /\ Injective(servers[l])
      BY MatchAsSets DEF ListsInv, ListsConsistent
    <2>2. CASE TakenFrom(l, master, slot, n)
      BY <2>2, RotatedList
    <2>3. CASE ~TakenFrom(l, master, slot, n)
      <3>1. r[l] = servers[l]
        BY <2>3 DEF Rotated
      <3> QED
        BY <2>1, <3>1
    <2> QED
      BY <2>2, <2>3
  <1>2. r \in [Lists -> Seq(Servers)]
    BY <1>1 DEF Rotated
  <1> HIDE DEF r
  <1>3. ListsMatchRoles(r, role)
    <2>1. \A l \in Lists : \A s \in ToSet(servers[l]) : l = List(s, role[s])
      BY MatchAsSets DEF ListsInv, ListsConsistent
    <2> QED
      BY <1>1, <2>1, MatchAsSets
  <1>4. InSomeList(r) = Known
    BY <1>1 DEF InSomeList, Known
  <1> QED
    BY <1>2, <1>3, <1>4 DEF r

\* A plan rotates the lists it has taken a server from: the servers that it has
\* passed over are nearer to the head than they were.
LEMMA PlanLists ==
    ASSUME ListsInv, NEW master \in BOOLEAN, NEW slot \in Slots, NEW n \in 1 .. MaxSize,
           Plan(master, slot, n)
    PROVE  ListsInv'
  <1> DEFINE matching(l) == ToSet(Matching(1, l, master, slot))
             taken(l) == TakenFrom(l, master, slot, n)
             first(l) == Head(Matching(1, l, master, slot))
  <1>1. /\ servers' = Rotated(master, slot, n)
        /\ UNCHANGED <<clustered, role, slots, sick>>
    BY DEF Plan
  <1>2. /\ servers' \in [Lists -> Seq(Servers)] /\ ListsMatchRoles(servers', role)
        /\ InSomeList(servers') = Known
    BY <1>1, RotatedLists
  <1>3. ASSUME NEW s \in Servers
        PROVE  skipped'[s] = IF ~Candidate(s, master, slot, n) THEN skipped[s]
                             ELSE IF s = first(List(s, role[s])) THEN 0
                             ELSE skipped[s] + 1
    BY DEF Plan
  <1>4. skipped' \in [Servers -> Nat]
    BY DEF Plan, ListsInv
  <1>5. \A s \in Servers :
          Candidate(s, master, slot, n)
            <=> s \in matching(List(s, role[s])) /\ taken(List(s, role[s]))
    BY DEF Candidate
  <1>6. ASSUME NEW s \in Servers
        PROVE  skipped'[s] \in Nat /\ skipped[s] \in Nat /\ skipped'[s] <= skipped[s] + 1
    <2>1. skipped'[s] \in Nat /\ skipped[s] \in Nat
      BY <1>4 DEF ListsInv
    <2>2. skipped'[s] = skipped[s] \/ skipped'[s] = 0 \/ skipped'[s] = skipped[s] + 1
      BY <1>3, Zenon
    <2> QED
      BY <2>1, <2>2
  <1> HIDE DEF matching, taken, first
  <1>7. ASSUME NEW l \in Lists, NEW k \in DOMAIN servers'[l]
        PROVE  skipped'[servers'[l][k]] + k <= Cardinality(Servers)
    <2> DEFINE q == servers[l]
               r == servers'[l]
               x == r[k]
    <2>1. q \in Seq(Servers) /\ Injective(q) /\ r \in Seq(Servers) /\ Injective(r)
      BY <1>2, MatchAsSets DEF ListsInv, ListsConsistent
    <2>2. x \in Servers /\ l = List(x, role[x])
      <3>1. x \in ToSet(r)
        BY DEF ToSet
      <3> QED
        BY <1>2, <2>1, <3>1, MatchAsSets, ElementOfSeq
    <2>3. k \in 1 .. Len(r) /\ k \in Nat
      BY <2>1
    <2>4. /\ Cardinality(Servers) \in Nat /\ Len(r) \in Nat /\ Len(q) \in Nat
          /\ Len(r) <= Cardinality(Servers)
      BY <2>1, ListLength
    <2>5. \A j \in 1 .. Len(q) : skipped[q[j]] + j <= Cardinality(Servers)
      BY <2>1 DEF ListsInv, TurnsInv
    <2>6. CASE taken(l)
      <3>1. \/ x = first(l) /\ first(l) \in matching(l)
            \/ k \in 1 .. Len(q) /\ x = q[k] /\ q[k] \notin matching(l)
            \/ k + 1 \in 1 .. Len(q) /\ x = q[k + 1]
        BY <1>1, <2>3, <2>6, RotatedList DEF taken, first, matching
      <3> HIDE DEF q, r, x
      <3>2. CASE x = first(l) /\ first(l) \in matching(l)
        <4>1. skipped'[x] = 0
          BY <1>3, <1>5, <2>2, <2>6, <3>2
        <4>2. 0 + k <= Cardinality(Servers)
          BY <2>3, <2>4
        <4> QED
          BY <4>1, <4>2 DEF x, r
      <3>3. CASE k \in 1 .. Len(q) /\ x = q[k] /\ q[k] \notin matching(l)
        <4>1. skipped'[x] = skipped[x]
          BY <1>3, <1>5, <2>2, <3>3
        <4>2. skipped[x] + k <= Cardinality(Servers)
          BY <2>5, <3>3
        <4> QED
          BY <4>1, <4>2 DEF x, r
      <3>4. CASE k + 1 \in 1 .. Len(q) /\ x = q[k + 1]
        <4>1. skipped'[x] <= skipped[x] + 1 /\ skipped'[x] \in Nat /\ skipped[x] \in Nat
          BY <1>6, <2>2
        <4>2. skipped[x] + (k + 1) <= Cardinality(Servers)
          BY <2>5, <3>4
        <4>3. skipped'[x] + k <= Cardinality(Servers)
          BY <2>3, <2>4, <4>1, <4>2
        <4> QED
          BY <4>3 DEF x, r
      <3> QED
        BY <3>1, <3>2, <3>3, <3>4
    <2>7. CASE ~taken(l)
      <3>1. r = q
        BY <1>1, <2>7 DEF Rotated, taken
      <3>2. skipped'[x] = skipped[x]
        BY <1>3, <1>5, <2>2, <2>7
      <3>3. x = q[k] /\ k \in 1 .. Len(q)
        BY <2>3, <3>1
      <3>4. skipped[x] + k <= Cardinality(Servers)
        BY <2>5, <3>3
      <3> HIDE DEF q, r, x
      <3> QED
        BY <3>2, <3>4 DEF x, r
    <2> QED
      BY <2>6, <2>7
  <1>8. ASSUME NEW s \in Servers \ Known PROVE skipped'[s] = 0
    <2>1. ~Candidate(s, master, slot, n)
      <3> DEFINE l == List(s, role[s])
      <3>1. l \in Lists
        BY ListInLists DEF ListsInv
      <3>2. s \notin ToSet(servers[l])
        BY <3>1 DEF Known, InSomeList
      <3> HIDE DEF l
      <3>3. s \notin ToSet(Matching(1, l, master, slot))
        BY <3>1, <3>2, MatchingElements
      <3> QED
        BY <3>3 DEF Candidate, l
    <2> QED
      BY <1>3, <2>1 DEF ListsInv, TurnsInv
  <1>9. TurnsInv'
    BY <1>2, <1>7, <1>8 DEF TurnsInv, Known
  <1> QED
    BY <1>1, <1>2, <1>4, <1>9 DEF ListsInv, ListsConsistent

\* A server that is registered goes to the tail of its list, behind those that
\* have been waiting.
LEMMA RegisterLists ==
    ASSUME ListsInv, NEW s \in Servers, NEW r \in Roles, Register(s, r)
    PROVE  ListsInv'
  <1>1. /\ servers' = MovedTo(servers, s, r) /\ role' = [role EXCEPT ![s] = r]
        /\ skipped' = [skipped EXCEPT ![s] = 0] /\ UNCHANGED <<clustered, slots, sick>>
    BY DEF Register
  <1>2. /\ servers' \in [Lists -> Seq(Servers)] /\ ListsMatchRoles(servers', role')
        /\ InSomeList(servers') = Known \union {s}
    BY <1>1, MovedStep DEF ListsInv, ListsConsistent, Known
  <1>3. role' \in [Servers -> Roles] /\ skipped' \in [Servers -> Nat]
    BY <1>1 DEF ListsInv
  <1>4. skipped'[s] = 0 /\ \A x \in Servers : x # s => skipped'[x] = skipped[x]
    BY <1>1 DEF ListsInv
  <1>5. ASSUME NEW l \in Lists, NEW k \in DOMAIN servers'[l]
        PROVE  skipped'[servers'[l][k]] + k <= Cardinality(Servers)
    <2> DEFINE q == servers[l]
               p == servers'[l]
               x == p[k]
    <2>1. q \in Seq(Servers) /\ Injective(q) /\ p \in Seq(Servers) /\ Injective(p)
      BY <1>2, MatchAsSets DEF ListsInv, ListsConsistent
    <2>2. k \in 1 .. Len(p) /\ k \in Nat /\ x \in Servers
      BY <2>1
    <2>3. /\ Cardinality(Servers) \in Nat /\ Len(p) \in Nat /\ Len(q) \in Nat
          /\ Len(p) <= Cardinality(Servers)
      BY <2>1, ListLength
    <2>4. \A j \in 1 .. Len(q) : skipped[q[j]] + j <= Cardinality(Servers)
      BY <2>1 DEF ListsInv, TurnsInv
    <2>5. p = Removed(q, s) \/ p = Append(Removed(q, s), s)
      BY <1>1 DEF MovedTo
    <2> DEFINE rest == Removed(q, s)
    <2> HIDE DEF q, p, x
    <2>6. /\ rest \in Seq(Servers)
          /\ \A j \in 1 .. Len(rest) : \E i \in 1 .. Len(q) : j <= i /\ rest[j] = q[i]
      BY <2>1, RemovedElements, RemovedNearer
    <2>7. p = rest \/ p = Append(rest, s)
      BY <2>5
    <2> HIDE DEF rest
    <2>8. CASE x = s
      <3>1. 0 + k <= Cardinality(Servers)
        BY <2>2, <2>3
      <3> QED
        BY <1>4, <2>8, <3>1 DEF x, p
    <2>9. CASE x # s
      <3>1. k \in 1 .. Len(rest) /\ x = rest[k]
        <4>1. CASE p = rest
          BY <2>2, <4>1 DEF x
        <4>2. CASE p = Append(rest, s)
          <5>1. /\ Len(rest) \in Nat /\ Len(p) = Len(rest) + 1 /\ p[Len(rest) + 1] = s
                /\ \A j \in 1 .. Len(rest) : p[j] = rest[j]
            BY <2>6, <4>2, AppendProperties
          <5>2. k # Len(rest) + 1
            BY <2>9, <5>1 DEF x
          <5>3. k \in 1 .. Len(rest)
            BY <2>2, <5>1, <5>2
          <5> QED
            BY <5>1, <5>3 DEF x
        <4> QED
          BY <2>7, <4>1, <4>2
      <3>2. PICK i \in 1 .. Len(q) : k <= i /\ x = q[i]
        BY <2>6, <3>1
      <3>3. skipped'[x] = skipped[x] /\ skipped[x] \in Nat
        BY <1>4, <2>2, <2>9 DEF ListsInv
      <3>4. skipped[x] + i <= Cardinality(Servers)
        BY <2>4, <3>2
      <3>5. skipped'[x] + k <= Cardinality(Servers)
        BY <2>2, <2>3, <3>2, <3>3, <3>4
      <3> QED
        BY <3>5 DEF x, p
    <2> QED
      BY <2>8, <2>9
  <1>6. ASSUME NEW x \in Servers, x \notin InSomeList(servers') PROVE skipped'[x] = 0
    BY <1>2, <1>4, <1>6 DEF ListsInv, TurnsInv
  <1>7. TurnsInv'
    BY <1>5, <1>6 DEF TurnsInv, Known
  <1> QED
    BY <1>1, <1>2, <1>3, <1>7 DEF ListsInv, ListsConsistent

-----------------------------------------------------------------------------
(***************************************************************************)
(* The rounds, and the plan they make.                                     *)
(***************************************************************************)

\* The servers that a round would take.
InRound(round, master, slot) ==
    {s \in Known : /\ round \in {3, 4} \/ Considered(round, List(s, role[s]), master)
                   /\ Matches(s, round, master, slot)}

\* Preferred, Acceptable and Position of ExecutionPlan for a plan yet to be
\* made, and the latter as a number: the list of the server, after all of the
\* lists if the server comes late.
PreferredFor(master, slot) ==
    {s \in Known : Serves(s, slot) /\ s \notin sick /\ (master => role[s] = Master)}

AcceptableFor(master, slot) ==
    IF clustered THEN IF PreferredFor(master, slot) # {} THEN PreferredFor(master, slot)
                      ELSE Known
    ELSE {s \in Known : master => role[s] # Slave}

Late(s, master, slot) ==
    IF clustered /\ PreferredFor(master, slot) = {} THEN s \in sick
    ELSE s \notin PreferredFor(master, slot)

Rank(master, slot) ==
    [s \in Servers |-> (IF Late(s, master, slot) THEN 3 * Weights ELSE 0) + List(s, role[s])]

\* A plan of n servers at most, from those of X.
Best(list, n, X, key) ==
    /\ list \in Seq(Servers) /\ Len(list) <= n
    /\ Arranged(list, ToSet(list), key)
    /\ ToSet(list) \subseteq X
    /\ \A x \in ToSet(list), y \in X \ ToSet(list) : key[x] <= key[y]
    /\ Len(list) = n \/ ToSet(list) = X

\* A round takes servers in the order of their lists.
LEMMA RoundArranged ==
    ASSUME ListsInv, NEW round, NEW master, NEW slot, NEW key \in [Servers -> Int],
           NEW base \in Int,
           \A s \in InRound(round, master, slot) : key[s] = base + List(s, role[s])
    PROVE  /\ MatchingAll(round, master, slot) \in Seq(Servers)
           /\ Arranged(MatchingAll(round, master, slot), InRound(round, master, slot), key)
  <1> DEFINE N == 3 * Weights
             seqs == [k \in 1 .. N |-> Matching(round, k - 1, master, slot)]
             X == InRound(round, master, slot)
  <1>1. N \in Nat \ {0} /\ Lists = 0 .. N - 1
    BY WeightsAssumption DEF Lists
  <1>2. MatchingAll(round, master, slot) = FlattenSeq(seqs)
    BY DEF MatchingAll, MatchingBefore
  <1>3. ASSUME NEW k \in 1 .. N
        PROVE  /\ seqs[k] \in Seq(Servers) /\ Injective(seqs[k])
               /\ \A s : s \in ToSet(seqs[k]) <=> s \in X /\ List(s, role[s]) = k - 1
    <2> DEFINE l == k - 1
    <2>1. l \in Lists
      BY <1>1
    <2>2. seqs[k] = Matching(round, l, master, slot)
      OBVIOUS
    <2> HIDE DEF l
    <2>3. /\ seqs[k] \in Seq(Servers) /\ Injective(seqs[k])
          /\ \A s : s \in ToSet(seqs[k])
                      <=> /\ s \in ToSet(servers[l])
                          /\ round \in {3, 4} \/ Considered(round, l, master)
                          /\ Matches(s, round, master, slot)
      BY <2>1, <2>2, MatchingElements
    <2>4. \A s : s \in ToSet(servers[l]) <=> s \in Known /\ List(s, role[s]) = l
      <3>1. \A m \in Lists : \A s \in ToSet(servers[m]) : m = List(s, role[s])
        BY MatchAsSets DEF ListsInv, ListsConsistent
      <3> QED
        BY <2>1, <3>1 DEF Known, InSomeList
    <2>5. \A s : s \in X <=> /\ s \in Known
                             /\ round \in {3, 4} \/ Considered(round, List(s, role[s]), master)
                             /\ Matches(s, round, master, slot)
      BY DEF InRound
    <2> HIDE DEF seqs, X
    <2>6. \A s : s \in ToSet(seqs[k]) <=> s \in X /\ List(s, role[s]) = l
      BY <2>3, <2>4, <2>5, Zenon
    <2> QED
      BY <2>3, <2>6 DEF l
  <1>4. \A s \in X : key[s] = base + List(s, role[s])
    OBVIOUS
  <1>5. \A s \in X : s \in Servers /\ List(s, role[s]) \in Lists
    <2>1. ASSUME NEW s \in X PROVE s \in Servers /\ List(s, role[s]) \in Lists
      <3>1. s \in Known
        BY DEF InRound
      <3>2. PICK l \in Lists : s \in ToSet(servers[l])
        BY <3>1 DEF Known, InSomeList
      <3>3. s \in Servers
        BY <3>2 DEF ListsInv, ToSet
      <3> QED
        BY <3>3, ListInLists DEF ListsInv
    <2> QED
      BY <2>1
  <1>6. seqs \in [1 .. N -> Seq(Servers)]
    BY <1>3
  <1> HIDE DEF seqs, X, N
  <1>7. UNION {ToSet(seqs[k]) : k \in 1 .. N} = X
    <2>1. ASSUME NEW s \in X PROVE \E k \in 1 .. N : s \in ToSet(seqs[k])
      <3> DEFINE l == List(s, role[s])
      <3>1. l \in 0 .. N - 1
        BY <1>1, <1>5
      <3>2. l + 1 \in 1 .. N /\ (l + 1) - 1 = l
        BY <1>1, <3>1
      <3> QED
        BY <1>3, <2>1, <3>2
    <2> QED
      BY <1>3, <2>1
  <1> DEFINE b == base - 1
  <1>8. b \in Int
    OBVIOUS
  <1>9. ASSUME NEW k \in 1 .. N, NEW s \in ToSet(seqs[k]) PROVE key[s] = b + k
    <2>1. List(s, role[s]) = k - 1 /\ key[s] = base + List(s, role[s])
      BY <1>3, <1>4
    <2> QED
      BY <2>1
  <1> HIDE DEF b
  <1>10. /\ FlattenSeq(seqs) \in Seq(Servers)
         /\ Arranged(FlattenSeq(seqs), UNION {ToSet(seqs[k]) : k \in 1 .. N}, key)
    BY <1>1, <1>3, <1>6, <1>8, <1>9, FlattenArranged
  <1> QED
    BY <1>2, <1>7, <1>10 DEF X

\* The first of the servers of two rounds, the second one of late servers.
LEMMA TwoRounds ==
    ASSUME ListsInv, NEW master, NEW slot, NEW j, NEW k, NEW n \in Nat,
           \A s \in InRound(j, master, slot) : ~Late(s, master, slot),
           \A s \in InRound(k, master, slot) : Late(s, master, slot)
    PROVE  Best(FirstOf(MatchingAll(j, master, slot) \o MatchingAll(k, master, slot), n), n,
                InRound(j, master, slot) \union InRound(k, master, slot), Rank(master, slot))
  <1> DEFINE N == 3 * Weights
             key == Rank(master, slot)
             X == InRound(j, master, slot)
             Y == InRound(k, master, slot)
             p == MatchingAll(j, master, slot)
             q == MatchingAll(k, master, slot)
  <1>1. N \in Nat /\ 0 \in Int /\ N \in Int
    BY WeightsAssumption
  <1>2. ASSUME NEW s \in Servers PROVE List(s, role[s]) \in 0 .. N - 1
    BY ListInLists DEF ListsInv, Lists
  <1>3. X \subseteq Servers /\ Y \subseteq Servers
    BY DEF InRound, Known, InSomeList, ListsInv, ToSet
  <1>4. \A s \in Servers : key[s] = (IF Late(s, master, slot) THEN N ELSE 0) + List(s, role[s])
    BY DEF Rank
  <1>5. key \in [Servers -> Int]
    BY <1>1, <1>2 DEF Rank
  <1>6. \A s \in X : key[s] = 0 + List(s, role[s])
    BY <1>3, <1>4
  <1>7. \A s \in Y : key[s] = N + List(s, role[s])
    BY <1>3, <1>4
  <1>8. ASSUME NEW x \in X, NEW y \in Y PROVE key[x] < key[y]
    BY <1>1, <1>2, <1>3, <1>6, <1>7
  <1> HIDE DEF N, key
  <1>9. p \in Seq(Servers) /\ Arranged(p, X, key)
    BY <1>1, <1>5, <1>6, RoundArranged
  <1>10. q \in Seq(Servers) /\ Arranged(q, Y, key)
    BY <1>1, <1>5, <1>7, RoundArranged
  <1> HIDE DEF X, Y, p, q
  <1>11. p \o q \in Seq(Servers) /\ Arranged(p \o q, X \union Y, key)
    BY <1>5, <1>8, <1>9, <1>10, ArrangedConcat
  <1> DEFINE all == p \o q
             Z == X \union Y
  <1>12. all \in Seq(Servers) /\ Arranged(all, Z, key)
    BY <1>11
  <1> HIDE DEF all, Z
  <1>13. Best(FirstOf(all, n), n, Z, key)
    BY <1>5, <1>12, FirstOfArranged DEF Best
  <1> QED
    BY <1>13 DEF all, Z, X, Y, p, q, key

\* What the rounds take, for the servers there are.
LEMMA RoundsTake ==
    ASSUME ListsInv, NEW master \in BOOLEAN, NEW slot
    PROVE  /\ InRound(1, master, slot) = PreferredFor(master, slot)
           /\ ~clustered => InRound(1, master, slot) \union InRound(2, master, slot)
                              = AcceptableFor(master, slot)
           /\ ~clustered => InRound(2, master, slot) \cap PreferredFor(master, slot) = {}
           /\ InRound(3, master, slot) = Known \ sick
           /\ InRound(4, master, slot) = Known \cap sick
  <1>1. \A s \in Known : s \in Servers /\ role[s] \in Roles
    BY DEF Known, InSomeList, ListsInv, ToSet
  <1>2. \A s \in Known : RoleOf(List(s, role[s])) = role[s]
    BY <1>1, RoleOfList
  <1>3. /\ \A s : Matches(s, 1, master, slot) <=> Serves(s, slot) /\ s \notin sick
        /\ \A s : Matches(s, 2, master, slot)
                    <=> Serves(s, slot) /\ (s \in sick \/ (master /\ role[s] = TBD))
        /\ \A s : Matches(s, 3, master, slot) <=> s \notin sick
        /\ \A s : Matches(s, 4, master, slot) <=> s \in sick
    BY DEF Matches
  <1>4. /\ \A l : Considered(1, l, master) <=> (master => RoleOf(l) = Master)
        /\ \A l : Considered(2, l, master)
                    <=> (master => RoleOf(l) = Master \/ RoleOf(l) = TBD)
    BY DEF Considered
  <1>5. \A s : ~clustered => Serves(s, slot)
    BY DEF Serves
  <1>6. Slave # Master /\ Slave # TBD /\ Master # TBD
        /\ \A s \in Known : role[s] = Slave \/ role[s] = Master \/ role[s] = TBD
    BY <1>1 DEF Slave, Master, TBD, Roles
  <1>7. 1 \notin {3, 4} /\ 2 \notin {3, 4} /\ 3 \in {3, 4} /\ 4 \in {3, 4}
    OBVIOUS
  <1>8. InRound(1, master, slot) = PreferredFor(master, slot)
    BY <1>2, <1>3, <1>4, <1>7 DEF InRound, PreferredFor
  <1>9. InRound(3, master, slot) = Known \ sick /\ InRound(4, master, slot) = Known \cap sick
    BY <1>3, <1>7 DEF InRound
  <1>10. ASSUME ~clustered
         PROVE  InRound(2, master, slot) =
                  {s \in Known : /\ master => role[s] # Slave
                                 /\ s \in sick \/ (master /\ role[s] = TBD)}
    BY <1>2, <1>3, <1>4, <1>5, <1>6, <1>7, <1>10 DEF InRound
  <1>11. ASSUME ~clustered
         PROVE  PreferredFor(master, slot) =
                  {s \in Known : s \notin sick /\ (master => role[s] = Master)}
    BY <1>5, <1>11 DEF PreferredFor
  <1>12. ~clustered => InRound(2, master, slot) \cap PreferredFor(master, slot) = {}
    BY <1>6, <1>10, <1>11
  <1>13. ~clustered => PreferredFor(master, slot) \union InRound(2, master, slot)
                         = AcceptableFor(master, slot)
    BY <1>6, <1>10, <1>11 DEF AcceptableFor
  <1> QED
    BY <1>8, <1>9, <1>12, <1>13

\* populate_execution_plan() chooses the best servers.
LEMMA PlanServersBest ==
    ASSUME ListsInv, NEW master \in BOOLEAN, NEW slot \in Slots, NEW n \in 1 .. MaxSize
    PROVE  Best(PlanServers(master, slot, n), n, AcceptableFor(master, slot),
                Rank(master, slot))
  <1> DEFINE preferred == PreferredFor(master, slot)
             acceptable == AcceptableFor(master, slot)
             key == Rank(master, slot)
  <1>1. n \in Nat /\ n # 0
    BY SizesAssumption
  <1>2. CASE ~clustered
    <2>1. /\ InRound(1, master, slot) = preferred
          /\ InRound(1, master, slot) \union InRound(2, master, slot) = acceptable
          /\ InRound(2, master, slot) \cap preferred = {}
      BY <1>2, RoundsTake
    <2>2. /\ \A s \in InRound(1, master, slot) : ~Late(s, master, slot)
          /\ \A s \in InRound(2, master, slot) : Late(s, master, slot)
      BY <1>2, <2>1 DEF Late
    <2>3. PlanServers(master, slot, n)
            = FirstOf(MatchingAll(1, master, slot) \o MatchingAll(2, master, slot), n)
      BY <1>2 DEF PlanServers
    <2> HIDE DEF preferred, acceptable, key
    <2>4. Best(FirstOf(MatchingAll(1, master, slot) \o MatchingAll(2, master, slot), n), n,
               InRound(1, master, slot) \union InRound(2, master, slot), Rank(master, slot))
      BY <1>1, <2>2, TwoRounds
    <2> QED
      BY <2>1, <2>3, <2>4 DEF acceptable
  <1>3. CASE clustered
    <2> DEFINE owners == FirstOf(MatchingAll(1, master, slot), n)
    <2>1. InRound(1, master, slot) = preferred
      BY RoundsTake
    <2>2. /\ key \in [Servers -> Int]
          /\ \A s \in InRound(1, master, slot) : key[s] = 0 + List(s, role[s])
      <3>1. \A s \in Servers : List(s, role[s]) \in Int
        BY ListInLists DEF ListsInv, Lists
      <3>2. 3 * Weights \in Int
        BY WeightsAssumption
      <3>3. preferred \subseteq Servers
        BY DEF PreferredFor, Known, InSomeList, ListsInv, ToSet
      <3>4. \A s \in preferred : ~Late(s, master, slot)
        BY DEF Late
      <3>5. key \in [Servers -> Int]
        BY <3>1, <3>2 DEF Rank
      <3>6. \A s \in Servers :
              key[s] = (IF Late(s, master, slot) THEN 3 * Weights ELSE 0) + List(s, role[s])
        BY DEF Rank
      <3> HIDE DEF key
      <3>7. \A s \in InRound(1, master, slot) : key[s] = 0 + List(s, role[s])
        BY <2>1, <3>3, <3>4, <3>6
      <3> QED
        BY <3>5, <3>7
    <2> HIDE DEF preferred, key
    <2>3. /\ MatchingAll(1, master, slot) \in Seq(Servers)
          /\ Arranged(MatchingAll(1, master, slot), preferred, key)
      <3>1. 0 \in Int
        OBVIOUS
      <3> QED
        BY <2>1, <2>2, <3>1, RoundArranged
    <2>4. Best(owners, n, preferred, key) /\ (owners = << >> <=> preferred = {})
      <3> DEFINE q == MatchingAll(1, master, slot)
      <3>1. q \in Seq(Servers) /\ Arranged(q, preferred, key)
        BY <2>3
      <3> HIDE DEF q
      <3>2. /\ Best(FirstOf(q, n), n, preferred, key)
            /\ FirstOf(q, n) = << >> <=> n = 0 \/ preferred = {}
        BY <1>1, <2>2, <3>1, FirstOfArranged DEF Best
      <3> QED
        BY <1>1, <3>2 DEF q
    <2>5. CASE preferred # {}
      <3>1. PlanServers(master, slot, n) = owners
        BY <1>3, <2>4, <2>5 DEF PlanServers
      <3>2. acceptable = preferred
        BY <1>3, <2>5 DEF AcceptableFor, preferred
      <3> HIDE DEF owners, acceptable
      <3> QED
        BY <2>4, <3>1, <3>2 DEF acceptable, key
    <2>6. CASE preferred = {}
      <3>1. PlanServers(master, slot, n)
              = FirstOf(MatchingAll(3, master, slot) \o MatchingAll(4, master, slot), n)
        BY <1>3, <2>4, <2>6 DEF PlanServers
      <3>2. acceptable = Known
        BY <1>3, <2>6 DEF AcceptableFor, preferred
      <3>3. InRound(3, master, slot) = Known \ sick /\ InRound(4, master, slot) = Known \cap sick
        BY RoundsTake
      <3>4. /\ \A s \in InRound(3, master, slot) : ~Late(s, master, slot)
            /\ \A s \in InRound(4, master, slot) : Late(s, master, slot)
        BY <1>3, <2>6, <3>3 DEF Late, preferred
      <3>5. Best(FirstOf(MatchingAll(3, master, slot) \o MatchingAll(4, master, slot), n), n,
                 InRound(3, master, slot) \union InRound(4, master, slot), Rank(master, slot))
        BY <1>1, <3>4, TwoRounds
      <3>6. InRound(3, master, slot) \union InRound(4, master, slot) = acceptable
        BY <3>2, <3>3
      <3> HIDE DEF acceptable
      <3> QED
        BY <3>1, <3>5, <3>6 DEF acceptable
    <2> QED
      BY <2>5, <2>6
  <1> QED
    BY <1>2, <1>3

\* Whoever is ranked before another comes before it.
LEMMA RankOrder ==
    ASSUME ListsInv, NEW master, NEW slot, NEW s \in Servers, NEW t \in Servers,
           Rank(master, slot)[s] <= Rank(master, slot)[t]
    PROVE  ~Before(<<Late(t, master, slot), List(t, role[t])>>,
                   <<Late(s, master, slot), List(s, role[s])>>)
  <1> DEFINE N == 3 * Weights
             j == List(s, role[s])
             k == List(t, role[t])
             a == Late(s, master, slot)
             b == Late(t, master, slot)
  <1>1. N \in Nat /\ j \in 0 .. N - 1 /\ k \in 0 .. N - 1
    BY WeightsAssumption, ListInLists DEF ListsInv, Lists
  <1>2. (IF a THEN N ELSE 0) + j <= (IF b THEN N ELSE 0) + k
    BY DEF Rank
  <1> HIDE DEF N, j, k, a, b
  <1>3. ~(~b /\ a)
    BY <1>1, <1>2
  <1>4. (a <=> b) => ~(k < j)
    BY <1>1, <1>2
  <1>5. ~((~b /\ a) \/ (b = a /\ k < j))
    <2>1. b = a => (a <=> b)
      OBVIOUS
    <2> QED
      BY <1>3, <1>4, <2>1, Zenon
  <1>6. ~Before(<<b, k>>, <<a, j>>)
    BY <1>5, Zenon DEF Before
  <1> QED
    BY <1>6 DEF j, k, a, b

\* The plan that populate_execution_plan() makes, as PlanIsBest states it.
LEMMA PlanMakesBest ==
    ASSUME ListsInv, NEW master \in BOOLEAN, NEW slot \in Slots, NEW n \in 1 .. MaxSize,
           Plan(master, slot, n)
    PROVE  /\ PlanIsBest' /\ plan'.list \in Seq(Servers)
           /\ plan'.size \in Nat /\ Len(plan'.list) <= plan'.size
  <1> DEFINE list == PlanServers(master, slot, n)
             preferred == PreferredFor(master, slot)
             acceptable == AcceptableFor(master, slot)
             key == Rank(master, slot)
  <1>1. /\ plan' = [master |-> master, slot |-> slot, size |-> n, list |-> list]
        /\ UNCHANGED <<clustered, role, slots, sick>>
    BY DEF Plan
  <1>2. plan'.master = master /\ plan'.slot = slot /\ plan'.size = n /\ plan'.list = list
    BY <1>1
  <1>3. Known' = Known
    BY RotatedLists DEF Plan, Known
  <1>4. Preferred' = preferred
    BY <1>1, <1>2, <1>3 DEF Preferred, PreferredFor, Serves
  <1>5. Acceptable' = acceptable
    BY <1>1, <1>2, <1>3, <1>4 DEF Acceptable, AcceptableFor
  <1>6. \A s : Position(s)' = <<Late(s, master, slot), List(s, role[s])>>
    BY <1>1, <1>4 DEF Position, Late
  <1>7. Best(list, n, acceptable, key)
    BY PlanServersBest
  <1>8. acceptable \subseteq Servers
    BY DEF AcceptableFor, PreferredFor, Known, InSomeList, ListsInv, ToSet
  <1> HIDE DEF list, preferred, acceptable
  <1>9. list \in Seq(Servers) /\ Len(list) <= n
    BY <1>7 DEF Best
  <1>10. ASSUME NEW j \in DOMAIN list, NEW k \in DOMAIN list, j < k
         PROVE  /\ list[j] # list[k]
                /\ ~Before(<<Late(list[k], master, slot), List(list[k], role[list[k]])>>,
                           <<Late(list[j], master, slot), List(list[j], role[list[j]])>>)
    <2>1. list[j] \in Servers /\ list[k] \in Servers
      BY <1>9
    <2>2. list[j] # list[k] /\ key[list[j]] <= key[list[k]]
      BY <1>7, <1>10 DEF Best, Arranged
    <2> QED
      BY <2>1, <2>2, RankOrder
  <1>11. ASSUME NEW s \in ToSet(list), NEW t \in acceptable \ ToSet(list)
         PROVE  ~Before(<<Late(t, master, slot), List(t, role[t])>>,
                        <<Late(s, master, slot), List(s, role[s])>>)
    <2>1. s \in Servers /\ t \in Servers /\ key[s] <= key[t]
      BY <1>7, <1>8 DEF Best
    <2> QED
      BY <2>1, RankOrder
  <1>12. ToSet(list) \subseteq acceptable /\ (Len(list) = n \/ ToSet(list) = acceptable)
    BY <1>7 DEF Best
  <1>13. PlanIsBest'
    <2>1. (ToSet(plan.list) \subseteq Acceptable)'
      BY <1>2, <1>5, <1>12
    <2>2. (\A j, k \in DOMAIN plan.list :
             j < k => /\ plan.list[j] # plan.list[k]
                      /\ ~Before(Position(plan.list[k]), Position(plan.list[j])))'
      BY <1>2, <1>6, <1>10
    <2>3. (\A s \in ToSet(plan.list), t \in Acceptable \ ToSet(plan.list) :
             ~Before(Position(t), Position(s)))'
      BY <1>2, <1>5, <1>6, <1>11
    <2>4. (Len(plan.list) = plan.size \/ ToSet(plan.list) = Acceptable)'
      BY <1>2, <1>5, <1>12
    <2> QED
      BY <2>1, <2>2, <2>3, <2>4 DEF PlanIsBest
  <1>14. n \in Nat
    BY SizesAssumption
  <1> QED
    BY <1>2, <1>9, <1>13, <1>14

-----------------------------------------------------------------------------
(***************************************************************************)
(* What is shown of every behaviour.                                       *)
(***************************************************************************)

PlanInv ==
    /\ ListsInv
    /\ plan.list \in Seq(Servers)
    /\ plan.size \in Nat /\ Len(plan.list) <= plan.size
    /\ PlanIsBest

\* There is no plan to begin with, nor after anything else changes.
LEMMA NoPlanIsBest ==
    ASSUME plan = NoPlan
    PROVE  /\ plan.list \in Seq(Servers)
           /\ plan.size \in Nat /\ Len(plan.list) <= plan.size
           /\ PlanIsBest
  <1>1. plan.list = << >> /\ plan.size = 0
    BY DEF NoPlan
  <1> QED
    BY <1>1 DEF PlanIsBest

\* The invariant holds initially: no server is known.
LEMMA PlanInit ==
    ASSUME Init
    PROVE  PlanInv
  <1>1. /\ \A l \in Lists : servers[l] = << >>
        /\ servers \in [Lists -> Seq(Servers)]
        /\ DOMAIN << >> = {}
    BY DEF Init
  <1>2. ListsConsistent
    BY <1>1 DEF ListsConsistent, ListsMatchRoles
  <1>3. TurnsInv
    BY <1>1 DEF TurnsInv, Init
  <1>4. ListsInv
    BY <1>1, <1>2, <1>3 DEF Init, ListsInv, Roles
  <1> QED
    BY <1>4, NoPlanIsBest DEF PlanInv, Init

\* Every step keeps it.
LEMMA PlanStep ==
    ASSUME PlanInv, [Next]_vars
    PROVE  PlanInv'
  <1>1. ListsInv
    BY DEF PlanInv
  <1>2. ASSUME NEW master \in BOOLEAN, NEW slot \in Slots, NEW n \in 1 .. MaxSize,
               Plan(master, slot, n)
        PROVE  PlanInv'
    BY <1>1, <1>2, PlanLists, PlanMakesBest DEF PlanInv
  <1>3. ASSUME plan' = NoPlan
        PROVE  (/\ plan.list \in Seq(Servers)
                /\ plan.size \in Nat /\ Len(plan.list) <= plan.size
                /\ PlanIsBest)'
    <2>1. plan'.list = << >> /\ plan'.size = 0
      BY <1>3 DEF NoPlan
    <2> QED
      BY <1>3, <2>1 DEF PlanIsBest, NoPlan
  <1>4. ASSUME NEW s \in Servers, NEW r \in Roles, Register(s, r)
        PROVE  PlanInv'
    <2>1. plan' = NoPlan
      BY <1>4 DEF Register
    <2> QED
      BY <1>1, <1>3, <1>4, <2>1, RegisterLists DEF PlanInv
  <1>5. ASSUME NEW s \in Servers, NEW new \in SUBSET Slots, AssignSlots(s, new)
        PROVE  PlanInv'
    <2>1. plan' = NoPlan
      BY <1>5 DEF AssignSlots
    <2>2. ListsInv'
      BY <1>1, <1>5 DEF AssignSlots, ListsInv, ListsConsistent, TurnsInv, Known
    <2> QED
      BY <1>3, <2>1, <2>2 DEF PlanInv
  <1>6. ASSUME NEW s \in Servers, ChangeSickness(s)
        PROVE  PlanInv'
    <2>1. plan' = NoPlan
      BY <1>6 DEF ChangeSickness
    <2>2. ListsInv'
      BY <1>1, <1>6 DEF ChangeSickness, ListsInv, ListsConsistent, TurnsInv, Known
    <2> QED
      BY <1>3, <2>1, <2>2 DEF PlanInv
  <1>7. CASE UNCHANGED vars
    <2>1. /\ UNCHANGED <<clustered, servers, role, slots, sick, plan, skipped>>
          /\ Known' = Known
      BY <1>7 DEF vars, Known
    <2>2. ListsInv'
      BY <1>1, <2>1 DEF ListsInv, ListsConsistent, TurnsInv
    <2>3. Preferred' = Preferred
      BY <2>1 DEF Preferred, Serves
    <2>4. Acceptable' = Acceptable /\ \A s : Position(s)' = Position(s)
      BY <2>1, <2>3 DEF Acceptable, Position
    <2>5. PlanIsBest'
      BY <2>1, <2>4 DEF PlanInv, PlanIsBest
    <2> QED
      BY <2>1, <2>2, <2>5 DEF PlanInv
  <1> QED
    BY <1>2, <1>4, <1>5, <1>6, <1>7 DEF Next

\* The inductive invariant of the registry and of the plans made from it.
THEOREM Invariance == Spec => []PlanInv
  <1>1. Init => PlanInv
    BY PlanInit
  <1>2. PlanInv /\ [Next]_vars => PlanInv'
    BY PlanStep
  <1> QED
    BY <1>1, <1>2, PTL DEF Spec

\* Every variable has its type, and populate_execution_plan() never chooses
\* more servers than asked for.
THEOREM TypeCorrect == Spec => []TypeOK
  <1>1. PlanInv => TypeOK
    BY DEF PlanInv, ListsInv, TypeOK
  <1> QED
    BY <1>1, Invariance, PTL

\* The assertions of populate_execution_plan() on each server it walks over
\* hold, and no server is listed twice, whatever rotations and changes of
\* role come first.
THEOREM Consistency == Spec => []ListsConsistent
  <1>1. PlanInv => ListsConsistent
    BY DEF PlanInv, ListsInv
  <1> QED
    BY <1>1, Invariance, PTL

\* The rounds, loops and counters of populate_execution_plan() choose the
\* best servers there are, best first, for any registry, weights and size.
THEOREM BestPlan == Spec => []PlanIsBest
  <1>1. PlanInv => PlanIsBest
    BY DEF PlanInv
  <1> QED
    BY <1>1, Invariance, PTL

\* The promise of Plans.
PlanAsPromised ==
    plan # NoPlan =>
      plan.list \in
        PlansOf(Fitting(clustered, Known, {s \in Known : plan.slot \in slots[s]}, sick,
                        {s \in Known : role[s] = Master}, {s \in Known : role[s] = Slave},
                        plan.master),
                plan.size)

\* The number of elements of a sequence without repetitions.
LEMMA CardinalityOfList ==
    ASSUME NEW q \in Seq(Servers), Injective(q)
    PROVE  IsFiniteSet(ToSet(q)) /\ Cardinality(ToSet(q)) = Len(q)
  <1> DEFINE n == Len(q)
  <1>1. n \in Nat /\ q \in [1 .. n -> Servers]
    OBVIOUS
  <1>2. ToSet(q) = {q[k] : k \in 1 .. n}
    BY <1>1 DEF ToSet
  <1> HIDE DEF n
  <1>3. q \in Bijection(1 .. n, ToSet(q))
    BY <1>1, <1>2 DEF Bijection, Injection, Surjection, IsInjective, Injective
  <1>4. Cardinality(1 .. n) = n /\ IsFiniteSet(1 .. n)
    <2>1. 1 \in Int /\ n \in Int
      BY <1>1
    <2>2. IsFiniteSet(1 .. n) /\ Cardinality(1 .. n) = IF 1 > n THEN 0 ELSE n - 1 + 1
      BY <2>1, FS_Interval
    <2> QED
      BY <1>1, <2>2
  <1> QED
    BY <1>3, <1>4, FS_Bijection DEF n, ExistsBijection

\* The plans of populate_execution_plan() are those that redis_execute() counts
\* on: as many different servers as needed and there are, all of them fit to
\* take the command.
THEOREM PlanKeepsPromise == Spec => []PlanAsPromised
  <1>1. PlanInv => PlanAsPromised
    <2> SUFFICES ASSUME PlanInv, plan # NoPlan
                 PROVE  PlanAsPromised
      BY DEF PlanAsPromised
    <2> DEFINE owners == {s \in Known : plan.slot \in slots[s]}
               masters == {s \in Known : role[s] = Master}
               slaves == {s \in Known : role[s] = Slave}
               fitting == Fitting(clustered, Known, owners, sick, masters, slaves, plan.master)
               q == plan.list
               N == plan.size
    <2>1. fitting = Acceptable
      <3>1. clustered => {s \in owners \ sick : plan.master => s \in masters} = Preferred
        BY DEF Preferred, Serves
      <3>2. {s \in Known : plan.master => s \notin slaves}
              = {s \in Known : plan.master => role[s] # Slave}
        OBVIOUS
      <3> HIDE DEF owners, masters, slaves
      <3> QED
        BY <3>1, <3>2 DEF Fitting, Acceptable
    <2> HIDE DEF fitting
    <2>2. /\ N \in Nat /\ q \in Seq(Servers) /\ Len(q) <= N /\ ToSet(q) \subseteq fitting
          /\ Injective(q) /\ (Len(q) = N \/ ToSet(q) = fitting)
      <3>1. /\ N \in Nat /\ q \in Seq(Servers) /\ Len(q) <= N /\ ToSet(q) \subseteq fitting
            /\ Len(q) = N \/ ToSet(q) = fitting
            /\ \A j, k \in DOMAIN q : j < k => q[j] # q[k]
        BY <2>1 DEF PlanInv, PlanIsBest
      <3>2. \A j, k \in DOMAIN q : j \in Nat /\ k \in Nat
        BY <3>1
      <3>3. Injective(q)
        BY <3>1, <3>2 DEF Injective
      <3> QED
        BY <3>1, <3>3
    <2>3. Cardinality(ToSet(q)) = Len(q) /\ Len(q) \in Nat
      BY <2>2, CardinalityOfList
    <2>4. IsFiniteSet(fitting) /\ Cardinality(fitting) \in Nat
      <3>1. Known \subseteq Servers
        BY DEF Known, InSomeList, ToSet, PlanInv, ListsInv
      <3>2. fitting \subseteq Servers
        BY <2>1, <3>1 DEF Acceptable, Preferred
      <3> QED
        BY <3>2, WeightsAssumption, FS_Subset, FS_CardinalityType
    <2>5. Len(q) <= Cardinality(fitting)
      BY <2>2, <2>3, <2>4, FS_Subset
    <2> HIDE DEF q, N
    <2>6. Len(q) = IF N < Cardinality(fitting) THEN N ELSE Cardinality(fitting)
      <3>1. CASE Len(q) = N
        BY <2>3, <2>4, <2>5, <3>1
      <3>2. CASE ToSet(q) = fitting
        <4>1. Cardinality(fitting) = Len(q) /\ ~(N < Len(q))
          BY <2>2, <2>3, <3>2
        <4> QED
          BY <4>1
      <3> QED
        BY <2>2, <3>1, <3>2
    <2>7. q \in [1 .. Len(q) -> fitting] /\ DOMAIN q = 1 .. Len(q)
      <3>1. q \in [1 .. Len(q) -> Servers]
        BY <2>2
      <3>2. \A k \in 1 .. Len(q) : q[k] \in fitting
        BY <2>2, <3>1 DEF ToSet
      <3> QED
        BY <3>1, <3>2
    <2>8. q \in Sequences(fitting, Len(q))
      BY <2>2, <2>7 DEF Sequences, Injective
    <2>9. q \in PlansOf(fitting, N)
      BY <2>6, <2>8, Zenon DEF PlansOf
    <2> QED
      BY <2>9 DEF PlanAsPromised, fitting, q, N
  <1> QED
    BY <1>1, Invariance, PTL

\* The rotations distribute load: a server that could be first is passed over
\* by fewer plans in a row than there are servers.
THEOREM EveryoneHasATurn == Spec => []RoundRobin
  <1>1. PlanInv => RoundRobin
    <2> SUFFICES ASSUME PlanInv, NEW s \in Servers
                 PROVE  skipped[s] < Cardinality(Servers)
      BY DEF RoundRobin
    <2> USE DEF PlanInv, ListsInv
    <2>1. Cardinality(Servers) \in Nat /\ skipped[s] \in Nat
      BY WeightsAssumption, FS_CardinalityType
    <2>2. Cardinality(Servers) # 0
      BY WeightsAssumption, FS_EmptySet
    <2>3. CASE s \in Known
      <3>1. PICK l \in Lists : s \in ToSet(servers[l])
        BY <2>3 DEF Known, InSomeList
      <3>2. PICK k \in DOMAIN servers[l] : s = servers[l][k]
        BY <3>1 DEF ToSet
      <3>3. k \in Nat /\ k >= 1
        <4>1. servers[l] \in Seq(Servers)
          OBVIOUS
        <4> QED
          BY <4>1
      <3>4. skipped[s] + k <= Cardinality(Servers)
        BY <3>2 DEF TurnsInv
      <3> QED
        BY <2>1, <3>3, <3>4
    <2>4. CASE s \notin Known
      <3>1. skipped[s] = 0
        BY <2>4 DEF TurnsInv
      <3> QED
        BY <2>1, <2>2, <3>1
    <2> QED
      BY <2>3, <2>4
  <1> QED
    BY <1>1, Invariance, PTL
=============================================================================
