--------------------------- MODULE SharedPoolProofs ---------------------------
(***************************************************************************)
(* Proofs about SharedPool, for any number of workers, any size of the     *)
(* pool and any time-to-live.                                              *)
(***************************************************************************)
EXTENDS SharedPool, FiniteSetTheorems, SequenceTheorems, TLAPS

-----------------------------------------------------------------------------
(***************************************************************************)
(* Sets of workers and of contexts are finite.                             *)
(***************************************************************************)

\* The workers that were woken, and any state's busy list, can be counted.
LEMMA FiniteSets ==
    ASSUME TypeOK
    PROVE  /\ IsFiniteSet(Woken)
           /\ Cardinality(Woken) \in Nat
           /\ IsFiniteSet(busy_contexts)
           /\ Cardinality(busy_contexts) \in Nat
  <1>1. Woken \in SUBSET Workers
    BY DEF Woken
  <1>2. busy_contexts \in SUBSET Contexts
    BY DEF TypeOK
  <1>3. IsFiniteSet(Woken) /\ IsFiniteSet(busy_contexts)
    BY <1>1, <1>2, FS_Subset, WorkersAssumption, ContextsAssumption
  <1> QED
    BY <1>3, FS_CardinalityType

\* A set does not shrink when an element is added ...
LEMMA CountAdd ==
    ASSUME NEW S, IsFiniteSet(S), NEW x
    PROVE  /\ Cardinality(S \union {x}) \in Nat
           /\ Cardinality(S \union {x}) >= Cardinality(S)
  <1>1. /\ IsFiniteSet(S \union {x})
        /\ Cardinality(S \union {x}) = IF x \in S THEN Cardinality(S) ELSE Cardinality(S) + 1
    BY FS_AddElement
  <1>2. Cardinality(S) \in Nat
    BY FS_CardinalityType
  <1> QED
    BY <1>1, <1>2

\* ... and loses at most one when an element is removed.
LEMMA CountRemove ==
    ASSUME NEW S, IsFiniteSet(S), NEW x
    PROVE  /\ IsFiniteSet(S \ {x})
           /\ Cardinality(S \ {x}) \in Int
           /\ Cardinality(S \ {x}) >= Cardinality(S) - 1
  <1>1. /\ IsFiniteSet(S \ {x})
        /\ Cardinality(S \ {x}) = IF x \in S THEN Cardinality(S) - 1 ELSE Cardinality(S)
    BY FS_RemoveElement
  <1>2. Cardinality(S) \in Nat
    BY FS_CardinalityType
  <1> QED
    BY <1>1, <1>2

\* The free list is a sequence of contexts.
LEMMA FreeList ==
    ASSUME TypeOK
    PROVE  /\ Len(free_contexts) \in Nat
           /\ DOMAIN free_contexts = 1 .. Len(free_contexts)
           /\ \A i \in DOMAIN free_contexts : free_contexts[i] \in Contexts
  <1>1. free_contexts \in Seq(Contexts)
    BY DEF TypeOK
  <1> QED
    BY <1>1, LenProperties, ElementOfSeq

-----------------------------------------------------------------------------
(***************************************************************************)
(* pthread_cond_signal() wakes a worker whenever one is waiting.           *)
(***************************************************************************)

\* What Signal(at) does to the worker w that sends it and moves to "idle",
\* to the workers that wait and to the ones that were woken.
LEMMA SignalEffect ==
    ASSUME TypeOK, NEW w \in Workers, pc[w] # "waiting",
           Signal([pc EXCEPT ![w] = "idle"])
    PROVE  /\ pc' \in [Workers -> PC]
           /\ pc'[w] = "idle"
           /\ \A v \in Workers : pc'[v] = "busy" <=> v # w /\ pc[v] = "busy"
           /\ \/ Waiting' = {} /\ Waiting = {}
              \/ \E x \in Waiting : x # w /\ Woken' = (Woken \ {w}) \union {x}
  <1> DEFINE at == [pc EXCEPT ![w] = "idle"]
             waiting == {v \in Workers : at[v] = "waiting"}
  <1>0. pc \in [Workers -> PC] /\ at \in [Workers -> PC] /\ at[w] = "idle"
        /\ \A v \in Workers : v # w => at[v] = pc[v]
    BY DEF TypeOK, PC
  <1>1. waiting = Waiting
    BY <1>0 DEF Waiting
  <1>2. CASE waiting = {}
    <2>1. pc' = at
      BY <1>2 DEF Signal
    <2>2. Waiting' = {}
      BY <2>1, <1>2 DEF Waiting
    <2> QED
      BY <2>1, <2>2, <1>0, <1>1, <1>2
  <1>3. CASE waiting # {}
    <2>1. PICK x \in waiting : pc' = [at EXCEPT ![x] = "woken"]
      BY <1>3 DEF Signal
    <2>2. x \in Workers /\ x # w /\ pc[x] = "waiting"
      BY <2>1, <1>0
    <2>3. pc' \in [Workers -> PC]
      BY <2>1, <1>0 DEF PC
    <2>4. /\ pc'[x] = "woken" /\ pc'[w] = "idle"
          /\ \A v \in Workers : v # w /\ v # x => pc'[v] = pc[v]
      BY <2>1, <2>2, <1>0
    <2>5. Woken' = (Woken \ {w}) \union {x}
      BY <2>2, <2>4 DEF Woken
    <2> QED
      BY <2>1, <2>2, <2>3, <2>4, <2>5, <1>1
  <1> QED
    BY <1>2, <1>3

-----------------------------------------------------------------------------
(***************************************************************************)
(* The free list after Reuse and after Unlock.                             *)
(***************************************************************************)

\* Taken(k) is the free list without its first k + 1 contexts.
LEMMA TakenEffect ==
    ASSUME TypeOK, NEW k \in Nat, k < Len(free_contexts)
    PROVE  /\ Taken(k) \in Seq(Contexts)
           /\ Len(Taken(k)) = Len(free_contexts) - k - 1
           /\ \A i \in 1 .. Len(Taken(k)) : Taken(k)[i] = free_contexts[i + k + 1]
  <1>1. /\ Len(free_contexts) \in Nat
        /\ \A i \in k + 2 .. Len(free_contexts) : free_contexts[i] \in Contexts
    BY FreeList
  <1> QED
    BY <1>1, SubSeqProperties DEF Taken

\* Append puts the context last and moves no other.
LEMMA AppendEffect ==
    ASSUME TypeOK, NEW c \in Contexts
    PROVE  /\ Append(free_contexts, c) \in Seq(Contexts)
           /\ Len(Append(free_contexts, c)) = Len(free_contexts) + 1
           /\ \A i \in 1 .. Len(free_contexts) + 1 :
                Append(free_contexts, c)[i] =
                  IF i <= Len(free_contexts) THEN free_contexts[i] ELSE c
  <1>1. free_contexts \in Seq(Contexts)
    BY DEF TypeOK
  <1> QED
    BY <1>1

\* Giving contexts back to the heap keeps the others as they are.
LEMMA FreeType ==
    ASSUME TypeOK, NEW freed
    PROVE  Free(freed) \in [Contexts -> ContextRecord]
  <1>1. FreedContext \in ContextRecord
    BY NumbersAssumption DEF FreedContext, ContextRecord, Times, SickForever
  <1> QED
    BY <1>1 DEF Free, TypeOK

\* new_rcontext() keeps the sickness timestamps in range.
LEMMA SicknessType ==
    ASSUME TypeOK, NEW t \in 0 .. MaxTime, ConnectOK(t) \/ ConnectFailed(t)
    PROVE  sickness' \in [tst : Times, exp : Times]
  <1>1. t \in Times /\ t + SicknessTTL \in Times
    BY NumbersAssumption DEF Times, SickForever
  <1> QED
    BY <1>1 DEF TypeOK, ConnectOK, ConnectFailed

\* So does a counter of db->stats.
LEMMA StatsType ==
    ASSUME TypeOK
    PROVE  \A n \in Int :
             /\ Dropped(n) \in [total : Int, dropped : Int, closed : Int]
             /\ \A i \in Int : Count(i, n) \in Int
  BY NumbersAssumption DEF TypeOK, Dropped, Count

-----------------------------------------------------------------------------
(***************************************************************************)
(* The invariant is inductive: one lemma per conjunct, one step per action *)
(* that can disturb it.                                                    *)
(***************************************************************************)

\* The actions that touch neither the worker threads nor the pool's lists.
Elsewhere ==
    \/ ProbeOK
    \/ ProbeFails
    \/ \E down \in BOOLEAN : SentinelUpdate(down)
    \/ WarmEvent
    \/ Tick
    \/ \E w \in Workers : CommandBreaks(w)

\* They are stuttering steps of everything the promises of the pool name.
LEMMA ElsewhereUnchanged ==
    ASSUME Elsewhere \/ UNCHANGED vars
    PROVE  UNCHANGED <<pc, held, ncontexts, free_contexts, busy_contexts>>
  BY DEF Elsewhere, ProbeOK, ProbeFails, SentinelUpdate, WarmEvent, Tick,
         CommandBreaks, vars, poolVars

\* Every step is one of the cases the lemmas below distinguish.
LEMMA StepCases ==
    ASSUME [Next]_vars
    PROVE  \/ Elsewhere \/ UNCHANGED vars
           \/ ColdEvent
           \/ \E w \in Workers :
                \/ Enter(w) \/ SpuriousWakeup(w)
                \/ Reuse(w) \/ Wait(w) \/ Connect(w) \/ FailToConnect(w) \/ Unlock(w)
  BY DEF Next, Step, Elsewhere

\* A worker that is executing a command holds a context.
LEMMA HeldContext ==
    ASSUME TypeOK, ExclusiveUse, NEW w \in Workers, pc[w] = "busy"
    PROVE  held[w] \in Contexts /\ held[w] \in busy_contexts
  BY DEF TypeOK, ExclusiveUse

\* What DropAll leaves of ncontexts is the number of busy contexts.
LEMMA LeftIsBusy ==
    ASSUME TypeOK, PoolConsistent
    PROVE  Left = Cardinality(busy_contexts) /\ Left \in Nat /\ Left <= ncontexts
  BY FiniteSets, FreeList DEF Left, PoolConsistent, TypeOK

\* Every step preserves the types.
LEMMA TypeStep ==
    ASSUME PoolInv, [Next]_vars
    PROVE  TypeOK'
  <1> USE DEF PoolInv
  <1>1. CASE UNCHANGED vars
    BY <1>1 DEF vars, poolVars, TypeOK
  <1>2. CASE ProbeOK \/ ProbeFails
    <2>1. clock \in 0 .. MaxTime
      BY DEF TypeOK
    <2>2. sickness' \in [tst : Times, exp : Times]
      BY <1>2, <2>1, SicknessType DEF ProbeOK, ProbeFails
    <2> QED
      BY <1>2, <2>2 DEF ProbeOK, ProbeFails, poolVars, TypeOK
  <1>3. ASSUME NEW down \in BOOLEAN, SentinelUpdate(down)
        PROVE  TypeOK'
    <2>1. SickForever \in Times /\ clock \in Times
      BY NumbersAssumption DEF TypeOK, Times, SickForever
    <2> QED
      BY <1>3, <2>1 DEF SentinelUpdate, poolVars, TypeOK
  <1>4. CASE WarmEvent
    BY <1>4, NumbersAssumption DEF WarmEvent, poolVars, TypeOK
  <1>5. CASE Tick
    BY <1>5, NumbersAssumption DEF Tick, poolVars, TypeOK
  <1>6. ASSUME NEW w \in Workers, CommandBreaks(w)
        PROVE  TypeOK'
    <2>1. held[w] \in Contexts
      BY <1>6, HeldContext DEF CommandBreaks
    <2>2. context' \in [Contexts -> ContextRecord]
      BY <1>6, <2>1 DEF CommandBreaks, TypeOK, ContextRecord
    <2> QED
      BY <1>6, <2>2 DEF CommandBreaks, TypeOK
  <1>7. CASE ColdEvent
    <2>1. context' \in [Contexts -> ContextRecord]
      BY <1>7, FreeType DEF ColdEvent
    <2>2. stats' \in [total : Int, dropped : Int, closed : Int]
      <3>1. Len(free_contexts) + Cardinality(busy_contexts) \in Int
        BY FiniteSets, FreeList
      <3> QED
        BY <1>7, <3>1, StatsType DEF ColdEvent, TypeOK
    <2>3. free_contexts' \in Seq(Contexts)
      BY <1>7 DEF ColdEvent
    <2>4. ncontexts' \in 0 .. MaxConnections /\ busy_contexts' \in SUBSET Contexts
      BY <1>7, NumbersAssumption DEF ColdEvent
    <2>5. UNCHANGED <<pc, now, held, sickness, version, clock>>
      BY <1>7 DEF ColdEvent
    <2> QED
      BY <2>1, <2>2, <2>3, <2>4, <2>5 DEF TypeOK
  <1>8. ASSUME NEW w \in Workers, Enter(w) \/ SpuriousWakeup(w)
        PROVE  TypeOK'
    <2>1. pc' \in [Workers -> PC]
      BY <1>8 DEF Enter, SpuriousWakeup, TypeOK, PC
    <2>2. now' \in [Workers -> 0 .. MaxTime]
      BY <1>8 DEF Enter, SpuriousWakeup, TypeOK
    <2> QED
      BY <1>8, <2>1, <2>2 DEF Enter, SpuriousWakeup, poolVars, TypeOK
  <1>9. ASSUME NEW w \in Workers, Reuse(w)
        PROVE  TypeOK'
    <2>1. PICK k \in 0 .. Len(free_contexts) :
            /\ k < Len(free_contexts)
            /\ held' = [held EXCEPT ![w] = free_contexts[k + 1]]
            /\ busy_contexts' = busy_contexts \union {free_contexts[k + 1]}
            /\ free_contexts' = Taken(k)
            /\ ncontexts' = ncontexts - k
            /\ context' = Free({free_contexts[i] : i \in 1 .. k})
            /\ stats' = Dropped(k)
      BY <1>9 DEF Reuse, FirstValid
    <2>2. k \in Nat /\ free_contexts[k + 1] \in Contexts
      BY <2>1, FreeList
    <2>3. held' \in [Workers -> Contexts \union {NoContext}] /\ busy_contexts' \in SUBSET Contexts
      BY <2>1, <2>2 DEF TypeOK
    <2>4. free_contexts' \in Seq(Contexts)
      BY <2>1, <2>2, TakenEffect
    <2>5. ncontexts' \in 0 .. MaxConnections
      BY <2>1, <2>2, LeftIsBusy, FreeList, NumbersAssumption DEF TypeOK, Left
    <2>6. context' \in [Contexts -> ContextRecord]
      BY <2>1, FreeType
    <2>7. stats' \in [total : Int, dropped : Int, closed : Int]
      BY <2>1, <2>2, StatsType
    <2>8. pc' \in [Workers -> PC] /\ now' \in [Workers -> 0 .. MaxTime]
      BY <1>9, NumbersAssumption DEF Reuse, TypeOK, PC
    <2> QED
      BY <1>9, <2>3, <2>4, <2>5, <2>6, <2>7, <2>8 DEF Reuse, TypeOK
  <1>10. ASSUME NEW w \in Workers, Wait(w) \/ Connect(w) \/ FailToConnect(w)
         PROVE  TypeOK'
    <2>1. free_contexts' \in Seq(Contexts)
      <3>1. free_contexts' = << >>
        BY <1>10 DEF Wait, Connect, FailToConnect, DropAll
      <3> QED
        BY <3>1, EmptySeq
    <2>2. ncontexts' \in 0 .. MaxConnections
      BY <1>10, LeftIsBusy, NumbersAssumption
         DEF Wait, Connect, FailToConnect, Full, TypeOK
    <2>3. stats' \in [total : Int, dropped : Int, closed : Int]
      <3>1. stats' = Dropped(Len(free_contexts))
            \/ stats' = [total |-> Count(stats.total, 1),
                         dropped |-> Count(stats.dropped, Len(free_contexts)),
                         closed |-> stats.closed]
        BY <1>10 DEF Wait, Connect, FailToConnect
      <3>2. Len(free_contexts) \in Int /\ 1 \in Int
            /\ stats \in [total : Int, dropped : Int, closed : Int]
        BY FreeList DEF TypeOK
      <3>3. Count(stats.total, 1) \in Int /\ Count(stats.dropped, Len(free_contexts)) \in Int
        BY <3>2, StatsType
      <3>4. Dropped(Len(free_contexts)) \in [total : Int, dropped : Int, closed : Int]
        BY <3>2, StatsType
      <3> QED
        BY <3>1, <3>2, <3>3, <3>4
    <2>4. now[w] \in 0 .. MaxTime /\ now' \in [Workers -> 0 .. MaxTime]
      BY <1>10, NumbersAssumption DEF Wait, Connect, FailToConnect, TypeOK
    <2>5. sickness' \in [tst : Times, exp : Times]
      BY <1>10, <2>4, SicknessType DEF Wait, Connect, FailToConnect, TypeOK
    <2>6. pc' \in [Workers -> PC]
      <3>1. CASE Wait(w) \/ Connect(w)
        BY <3>1 DEF Wait, Connect, TypeOK, PC
      <3>2. CASE FailToConnect(w)
        <4>1. pc[w] # "waiting"
          BY <3>2 DEF FailToConnect, DropAll, InSection
        <4> QED
          BY <3>2, <4>1, SignalEffect DEF FailToConnect, WakeOnFailure
      <3> QED
        BY <1>10, <3>1, <3>2
    <2>7. CASE Wait(w) \/ FailToConnect(w)
      <3>1. context' \in [Contexts -> ContextRecord]
        BY <2>7, FreeType DEF Wait, FailToConnect
      <3> QED
        BY <2>7, <2>1, <2>2, <2>3, <2>4, <2>5, <2>6, <3>1 DEF Wait, FailToConnect, TypeOK
    <2>8. CASE Connect(w)
      <3>1. PICK c \in Contexts \ busy_contexts :
              /\ held' = [held EXCEPT ![w] = c]
              /\ busy_contexts' = busy_contexts \union {c}
              /\ context' = [Free(ToSet(free_contexts)) EXCEPT ![c] =
                               [version |-> version, tst |-> now[w], err |-> FALSE]]
        BY <2>8 DEF Connect
      <3>2. now[w] \in Times
        BY <2>4, NumbersAssumption DEF Times, SickForever
      <3>3. context' \in [Contexts -> ContextRecord]
        BY <3>1, <3>2, FreeType DEF ContextRecord, TypeOK
      <3> QED
        BY <2>8, <2>1, <2>2, <2>3, <2>4, <2>5, <2>6, <3>1, <3>3 DEF Connect, TypeOK
    <2> QED
      BY <1>10, <2>7, <2>8
  <1>11. ASSUME NEW w \in Workers, Unlock(w)
         PROVE  TypeOK'
    <2>1. pc[w] = "busy" /\ held[w] \in Contexts
      BY <1>11, HeldContext DEF Unlock
    <2>2. free_contexts' \in Seq(Contexts)
      BY <1>11, <2>1, AppendEffect DEF Unlock
    <2>3. pc' \in [Workers -> PC]
      BY <1>11, <2>1, SignalEffect DEF Unlock, WakeOnRelease
    <2> QED
      BY <1>11, <2>2, <2>3 DEF Unlock, TypeOK
  <1> QED
    BY <1>1, <1>2, <1>3, <1>4, <1>5, <1>6, <1>7, <1>8, <1>9, <1>10, <1>11
       DEF Next, Step

\* A context enters a list only from the other list, or fresh from the heap
\* with ncontexts++; it leaves the pool with ncontexts--.
LEMMA ConsistentStep ==
    ASSUME PoolInv, [Next]_vars
    PROVE  PoolConsistent'
  <1> USE DEF PoolInv
  <1>1. CASE Elsewhere \/ UNCHANGED vars
    BY <1>1, ElsewhereUnchanged DEF PoolConsistent
  <1>2. CASE ColdEvent
    <2>1. ncontexts' = 0 /\ free_contexts' = << >> /\ busy_contexts' = {}
      BY <1>2 DEF ColdEvent
    <2>2. Len(free_contexts') = 0 /\ DOMAIN free_contexts' = {}
      BY <2>1
    <2> QED
      BY <2>1, <2>2, FS_EmptySet DEF PoolConsistent
  <1>3. ASSUME NEW w \in Workers, Enter(w) \/ SpuriousWakeup(w)
        PROVE  PoolConsistent'
    BY <1>3 DEF Enter, SpuriousWakeup, poolVars, PoolConsistent
  <1>4. ASSUME NEW w \in Workers, Reuse(w)
        PROVE  PoolConsistent'
    <2>1. PICK k \in 0 .. Len(free_contexts) :
            /\ k < Len(free_contexts)
            /\ busy_contexts' = busy_contexts \union {free_contexts[k + 1]}
            /\ free_contexts' = Taken(k)
            /\ ncontexts' = ncontexts - k
      BY <1>4 DEF Reuse, FirstValid
    <2>2. /\ k \in Nat /\ k + 1 \in DOMAIN free_contexts
          /\ Len(free_contexts) \in Nat /\ DOMAIN free_contexts = 1 .. Len(free_contexts)
      BY <2>1, FreeList
    <2>3. /\ Len(free_contexts') = Len(free_contexts) - k - 1
          /\ DOMAIN free_contexts' = 1 .. Len(free_contexts')
          /\ \A i \in DOMAIN free_contexts' : /\ i + k + 1 \in DOMAIN free_contexts
                                              /\ free_contexts'[i] = free_contexts[i + k + 1]
      <3>1. Taken(k) \in Seq(Contexts)
        BY <2>1, <2>2, TakenEffect
      <3>2. DOMAIN Taken(k) = 1 .. Len(Taken(k))
        BY <3>1, LenProperties
      <3> QED
        BY <2>1, <2>2, <3>2, TakenEffect
    <2>4. free_contexts[k + 1] \notin busy_contexts
      BY <2>2 DEF PoolConsistent
    <2>5. Cardinality(busy_contexts') = Cardinality(busy_contexts) + 1
      BY <2>1, <2>4, FiniteSets, FS_AddElement
    <2>6. ncontexts' = Len(free_contexts') + Cardinality(busy_contexts')
      <3>1. ncontexts = Len(free_contexts) + Cardinality(busy_contexts)
        BY DEF PoolConsistent
      <3>2. Cardinality(busy_contexts) \in Nat
        BY FiniteSets
      <3> QED
        BY <2>1, <2>2, <2>3, <2>5, <3>1, <3>2
    <2>7. \A i, j \in DOMAIN free_contexts' :
            free_contexts'[i] = free_contexts'[j] => i = j
      <3> SUFFICES ASSUME NEW i \in DOMAIN free_contexts', NEW j \in DOMAIN free_contexts',
                          free_contexts'[i] = free_contexts'[j]
                   PROVE  i = j
        OBVIOUS
      <3>1. i + k + 1 = j + k + 1
        BY <2>3 DEF PoolConsistent
      <3> QED
        BY <3>1, <2>2, <2>3
    <2>8. \A i \in DOMAIN free_contexts' : free_contexts'[i] \notin busy_contexts'
      <3> SUFFICES ASSUME NEW i \in DOMAIN free_contexts'
                   PROVE  free_contexts'[i] \notin busy_contexts'
        OBVIOUS
      <3>1. i + k + 1 # k + 1
        BY <2>2, <2>3
      <3>2. free_contexts[i + k + 1] # free_contexts[k + 1]
        BY <3>1, <2>2, <2>3 DEF PoolConsistent
      <3> QED
        BY <3>2, <2>1, <2>3 DEF PoolConsistent
    <2> QED
      BY <2>6, <2>7, <2>8 DEF PoolConsistent
  <1>5. ASSUME NEW w \in Workers, Wait(w) \/ Connect(w) \/ FailToConnect(w)
        PROVE  PoolConsistent'
    <2>1. free_contexts' = << >>
      BY <1>5 DEF Wait, Connect, FailToConnect, DropAll
    <2>2. Len(free_contexts') = 0 /\ DOMAIN free_contexts' = {}
      BY <2>1
    <2>3. ncontexts' = Cardinality(busy_contexts')
      <3>1. CASE Wait(w) \/ FailToConnect(w)
        BY <3>1, LeftIsBusy DEF Wait, FailToConnect
      <3>2. CASE Connect(w)
        <4>1. PICK c \in Contexts \ busy_contexts : busy_contexts' = busy_contexts \union {c}
          BY <3>2 DEF Connect
        <4>2. Cardinality(busy_contexts') = Cardinality(busy_contexts) + 1
          BY <4>1, FiniteSets, FS_AddElement
        <4> QED
          BY <3>2, <4>2, LeftIsBusy DEF Connect
      <3> QED
        BY <1>5, <3>1, <3>2
    <2>4. Cardinality(busy_contexts') \in Nat
      BY <2>3, TypeStep DEF TypeOK
    <2> QED
      BY <2>2, <2>3, <2>4 DEF PoolConsistent
  <1>6. ASSUME NEW w \in Workers, Unlock(w)
        PROVE  PoolConsistent'
    <2>1. held[w] \in Contexts /\ held[w] \in busy_contexts
      BY <1>6, HeldContext DEF Unlock
    <2>2. /\ busy_contexts' = busy_contexts \ {held[w]}
          /\ free_contexts' = Append(free_contexts, held[w])
          /\ ncontexts' = ncontexts
      BY <1>6 DEF Unlock
    <2>3. /\ Len(free_contexts') = Len(free_contexts) + 1
          /\ DOMAIN free_contexts' = 1 .. Len(free_contexts) + 1
          /\ \A i \in DOMAIN free_contexts' :
               free_contexts'[i] = IF i <= Len(free_contexts) THEN free_contexts[i] ELSE held[w]
      <3>1. Append(free_contexts, held[w]) \in Seq(Contexts)
        BY <2>1, AppendEffect
      <3>2. DOMAIN Append(free_contexts, held[w]) = 1 .. Len(Append(free_contexts, held[w]))
        BY <3>1, LenProperties
      <3> QED
        BY <2>1, <2>2, <3>2, AppendEffect
    <2>4. Cardinality(busy_contexts') = Cardinality(busy_contexts) - 1
      BY <2>1, <2>2, FiniteSets, FS_RemoveElement
    <2>5. ncontexts' = Len(free_contexts') + Cardinality(busy_contexts')
      BY <2>2, <2>3, <2>4, FiniteSets, FreeList DEF PoolConsistent
    <2>6. \A i, j \in DOMAIN free_contexts' :
            free_contexts'[i] = free_contexts'[j] => i = j
      BY <2>1, <2>3, FreeList DEF PoolConsistent
    <2>7. \A i \in DOMAIN free_contexts' : free_contexts'[i] \notin busy_contexts'
      BY <2>1, <2>2, <2>3, FreeList DEF PoolConsistent
    <2> QED
      BY <2>5, <2>6, <2>7 DEF PoolConsistent
  <1> QED
    BY StepCases, <1>1, <1>2, <1>3, <1>4, <1>5, <1>6

\* A context has a user exactly while it is in the busy list.
LEMMA ExclusiveStep ==
    ASSUME PoolInv, [Next]_vars
    PROVE  ExclusiveUse'
  <1> USE DEF PoolInv
  <1> DEFINE Users == {v \in Workers : pc[v] = "busy"}
  <1>0. NoContext \notin Contexts
    BY ContextsAssumption
  <1>1. CASE Elsewhere \/ UNCHANGED vars
    BY <1>1, ElsewhereUnchanged DEF ExclusiveUse
  <1>2. CASE ColdEvent
    <2>1. \A w \in Workers : pc'[w] = "idle" /\ held'[w] = NoContext
      BY <1>2 DEF ColdEvent, ExclusiveUse
    <2>2. busy_contexts' = {}
      BY <1>2 DEF ColdEvent
    <2> QED
      BY <2>1, <2>2 DEF ExclusiveUse
  <1>3. ASSUME NEW w \in Workers, Enter(w) \/ SpuriousWakeup(w) \/ Wait(w)
        PROVE  ExclusiveUse'
    <2>1. held' = held /\ busy_contexts' = busy_contexts
      BY <1>3 DEF Enter, SpuriousWakeup, Wait, poolVars
    <2>2. \A v \in Workers : pc'[v] = "busy" <=> pc[v] = "busy"
      BY <1>3 DEF Enter, SpuriousWakeup, Wait, DropAll, InSection, TypeOK
    <2>3. Users' = Users
      BY <2>2
    <2> QED
      BY <2>1, <2>2, <2>3 DEF ExclusiveUse
  <1>4. ASSUME NEW w \in Workers, FailToConnect(w)
        PROVE  ExclusiveUse'
    <2>1. held' = held /\ busy_contexts' = busy_contexts /\ pc[w] \in {"locking", "woken"}
      BY <1>4 DEF FailToConnect, DropAll, InSection
    <2>2. \A v \in Workers : pc'[v] = "busy" <=> pc[v] = "busy"
      BY <1>4, <2>1, SignalEffect DEF FailToConnect, WakeOnFailure
    <2>3. Users' = Users
      BY <2>2
    <2> QED
      BY <2>1, <2>2, <2>3 DEF ExclusiveUse
  <1>5. ASSUME NEW w \in Workers, Reuse(w) \/ Connect(w)
        PROVE  ExclusiveUse'
    <2>1. PICK c \in Contexts : /\ c \notin busy_contexts
                                /\ held' = [held EXCEPT ![w] = c]
                                /\ busy_contexts' = busy_contexts \union {c}
      <3>1. CASE Connect(w)
        BY <3>1 DEF Connect
      <3>2. CASE Reuse(w)
        <4>1. PICK k \in 0 .. Len(free_contexts) :
                /\ k < Len(free_contexts)
                /\ held' = [held EXCEPT ![w] = free_contexts[k + 1]]
                /\ busy_contexts' = busy_contexts \union {free_contexts[k + 1]}
          BY <3>2 DEF Reuse, FirstValid
        <4>2. k + 1 \in DOMAIN free_contexts /\ free_contexts[k + 1] \in Contexts
          BY <4>1, FreeList
        <4> QED
          BY <4>1, <4>2 DEF PoolConsistent
      <3> QED
        BY <1>5, <3>1, <3>2
    <2>2. pc' = [pc EXCEPT ![w] = "busy"] /\ pc[w] # "busy"
      BY <1>5 DEF Reuse, Connect, DropAll, InSection
    <2>3. /\ pc'[w] = "busy" /\ held'[w] = c /\ held[w] = NoContext
          /\ \A v \in Workers : v # w => pc'[v] = pc[v] /\ held'[v] = held[v]
      BY <2>1, <2>2 DEF TypeOK, ExclusiveUse
    <2>4. \A v \in Workers : held[v] # c
      BY <2>1, <1>0 DEF ExclusiveUse
    <2>5. Users' = Users \union {w}
      BY <2>3
    <2>6. \A v \in Workers : held'[v] # NoContext <=> pc'[v] = "busy"
      BY <2>1, <2>3, <1>0 DEF ExclusiveUse
    <2>7. \A u, v \in Workers : held'[u] = held'[v] /\ held'[u] # NoContext => u = v
      BY <2>3, <2>4 DEF ExclusiveUse
    <2>8. busy_contexts' = {held'[v] : v \in Users'}
      BY <2>1, <2>2, <2>3, <2>5 DEF ExclusiveUse
    <2> QED
      BY <2>6, <2>7, <2>8 DEF ExclusiveUse
  <1>6. ASSUME NEW w \in Workers, Unlock(w)
        PROVE  ExclusiveUse'
    <2>1. /\ pc[w] = "busy"
          /\ held' = [held EXCEPT ![w] = NoContext]
          /\ busy_contexts' = busy_contexts \ {held[w]}
      BY <1>6 DEF Unlock
    <2>2. \A v \in Workers : pc'[v] = "busy" <=> v # w /\ pc[v] = "busy"
      BY <1>6, <2>1, SignalEffect DEF Unlock, WakeOnRelease
    <2>3. held'[w] = NoContext /\ \A v \in Workers : v # w => held'[v] = held[v]
      BY <2>1 DEF TypeOK
    <2>4. Users' = Users \ {w}
      BY <2>2
    <2>5. \A v \in Workers : held'[v] # NoContext <=> pc'[v] = "busy"
      BY <2>2, <2>3 DEF ExclusiveUse
    <2>6. \A u, v \in Workers : held'[u] = held'[v] /\ held'[u] # NoContext => u = v
      BY <2>3 DEF ExclusiveUse
    <2>7. busy_contexts' = {held'[v] : v \in Users'}
      <3>1. busy_contexts = {held[v] : v \in Users}
        BY DEF ExclusiveUse
      <3>2. \A v \in Users : v # w => held[v] # held[w]
        BY DEF ExclusiveUse
      <3> QED
        BY <2>1, <2>3, <2>4, <3>1, <3>2
    <2> QED
      BY <2>5, <2>6, <2>7 DEF ExclusiveUse
  <1> QED
    BY StepCases, <1>1, <1>2, <1>3, <1>4, <1>5, <1>6

\* Whoever gives up a connection that a sleeping worker could use wakes one.
LEMMA WakeupStep ==
    ASSUME PoolInv, [Next]_vars
    PROVE  NoLostWakeup'
  <1> USE DEF PoolInv
  <1>0. /\ IsFiniteSet(Woken) /\ Cardinality(Woken) \in Nat
        /\ Len(free_contexts) \in Nat /\ ncontexts \in Nat /\ MaxConnections \in Nat
    BY FiniteSets, FreeList, NumbersAssumption DEF TypeOK
  <1>00. Spare \in Int /\ Spare = MaxConnections - Left /\ Left \in Nat
    BY <1>0, LeftIsBusy DEF Spare, Left
  <1>1. CASE Elsewhere \/ UNCHANGED vars
    BY <1>1, ElsewhereUnchanged DEF NoLostWakeup, Waiting, Woken, Spare
  <1>2. CASE ColdEvent
    <2>1. Waiting' = {}
      BY <1>2 DEF ColdEvent, Waiting
    <2> QED
      BY <2>1 DEF NoLostWakeup
  <1>3. ASSUME NEW w \in Workers, Enter(w)
        PROVE  NoLostWakeup'
    <2>1. Waiting' = Waiting /\ Woken' = Woken
      BY <1>3 DEF Enter, Waiting, Woken, TypeOK
    <2>2. Spare' = Spare
      BY <1>3 DEF Enter, poolVars, Spare
    <2> QED
      BY <2>1, <2>2 DEF NoLostWakeup
  <1>4. ASSUME NEW w \in Workers, SpuriousWakeup(w)
        PROVE  NoLostWakeup'
    <2>1. w \in Waiting /\ Woken' = Woken \union {w}
      BY <1>4 DEF SpuriousWakeup, Waiting, Woken, TypeOK
    <2>2. Spare' = Spare
      BY <1>4 DEF SpuriousWakeup, poolVars, Spare
    <2>3. Cardinality(Woken') >= Cardinality(Woken)
      BY <2>1, <1>0, CountAdd
    <2>4. Cardinality(Woken) >= Spare
      BY <2>1 DEF NoLostWakeup
    <2>5. Cardinality(Woken') \in Nat
      BY <2>1, <1>0, CountAdd
    <2> QED
      BY <2>2, <2>3, <2>4, <2>5, <1>0, <1>00 DEF NoLostWakeup
  <1>5. ASSUME NEW w \in Workers, Reuse(w) \/ Connect(w)
        PROVE  NoLostWakeup'
    <2>1. Spare' = Spare - 1
      <3>1. CASE Connect(w)
        <4>1. ncontexts' = Left + 1 /\ free_contexts' = << >>
          BY <3>1 DEF Connect, DropAll
        <4>2. Len(free_contexts') = 0
          BY <4>1
        <4> QED
          BY <4>1, <4>2, <1>0, <1>00 DEF Spare
      <3>2. CASE Reuse(w)
        <4>1. PICK k \in 0 .. Len(free_contexts) :
                k < Len(free_contexts) /\ free_contexts' = Taken(k) /\ ncontexts' = ncontexts - k
          BY <3>2 DEF Reuse, FirstValid
        <4>2. Len(free_contexts') = Len(free_contexts) - k - 1
          BY <4>1, <1>0, TakenEffect
        <4> QED
          BY <4>1, <4>2, <1>0 DEF Spare
      <3> QED
        BY <1>5, <3>1, <3>2
    <2>2. Waiting' = Waiting /\ Woken' = Woken \ {w}
      BY <1>5 DEF Reuse, Connect, DropAll, InSection, Waiting, Woken, TypeOK
    <2>3. Cardinality(Woken') \in Int /\ Cardinality(Woken') >= Cardinality(Woken) - 1
      BY <2>2, <1>0, CountRemove
    <2> QED
      BY <2>1, <2>2, <2>3, <1>0, <1>00 DEF NoLostWakeup
  <1>6. ASSUME NEW w \in Workers, Wait(w)
        PROVE  NoLostWakeup'
    <2>1. ncontexts' = Left /\ free_contexts' = << >> /\ Left >= MaxConnections
      BY <1>6 DEF Wait, DropAll, Full
    <2>2. Len(free_contexts') = 0
      BY <2>1
    <2>3. Spare' <= 0 /\ Spare' \in Int
      BY <2>1, <2>2, <1>0, <1>00 DEF Spare
    <2>4. Woken' \in SUBSET Workers
      BY DEF Woken
    <2>5. Cardinality(Woken') \in Nat
      BY <2>4, FS_Subset, FS_CardinalityType, WorkersAssumption
    <2> QED
      BY <2>3, <2>5 DEF NoLostWakeup
  <1>7. ASSUME NEW w \in Workers, FailToConnect(w)
        PROVE  NoLostWakeup'
    <2>1. ncontexts' = Left /\ free_contexts' = << >> /\ pc[w] # "waiting"
      BY <1>7 DEF FailToConnect, DropAll, InSection
    <2>2. Len(free_contexts') = 0
      BY <2>1
    <2>3. Spare' = Spare
      BY <2>1, <2>2, <1>0, <1>00 DEF Spare
    <2>4. \/ Waiting' = {} /\ Waiting = {}
          \/ \E x \in Waiting : x # w /\ Woken' = (Woken \ {w}) \union {x}
      BY <1>7, <2>1, SignalEffect DEF FailToConnect, WakeOnFailure
    <2>5. CASE Waiting' = {}
      BY <2>5 DEF NoLostWakeup
    <2>6. ASSUME NEW x \in Waiting, x # w, Woken' = (Woken \ {w}) \union {x}
          PROVE  NoLostWakeup'
      <3>1. x \notin Woken
        BY <2>6 DEF Waiting, Woken
      <3>2. IsFiniteSet(Woken \ {w}) /\ Cardinality(Woken \ {w}) >= Cardinality(Woken) - 1
            /\ Cardinality(Woken \ {w}) \in Int
        BY <1>0, CountRemove
      <3>3. Cardinality(Woken') = Cardinality(Woken \ {w}) + 1
        BY <2>6, <3>1, <3>2, FS_AddElement
      <3>4. Cardinality(Woken) >= Spare
        BY <2>6 DEF NoLostWakeup
      <3> QED
        BY <2>3, <3>2, <3>3, <3>4, <1>0, <1>00 DEF NoLostWakeup
    <2> QED
      BY <2>4, <2>5, <2>6
  <1>8. ASSUME NEW w \in Workers, Unlock(w)
        PROVE  NoLostWakeup'
    <2>1. pc[w] = "busy" /\ held[w] \in Contexts
      BY <1>8, HeldContext DEF Unlock
    <2>2. ncontexts' = ncontexts /\ Len(free_contexts') = Len(free_contexts) + 1
      BY <1>8, <2>1, AppendEffect DEF Unlock
    <2>3. Spare' = Spare + 1
      BY <2>2, <1>0 DEF Spare
    <2>4. \/ Waiting' = {} /\ Waiting = {}
          \/ \E x \in Waiting : x # w /\ Woken' = (Woken \ {w}) \union {x}
      BY <1>8, <2>1, SignalEffect DEF Unlock, WakeOnRelease
    <2>5. CASE Waiting' = {}
      BY <2>5 DEF NoLostWakeup
    <2>6. ASSUME NEW x \in Waiting, x # w, Woken' = (Woken \ {w}) \union {x}
          PROVE  NoLostWakeup'
      <3>1. x \notin Woken /\ Woken \ {w} = Woken
        BY <2>1, <2>6 DEF Waiting, Woken
      <3>2. Cardinality(Woken') = Cardinality(Woken) + 1
        BY <2>6, <3>1, <1>0, FS_AddElement
      <3>3. Cardinality(Woken) >= Spare
        BY <2>6 DEF NoLostWakeup
      <3> QED
        BY <2>3, <3>2, <3>3, <1>0, <1>00 DEF NoLostWakeup
    <2> QED
      BY <2>4, <2>5, <2>6
  <1> QED
    BY StepCases, <1>1, <1>2, <1>3, <1>4, <1>5, <1>6, <1>7, <1>8

-----------------------------------------------------------------------------
(***************************************************************************)
(* The theorems.                                                           *)
(***************************************************************************)

\* PoolInv holds initially and every step preserves it.
THEOREM Invariance == Spec => []PoolInv
  <1>1. Init => PoolInv
    <2> SUFFICES ASSUME Init
                 PROVE  PoolInv
      OBVIOUS
    <2>1. TypeOK
      <3>1. FreedContext \in ContextRecord
        BY NumbersAssumption DEF FreedContext, ContextRecord, Times, SickForever
      <3>2. 0 \in Times
        BY NumbersAssumption DEF Times, SickForever
      <3>3. << >> \in Seq(Contexts)
        BY EmptySeq
      <3> QED
        BY <3>1, <3>2, <3>3, NumbersAssumption DEF Init, TypeOK, PC
    <2>2. PoolConsistent
      BY FS_EmptySet DEF Init, PoolConsistent
    <2>3. ExclusiveUse
      BY DEF Init, ExclusiveUse
    <2>4. NoLostWakeup
      BY DEF Init, NoLostWakeup, Waiting
    <2> QED
      BY <2>1, <2>2, <2>3, <2>4 DEF PoolInv
  <1>2. PoolInv /\ [Next]_vars => PoolInv'
    BY TypeStep, ConsistentStep, ExclusiveStep, WakeupStep DEF PoolInv
  <1> QED
    BY <1>1, <1>2, PTL DEF Spec

\* Types: in particular ncontexts never exceeds max_connections.
THEOREM TypeCorrect == Spec => []TypeOK
  <1>1. PoolInv => TypeOK
    BY DEF PoolInv
  <1> QED
    BY <1>1, Invariance, PTL

\* ncontexts always counts the contexts of the two disjoint lists.
THEOREM Consistency == Spec => []PoolConsistent
  <1>1. PoolInv => PoolConsistent
    BY DEF PoolInv
  <1> QED
    BY <1>1, Invariance, PTL

\* No two workers ever use the same connection.
THEOREM Exclusion == Spec => []ExclusiveUse
  <1>1. PoolInv => ExclusiveUse
    BY DEF PoolInv
  <1> QED
    BY <1>1, Invariance, PTL

\* No wakeup is lost, whatever the number of workers and connections.
THEOREM WakeupsReachWaiters == Spec => []NoLostWakeup
  <1>1. PoolInv => NoLostWakeup
    BY DEF PoolInv
  <1> QED
    BY <1>1, Invariance, PTL

\* With room for at least one connection the workers never all wait for each
\* other: a sleeping worker has one to wake it, or one already on its way.
THEOREM SomeoneWillSignal ==
    ASSUME MaxConnections > 0
    PROVE  Spec => []NeverStuck
  <1>1. PoolInv => NeverStuck
    <2> SUFFICES ASSUME PoolInv, Waiting # {}, \A w \in Workers : pc[w] # "woken" /\ pc[w] # "busy"
                 PROVE  FALSE
      BY DEF NeverStuck
    <2>1. Woken = {}
      BY DEF Woken
    <2>2. busy_contexts = {}
      BY DEF PoolInv, ExclusiveUse
    <2>3. ncontexts = Len(free_contexts)
      BY <2>2, FS_EmptySet, FreeList DEF PoolInv, PoolConsistent
    <2>4. Len(free_contexts) \in Nat /\ MaxConnections \in Nat
      BY FreeList, NumbersAssumption DEF PoolInv
    <2>5. Spare = MaxConnections
      BY <2>3, <2>4 DEF Spare
    <2>6. Cardinality(Woken) = 0
      BY <2>1, FS_EmptySet
    <2> QED
      BY <2>4, <2>5, <2>6 DEF PoolInv, NoLostWakeup
  <1> QED
    BY <1>1, Invariance, PTL

-----------------------------------------------------------------------------
(***************************************************************************)
(* Statistics: counters that wrap around still add up.                     *)
(***************************************************************************)

\* Division with remainder ...
LEMMA Division ==
    ASSUME NEW M \in Nat \ {0}, NEW a \in Int
    PROVE  a = M * (a \div M) + (a % M) /\ a % M \in 0 .. M - 1 /\ a \div M \in Int
  BY SMTT(30)

\* ... and its remainder, which is the only one there is.
LEMMA Remainder ==
    ASSUME NEW M \in Nat \ {0}, NEW q \in Int, NEW r \in 0 .. M - 1
    PROVE  (M * q + r) % M = r
  BY SMTT(30)

\* A counter may wrap around before or after something is added to it.
LEMMA WrapAround ==
    ASSUME NEW M \in Nat \ {0}, NEW a \in Int, NEW b \in Int
    PROVE  ((a % M) + b) % M = (a + b) % M
  <1> DEFINE q == a \div M
             r == a % M
             p == (r + b) \div M
             s == (r + b) % M
  <1>1. a = M * q + r /\ r \in 0 .. M - 1 /\ q \in Int
    BY Division
  <1>2. r + b \in Int
    BY <1>1
  <1>3. r + b = M * p + s /\ s \in 0 .. M - 1 /\ p \in Int
    BY <1>2, Division
  <1> HIDE DEF q, r, p, s
  <1>4. M * (q + p) = M * q + M * p
    BY <1>1, <1>3
  <1>5. a + b = M * (q + p) + s
    BY <1>1, <1>3, <1>4
  <1>6. (M * (q + p) + s) % M = s
    <2>1. q + p \in Int
      BY <1>1, <1>3
    <2> QED
      BY <2>1, <1>3, Remainder
  <1> QED
    BY <1>5, <1>6 DEF r, s

\* Every step keeps the balance of the statistics.
LEMMA StatsStep ==
    ASSUME PoolInv, StatsBalance, [Next]_vars
    PROVE  StatsBalance'
  <1> DEFINE M == StatsModulus
             t == stats.total
             d == stats.dropped
             c == stats.closed
             n == ncontexts
             len == Len(free_contexts)
  <1>0. /\ M \in Nat \ {0} /\ t \in Int /\ d \in Int /\ c \in Int /\ n \in Int
        /\ len \in Nat
    BY NumbersAssumption, FreeList DEF PoolInv, TypeOK
  <1>1. t = (n + d + c) % M
    BY <1>0 DEF StatsBalance, Count
  <1> HIDE DEF M, t, d, c, n, len
  <1>2. ASSUME UNCHANGED <<stats, ncontexts>>
        PROVE  StatsBalance'
    BY <1>2 DEF StatsBalance
  <1>3. ASSUME NEW k \in Int, ncontexts' = n - k, stats' = Dropped(k)
        PROVE  StatsBalance'
    <2>1. stats'.total = t /\ stats'.dropped = (d + k) % M /\ stats'.closed = c
      BY <1>3 DEF Dropped, Count, t, d, c, M
    <2>2. (((d + k) % M) + (n - k + c)) % M = (n + d + c) % M
      <3> DEFINE x == d + k
                 y == n - k + c
      <3>1. x \in Int /\ y \in Int /\ x + y = n + d + c
        BY <1>0, <1>3
      <3> HIDE DEF x, y
      <3>2. ((x % M) + y) % M = (x + y) % M
        BY <3>1, <1>0, WrapAround
      <3> QED
        BY <3>1, <3>2 DEF x, y
    <2>3. (d + k) % M \in Int
      BY <1>0, <1>3, Division
    <2>4. (n - k) + ((d + k) % M) + c + 0 = ((d + k) % M) + (n - k + c)
      BY <1>0, <1>3, <2>3
    <2> QED
      BY <1>1, <1>3, <2>1, <2>2, <2>4 DEF StatsBalance, Count, M
  <1>4. ASSUME NEW w \in Workers, Connect(w)
        PROVE  StatsBalance'
    <2>1. /\ ncontexts' = n - len + 1 /\ stats'.total = (t + 1) % M
          /\ stats'.dropped = (d + len) % M /\ stats'.closed = c
      BY <1>4 DEF Connect, Left, Count, t, d, c, n, len, M
    <2>2. (t + 1) % M = (n + d + c + 1) % M
      <3> DEFINE x == n + d + c
      <3>1. x \in Int /\ 1 \in Int
        BY <1>0
      <3> HIDE DEF x
      <3>2. ((x % M) + 1) % M = (x + 1) % M
        BY <3>1, <1>0, WrapAround
      <3> QED
        BY <3>2, <1>1 DEF x
    <2>3. (((d + len) % M) + (n - len + 1 + c)) % M = (n + d + c + 1) % M
      <3> DEFINE x == d + len
                 y == n - len + 1 + c
      <3>1. x \in Int /\ y \in Int /\ x + y = n + d + c + 1
        BY <1>0
      <3> HIDE DEF x, y
      <3>2. ((x % M) + y) % M = (x + y) % M
        BY <3>1, <1>0, WrapAround
      <3> QED
        BY <3>1, <3>2 DEF x, y
    <2>4. (d + len) % M \in Int
      BY <1>0, Division
    <2>5. (n - len + 1) + ((d + len) % M) + c + 0 = ((d + len) % M) + (n - len + 1 + c)
      BY <1>0, <2>4
    <2> QED
      BY <2>1, <2>2, <2>3, <2>5 DEF StatsBalance, Count, M
  <1>5. CASE ColdEvent
    <2>1. n = len + Cardinality(busy_contexts) /\ Cardinality(busy_contexts) \in Nat
      BY FiniteSets DEF PoolInv, PoolConsistent, n, len
    <2>2. /\ ncontexts' = 0 /\ stats'.total = t /\ stats'.dropped = d
          /\ stats'.closed = (c + n) % M
      BY <1>5, <2>1 DEF ColdEvent, Count, t, d, c, len, M
    <2>3. (((c + n) % M) + d) % M = (n + d + c) % M
      <3> DEFINE x == c + n
      <3>1. x \in Int /\ x + d = n + d + c
        BY <1>0
      <3> HIDE DEF x
      <3>2. ((x % M) + d) % M = (x + d) % M
        BY <3>1, <1>0, WrapAround
      <3> QED
        BY <3>1, <3>2 DEF x
    <2>4. (c + n) % M \in Int
      BY <1>0, Division
    <2>5. 0 + d + ((c + n) % M) + 0 = ((c + n) % M) + d
      BY <1>0, <2>4
    <2> QED
      BY <1>1, <2>2, <2>3, <2>5 DEF StatsBalance, Count, M
  <1>6. CASE Elsewhere \/ UNCHANGED vars
    BY <1>2, <1>6 DEF Elsewhere, ProbeOK, ProbeFails, SentinelUpdate, WarmEvent, Tick,
                      CommandBreaks, vars, poolVars
  <1>7. ASSUME NEW w \in Workers, Enter(w) \/ SpuriousWakeup(w) \/ Unlock(w)
        PROVE  StatsBalance'
    BY <1>2, <1>7 DEF Enter, SpuriousWakeup, Unlock, poolVars
  <1>8. ASSUME NEW w \in Workers, Reuse(w)
        PROVE  StatsBalance'
    <2>1. PICK k \in 0 .. Len(free_contexts) : ncontexts' = ncontexts - k /\ stats' = Dropped(k)
      BY <1>8 DEF Reuse
    <2>2. k \in Int
      BY <1>0 DEF len
    <2> QED
      BY <1>3, <2>1, <2>2 DEF n
  <1>9. ASSUME NEW w \in Workers, Wait(w) \/ FailToConnect(w)
        PROVE  StatsBalance'
    <2>1. ncontexts' = n - len /\ stats' = Dropped(len) /\ len \in Int
      BY <1>0, <1>9 DEF Wait, FailToConnect, Left, n, len
    <2> QED
      BY <1>3, <2>1
  <1> QED
    BY StepCases, <1>4, <1>5, <1>6, <1>7, <1>8, <1>9

\* db->stats accounts for every connection, whatever the width of its counters.
THEOREM StatsAddUp == Spec => []StatsBalance
  <1>1. Init => StatsBalance
    <2>1. 0 % StatsModulus = 0
      <3>1. StatsModulus \in Nat \ {0} /\ 0 \in Int /\ 0 \in 0 .. StatsModulus - 1
        BY NumbersAssumption
      <3>2. (StatsModulus * 0 + 0) % StatsModulus = 0
        BY <3>1, Remainder
      <3> QED
        BY <3>1, <3>2
    <2> QED
      BY <2>1 DEF Init, StatsBalance, Count
  <1>2. PoolInv /\ StatsBalance /\ [Next]_vars => StatsBalance'
    BY StatsStep
  <1> QED
    BY <1>1, <1>2, Invariance, PTL DEF Spec

-----------------------------------------------------------------------------
(***************************************************************************)
(* SharedPool implements PoolContract: every step of the pool is a step of *)
(* the contract, or is not seen from outside.                              *)
(***************************************************************************)

\* The phases of the workers in the contract.
phases == [w \in Workers |-> PhaseOf(pc[w])]

\* The connections in use are the busy list, so that the contract's limit is
\* about what DropAll leaves of ncontexts.
LEMMA InUseIsBusy ==
    ASSUME PoolInv
    PROVE  /\ Contract!InUse = busy_contexts
           /\ Contract!Exhausted <=> Full
  <1>1. Contract!InUse = busy_contexts
    BY ContextsAssumption DEF Contract!InUse, PoolInv, ExclusiveUse, TypeOK
  <1>2. Left = Cardinality(busy_contexts)
    BY LeftIsBusy DEF PoolInv
  <1> QED
    BY <1>1, <1>2 DEF Contract!Exhausted, Full, Contract!Cardinality, Cardinality

\* Where a worker is says what its phase is.
LEMMA PhaseValues ==
    ASSUME PoolInv
    PROVE  \A w \in Workers :
             /\ phases[w] = "out" <=> pc[w] = "idle"
             /\ phases[w] = "asking" <=> InSection(w)
             /\ phases[w] = "sleeping" <=> pc[w] = "waiting"
             /\ phases[w] = "using" <=> pc[w] = "busy"
  BY DEF phases, PhaseOf, InSection, PoolInv, TypeOK, PC

\* The phases change as the contract says when one worker moves ...
LEMMA OneMoves ==
    ASSUME PoolInv, NEW w \in Workers, NEW at \in PC, pc' = [pc EXCEPT ![w] = at]
    PROVE  phases' = [phases EXCEPT ![w] = PhaseOf(at)]
  BY DEF phases, PoolInv, TypeOK

\* ... and when it signals another one as it leaves.
LEMMA LeaveSignals ==
    ASSUME PoolInv, NEW w \in Workers, pc[w] # "waiting",
           Signal([pc EXCEPT ![w] = "idle"])
    PROVE  Contract!Leave(w)
  <1> DEFINE at == [pc EXCEPT ![w] = "idle"]
             waiting == {v \in Workers : at[v] = "waiting"}
  <1>0. pc \in [Workers -> PC] /\ at \in [Workers -> PC]
        /\ at[w] = "idle" /\ \A v \in Workers : v # w => at[v] = pc[v]
    BY DEF PoolInv, TypeOK, PC
  <1>1. waiting = Contract!Sleeping
    BY <1>0, PhaseValues DEF Contract!Sleeping, phases
  <1>2. PhaseOf("idle") = "out" /\ PhaseOf("woken") = "asking"
    BY DEF PhaseOf
  <1>3. CASE waiting = {}
    <2>1. pc' = at
      BY <1>3 DEF Signal
    <2>2. phases' = [phases EXCEPT ![w] = "out"]
      BY <2>1, <1>2, OneMoves DEF PC
    <2> QED
      BY <2>2, <1>1, <1>3 DEF Contract!Leave, phases
  <1>4. CASE waiting # {}
    <2>1. PICK x \in waiting : pc' = [at EXCEPT ![x] = "woken"]
      BY <1>4 DEF Signal
    <2>2. phases' = [phases EXCEPT ![w] = "out", ![x] = "asking"]
      BY <2>1, <1>0, <1>2 DEF phases
    <2> QED
      BY <2>1, <2>2, <1>1 DEF Contract!Leave, phases
  <1> QED
    BY <1>3, <1>4

\* There is room for the connection that Reuse hands out, since it was one of
\* the ncontexts of the pool, and nobody was using it.
LEMMA ReuseHasRoom ==
    ASSUME PoolInv, NEW i \in DOMAIN free_contexts
    PROVE  ~Contract!Exhausted /\ free_contexts[i] \notin Contract!InUse
  <1>1. Left < MaxConnections
    BY FreeList, LeftIsBusy, NumbersAssumption DEF PoolInv, Left, TypeOK
  <1>2. ~Full
    BY <1>1, LeftIsBusy, NumbersAssumption DEF Full, PoolInv
  <1> QED
    BY <1>2, InUseIsBusy DEF PoolInv, PoolConsistent

\* Every step of the pool is a step of the contract or is invisible in it.
LEMMA ContractStep ==
    ASSUME PoolInv, [Next]_vars
    PROVE  [Contract!Next]_(Contract!contract)
  <1>0. /\ PhaseOf("idle") = "out" /\ PhaseOf("locking") = "asking"
        /\ PhaseOf("woken") = "asking" /\ PhaseOf("waiting") = "sleeping"
        /\ PhaseOf("busy") = "using"
        /\ {"idle", "locking", "woken", "waiting", "busy"} \subseteq PC
    BY DEF PhaseOf, PC
  <1>1. CASE Elsewhere \/ UNCHANGED vars
    BY <1>1, ElsewhereUnchanged DEF Contract!contract
  <1>2. CASE ColdEvent
    BY <1>2 DEF ColdEvent, Contract!contract
  <1>3. ASSUME NEW w \in Workers, Enter(w)
        PROVE  Contract!Ask(w)
    BY <1>0, <1>3, PhaseValues, OneMoves DEF Enter, Contract!Ask, phases
  <1>4. ASSUME NEW w \in Workers, SpuriousWakeup(w)
        PROVE  Contract!WakeUp(w)
    BY <1>0, <1>4, PhaseValues, OneMoves DEF SpuriousWakeup, Contract!WakeUp, phases
  <1>5. ASSUME NEW w \in Workers, Reuse(w)
        PROVE  \E c \in Contexts : Contract!Grant(w, c)
    <2>1. PICK k \in 0 .. Len(free_contexts) :
            /\ k < Len(free_contexts)
            /\ held' = [held EXCEPT ![w] = free_contexts[k + 1]]
      BY <1>5 DEF Reuse, FirstValid
    <2>2. k + 1 \in DOMAIN free_contexts /\ free_contexts[k + 1] \in Contexts
      BY <2>1, FreeList DEF PoolInv
    <2>3. Contract!Grant(w, free_contexts[k + 1])
      BY <1>0, <1>5, <2>1, <2>2, ReuseHasRoom, PhaseValues, OneMoves
         DEF Reuse, Contract!Grant, phases
    <2> QED
      BY <2>2, <2>3
  <1>6. ASSUME NEW w \in Workers, Wait(w)
        PROVE  Contract!Sleep(w)
    BY <1>0, <1>6, InUseIsBusy, PhaseValues, OneMoves
       DEF Wait, DropAll, Contract!Sleep, phases
  <1>7. ASSUME NEW w \in Workers, Connect(w)
        PROVE  \E c \in Contexts : Contract!Grant(w, c)
    <2>1. PICK c \in Contexts \ busy_contexts : held' = [held EXCEPT ![w] = c]
      BY <1>7 DEF Connect
    <2>2. InSection(w) /\ ~Full /\ pc' = [pc EXCEPT ![w] = "busy"]
      BY <1>7 DEF Connect, DropAll
    <2>3. phases[w] = "asking" /\ ~Contract!Exhausted /\ c \notin Contract!InUse
      BY <2>1, <2>2, InUseIsBusy, PhaseValues
    <2>4. phases' = [phases EXCEPT ![w] = "using"]
      BY <2>2, <1>0, OneMoves
    <2>5. Contract!Grant(w, c)
      BY <2>1, <2>3, <2>4 DEF Contract!Grant, phases
    <2> QED
      BY <2>5
  <1>8. ASSUME NEW w \in Workers, FailToConnect(w)
        PROVE  Contract!Refuse(w)
    <2>1. InSection(w) /\ pc[w] # "waiting" /\ ~Full /\ UNCHANGED held
      BY <1>8 DEF FailToConnect, DropAll, InSection
    <2>2. Contract!Leave(w)
      BY <1>8, <2>1, LeaveSignals DEF FailToConnect, WakeOnFailure
    <2> QED
      BY <2>1, <2>2, InUseIsBusy, PhaseValues DEF Contract!Refuse, phases
  <1>9. ASSUME NEW w \in Workers, Unlock(w)
        PROVE  Contract!GiveBack(w)
    <2>1. pc[w] = "busy" /\ held' = [held EXCEPT ![w] = NoContext]
      BY <1>9 DEF Unlock
    <2>2. Contract!Leave(w)
      BY <1>9, <2>1, LeaveSignals DEF Unlock, WakeOnRelease
    <2> QED
      BY <2>1, <2>2, PhaseValues DEF Contract!GiveBack, phases
  <1> QED
    BY StepCases, <1>1, <1>2, <1>3, <1>4, <1>5, <1>6, <1>7, <1>8, <1>9
       DEF Contract!Next

\* The pool keeps its promise, for any number of workers and connections.
THEOREM Refinement == Spec => ImplementsContract
  <1>1. Init => Contract!Init
    BY DEF Init, Contract!Init, PhaseOf
  <1>2. PoolInv /\ [Next]_vars => [Contract!Next]_(Contract!contract)
    BY ContractStep
  <1> QED
    BY <1>1, <1>2, Invariance, PTL DEF Spec, ImplementsContract, Contract!Spec
=============================================================================
