------------------------ MODULE ClusterDiscoveryProofs ------------------------
(***************************************************************************)
(* ClusterDiscovery: the registry of servers and the topology, for any     *)
(* servers, weights, threads, slots and replies.                           *)
(***************************************************************************)
EXTENDS ClusterDiscovery, TailQueueProofs

-----------------------------------------------------------------------------
(***************************************************************************)
(* The lists of a database.                                                *)
(***************************************************************************)

\* The lists of a consistent registry as sets.
LEMMA MatchAsSets ==
    ASSUME NEW lists, NEW roles
    PROVE  ListsMatchRoles(lists, roles)
             <=> \A l \in Lists : /\ Injective(lists[l])
                                  /\ \A s \in ToSet(lists[l]) : l = List(s, roles[s])
  BY DEF ListsMatchRoles, Injective, ToSet

\* The list for the weight and role of a server is one of the lists.
LEMMA ListInLists ==
    ASSUME NEW s \in Servers, NEW r \in Roles
    PROVE  List(s, r) \in Lists
  BY WeightsAssumption DEF List, Lists, Roles, Slave, Master, TBD

\* unsafe_add_redis_server() keeps the registry consistent, and nobody leaves it.
LEMMA MovedStep ==
    ASSUME NEW lists \in [Lists -> Seq(Servers)], NEW roles \in [Servers -> Roles],
           ListsMatchRoles(lists, roles), NEW s \in Servers, NEW r \in Roles
    PROVE  /\ MovedTo(lists, s, r) \in [Lists -> Seq(Servers)]
           /\ ListsMatchRoles(MovedTo(lists, s, r), [roles EXCEPT ![s] = r])
           /\ InSomeList(MovedTo(lists, s, r)) = InSomeList(lists) \union {s}
  <1> DEFINE new == [roles EXCEPT ![s] = r]
             home == [x \in Servers |-> List(x, roles[x])]
             moves == [x \in Servers |-> List(x, new[x])]
             to == List(s, r)
             moved == MovedBetween(lists, Lists, s, to)
  <1>1. moved = MovedTo(lists, s, r)
    BY DEF MovedTo, MovedBetween
  <1>2. to \in Lists /\ NewHomes(moves, home, Servers, s, to)
    BY ListInLists DEF NewHomes
  <1>3. \A l \in Lists : \A x \in ToSet(lists[l]) : x \in Servers
    BY DEF ToSet
  <1>4. AtHome(lists, Lists, Servers, home)
    BY <1>3, MatchAsSets DEF AtHome
  <1>5. \A x \in Servers : moves[x] = List(x, new[x])
    OBVIOUS
  <1> HIDE DEF home, moves, to, moved, new
  <1>6. /\ AtHome(moved, Lists, Servers, moves)
        /\ Gain(moved, lists, Lists, s)
    BY <1>2, <1>4, MovedAtHome DEF moved
  <1>7. \A l \in Lists : \A x \in ToSet(moved[l]) : x \in Servers
    BY <1>6 DEF ToSet, AtHome
  <1>8. ListsMatchRoles(moved, new)
    BY <1>5, <1>6, <1>7, MatchAsSets DEF AtHome
  <1> QED
    <2>1. moved \in [Lists -> Seq(Servers)]
      BY <1>6 DEF AtHome
    <2>2. InSomeList(moved) = InSomeList(lists) \union {s}
      BY <1>6 DEF InSomeList, Gain, AllOf
    <2> QED
      BY <1>1, <1>8, <2>1, <2>2, Zenon DEF new

-----------------------------------------------------------------------------
(***************************************************************************)
(* The registry.                                                           *)
(***************************************************************************)

\* Where a known server is.
LEMMA KnownIsListed ==
    ASSUME TypeOK, ListsMatchRoles(servers, role), NEW s \in Known
    PROVE  /\ s \in Servers
           /\ List(s, role[s]) \in Lists
           /\ s \in ToSet(servers[List(s, role[s])])
  <1>1. PICK l \in Lists : s \in ToSet(servers[l])
    BY DEF Known, InSomeList
  <1>2. l = List(s, role[s])
    BY <1>1, MatchAsSets
  <1>3. s \in Servers
    BY <1>1 DEF ToSet, TypeOK
  <1> QED
    BY <1>1, <1>2, <1>3

\* Whoever is in a list is known.
LEMMA ListedIsKnown ==
    ASSUME TypeOK, NEW l \in Lists, NEW k \in DOMAIN servers[l]
    PROVE  servers[l][k] \in Known /\ servers[l][k] \in Servers
  BY DEF Known, InSomeList, ToSet, TypeOK

-----------------------------------------------------------------------------
(***************************************************************************)
(* The inductive invariant.                                                *)
(***************************************************************************)

\* While a reply has given no slots, none of the nodes registered had any, and
\* once it has given some they are there.
FoundMeansSlots ==
    phase \in {"register", "reset", "slots"} =>
        IF found
        THEN \E s \in Known : slots[s] # {}
        ELSE \A k \in 1 .. i - 1 : reply[k].server = NoServer \/ reply[k].slots = {}

\* The node whose slots are being registered is one of a known server, and
\* none of them is registered before the previous ones are reset.
NodeUnderWay ==
    phase \in {"reset", "slots"} =>
        /\ Resolved(i) \in Known
        /\ reply[i].server # NoServer
        /\ rest \subseteq reply[i].slots
        /\ phase = "reset" => ~found
        /\ ~found => rest = reply[i].slots

DiscoveryInv ==
    /\ TypeOK
    /\ RegistryConsistent
    /\ TopologyMatchesReply
    /\ KeptUntilFound
    /\ TopologyNeverLost
    /\ FoundMeansSlots
    /\ NodeUnderWay

\* What a registration does.
LEMMA RegisterStep ==
    ASSUME DiscoveryInv, NEW s \in Servers, NEW r \in Roles, Register(s, r)
    PROVE  /\ servers' \in [Lists -> Seq(Servers)]
           /\ role' \in [Servers -> Roles]
           /\ ListsMatchRoles(servers', role')
           /\ Known' = Known \union {s}
  <1>1. /\ servers \in [Lists -> Seq(Servers)] /\ role \in [Servers -> Roles]
        /\ ListsMatchRoles(servers, role)
    BY DEF DiscoveryInv, TypeOK, RegistryConsistent
  <1>2. servers' = MovedTo(servers, s, r) /\ role' = [role EXCEPT ![s] = r]
    BY DEF Register
  <1>3. Known' = InSomeList(servers')
    BY DEF Known, InSomeList, Lists
  <1>4. role' \in [Servers -> Roles]
    BY <1>1, <1>2
  <1> QED
    BY <1>1, <1>2, <1>3, <1>4, MovedStep DEF Known

\* ... and one that probes the server first for its role.
LEMMA RegisterProbedStep ==
    ASSUME DiscoveryInv, NEW s \in Servers, NEW r \in Roles, NEW connected \in BOOLEAN,
           RegisterProbed(s, r, connected)
    PROVE  /\ servers' \in [Lists -> Seq(Servers)]
           /\ role' \in [Servers -> Roles]
           /\ ListsMatchRoles(servers', role')
           /\ Known' = Known \union {s}
           /\ sick' \in SUBSET Servers /\ slots' = slots
  <1>1. (IF r = TBD /\ s \in Known THEN role[s] ELSE r) \in Roles
    BY DEF DiscoveryInv, TypeOK
  <1>2. Register(s, IF r = TBD /\ s \in Known THEN role[s] ELSE r)
    BY DEF RegisterProbed
  <1>3. sick' \in SUBSET Servers /\ slots' = slots
    BY DEF RegisterProbed, DiscoveryInv, TypeOK
  <1> QED
    BY <1>1, <1>2, <1>3, RegisterStep

\* A thread registers a server outside of a discovery.
LEMMA AddStep ==
    ASSUME DiscoveryInv, NEW t \in Threads, NEW s \in Servers,
           AddServer(t, s) \/ AskReply(t, s)
    PROVE  DiscoveryInv'
  <1>1. PICK r \in Roles, connected \in BOOLEAN : RegisterProbed(s, r, connected)
    BY DEF AddServer, AskReply
  <1>2. /\ servers' \in [Lists -> Seq(Servers)] /\ role' \in [Servers -> Roles]
        /\ ListsMatchRoles(servers', role')
        /\ Known' = Known \union {s}
        /\ sick' \in SUBSET Servers /\ slots' = slots
    BY <1>1, RegisterProbedStep
  <1>3. /\ owner = NoThread /\ UNCHANGED <<owner, phase, origin, at, asked, reply, i, stale,
                                           rest, found, kept, tried, disturbed, discovered>>
        /\ \/ pending' = pending
           \/ pending' = [pending EXCEPT ![t] = IF discovered THEN NoServer ELSE s]
    BY DEF AddServer, AskReply, Free, NoDiscovery, todo, history
  <1>4. phase = "idle"
    BY <1>3 DEF DiscoveryInv, TypeOK
  <1>5. TypeOK'
    BY <1>2, <1>3 DEF DiscoveryInv, TypeOK
  <1>6. RegistryConsistent'
    <2>1. ListsMatchRoles(servers, role)'
      BY <1>2 DEF ListsMatchRoles, Lists, List
    <2> QED
      BY <1>2, <1>3, <2>1 DEF DiscoveryInv, TypeOK, RegistryConsistent
  <1>7. TopologyNeverLost'
    BY <1>2, <1>3 DEF DiscoveryInv, TopologyNeverLost, Replacing
  <1> QED
    BY <1>3, <1>4, <1>5, <1>6, <1>7
       DEF DiscoveryInv, TopologyMatchesReply, KeptUntilFound, FoundMeansSlots,
           NodeUnderWay

\* A discovery begins, with a server that has just been registered.
LEMMA MovedReplyStep ==
    ASSUME DiscoveryInv, NEW t \in Threads, NEW s \in Servers, MovedReply(t, s)
    PROVE  DiscoveryInv'
  <1>0. phase = "idle" /\ stale = {} /\ rest = {}
    BY DEF MovedReply, Free, DiscoveryInv, TypeOK
  <1>1. PICK r \in Roles, connected \in BOOLEAN : RegisterProbed(s, r, connected)
    BY DEF MovedReply
  <1>2. /\ servers' \in [Lists -> Seq(Servers)] /\ role' \in [Servers -> Roles]
        /\ ListsMatchRoles(servers', role')
        /\ Known' = Known \union {s}
        /\ sick' \in SUBSET Servers /\ slots' = slots
    BY <1>1, RegisterProbedStep
  <1>3. /\ owner' = t /\ phase' = "ask" /\ origin' = s /\ asked' = s /\ at' = NoList
        /\ kept' = slots /\ tried' = {s} /\ disturbed' = FALSE
        /\ UNCHANGED <<reply, i, stale, rest, found, discovered, pending>>
    BY DEF MovedReply, Begin, todo
  <1>4. TypeOK'
    <2>1. owner' \in Threads \union {NoThread} /\ owner' # NoThread
      BY <1>3, ServersAssumption
    <2> QED
      BY <1>0, <1>2, <1>3, <2>1 DEF DiscoveryInv, TypeOK
  <1>5. RegistryConsistent'
    <2>1. ListsMatchRoles(servers, role)'
      BY <1>2 DEF ListsMatchRoles, Lists, List
    <2> QED
      BY <1>2, <1>3, <2>1 DEF DiscoveryInv, RegistryConsistent
  <1>6. TopologyNeverLost'
    BY <1>0, <1>2, <1>3 DEF DiscoveryInv, TopologyNeverLost, Replacing
  <1> QED
    BY <1>2, <1>3, <1>4, <1>5, <1>6
       DEF DiscoveryInv, TopologyMatchesReply, KeptUntilFound, FoundMeansSlots,
           NodeUnderWay

\* Steps that leave the registry and the slots alone.
LEMMA SameRegistry ==
    ASSUME DiscoveryInv, UNCHANGED <<servers, role, slots>>
    PROVE  /\ Known' = Known
           /\ ListsMatchRoles(servers, role)'
  BY DEF DiscoveryInv, RegistryConsistent, ListsMatchRoles, Known, InSomeList, Lists, List

\* ... or begin with one registered before.
LEMMA DiscoverPendingStep ==
    ASSUME DiscoveryInv, NEW t \in Threads, DiscoverPending(t)
    PROVE  DiscoveryInv'
  <1>0. phase = "idle" /\ stale = {} /\ rest = {}
    BY DEF DiscoverPending, Free, DiscoveryInv, TypeOK
  <1>1. /\ UNCHANGED <<servers, role, slots, sick, discovered, reply, i, stale, rest, found>>
        /\ owner' = t /\ phase' = "ask" /\ origin' = pending[t] /\ asked' = pending[t]
        /\ at' = NoList /\ kept' = slots /\ tried' = {pending[t]} /\ disturbed' = FALSE
        /\ pending' = [pending EXCEPT ![t] = NoServer]
        /\ pending[t] # NoServer
    BY DEF DiscoverPending, Begin, registry, todo
  <1>2. pending[t] \in Known /\ pending[t] \in Servers
    BY <1>1 DEF DiscoveryInv, RegistryConsistent, TypeOK
  <1>3. Known' = Known /\ ListsMatchRoles(servers, role)'
    BY <1>1, SameRegistry
  <1>4. TypeOK'
    <2>1. owner' \in Threads \union {NoThread} /\ owner' # NoThread
      BY <1>1, ServersAssumption
    <2> QED
      BY <1>0, <1>1, <1>2, <2>1 DEF DiscoveryInv, TypeOK
  <1>5. RegistryConsistent'
    BY <1>1, <1>2, <1>3 DEF DiscoveryInv, TypeOK, RegistryConsistent
  <1>6. TopologyNeverLost'
    BY <1>0, <1>1, <1>3 DEF DiscoveryInv, TopologyNeverLost, Replacing
  <1> QED
    BY <1>1, <1>4, <1>5, <1>6
       DEF DiscoveryInv, TopologyMatchesReply, KeptUntilFound, FoundMeansSlots,
           NodeUnderWay

-----------------------------------------------------------------------------
(***************************************************************************)
(* Steps of a discovery.                                                   *)
(***************************************************************************)

\* The server asked fails or replies: the topology is still the one kept.
LEMMA AnswerStep ==
    ASSUME DiscoveryInv, NoAnswer \/ \E r \in Replies : Answer(r)
    PROVE  DiscoveryInv'
  <1>1. /\ UNCHANGED <<servers, role, slots, sick, discovered, pending, owner, origin, at,
                       asked, stale, rest, kept, tried, disturbed>>
        /\ phase = "ask"
    BY DEF NoAnswer, Answer, registry, todo, history
  <1>2. Known' = Known /\ ListsMatchRoles(servers, role)'
    BY <1>1, SameRegistry
  <1>3. \/ phase' = "next" /\ UNCHANGED <<reply, i, found>>
        \/ phase' = "register" /\ reply' \in Seq(Node) /\ i' = 1 /\ found' = FALSE
    BY RepliesAssumption DEF NoAnswer, Answer
  <1>4. TypeOK'
    <2>1. phase' = "register" => i' \in 1 .. Len(reply') + 1
      BY <1>3, LenProperties
    <2> QED
      BY <1>1, <1>3, <2>1 DEF DiscoveryInv, TypeOK
  <1>5. RegistryConsistent'
    BY <1>1, <1>2 DEF DiscoveryInv, RegistryConsistent
  <1>6. TopologyNeverLost'
    BY <1>1, <1>2 DEF DiscoveryInv, TopologyNeverLost, Replacing
  <1>7. KeptUntilFound'
    BY <1>1, <1>3 DEF DiscoveryInv, KeptUntilFound
  <1>8. FoundMeansSlots' /\ TopologyMatchesReply' /\ NodeUnderWay'
    BY <1>3 DEF FoundMeansSlots, TopologyMatchesReply, NodeUnderWay
  <1> QED
    BY <1>4, <1>5, <1>6, <1>7, <1>8 DEF DiscoveryInv

\* What the next node of the reply adds to what was reported.
LEMMA ReportedNext ==
    ASSUME NEW n \in Nat \ {0}, NEW s
    PROVE  Reported(s, n)
             = Reported(s, n - 1) \union (IF Resolved(n) = s THEN reply[n].slots ELSE {})
  <1>1. 1 .. n = (1 .. n - 1) \union {n}
    OBVIOUS
  <1> QED
    BY <1>1 DEF Reported

\* Nobody has reported slots as long as no node had any.
LEMMA NothingReported ==
    ASSUME DiscoveryInv, phase \in {"register", "reset", "slots"}, ~found,
           NEW s \in Servers
    PROVE  Reported(s, i - 1) = {}
  <1>1. ASSUME NEW k \in 1 .. i - 1, Resolved(k) = s PROVE reply[k].slots = {}
    <2>1. reply[k].server # NoServer
      BY <1>1, ServersAssumption DEF Resolved
    <2> QED
      BY <2>1 DEF DiscoveryInv, FoundMeansSlots
  <1> QED
    BY <1>1 DEF Reported

\* A node of the reply, with or without slots, is registered.
LEMMA RegisterNodeStep ==
    ASSUME DiscoveryInv, RegisterNode
    PROVE  DiscoveryInv'
  <1> DEFINE s == Resolved(i)
             new == reply[i].slots
  <1>1. /\ phase = "register" /\ reply \in Seq(Node) /\ i \in 1 .. Len(reply)
        /\ owner # NoThread /\ asked \in Servers /\ reply[i].server # NoServer
        /\ Len(reply) \in Nat /\ stale = {} /\ rest = {}
    BY LenProperties DEF RegisterNode, DiscoveryInv, TypeOK
  <1>2. /\ reply[i] \in Node /\ reply[i].role \in Roles /\ new \in SUBSET Slots
        /\ s \in Servers /\ i \in Nat \ {0}
    <2>1. reply[i] \in Node
      BY <1>1, LenProperties
    <2>2. i \in Nat \ {0}
      BY <1>1, LenProperties
    <2> QED
      BY <1>1, <2>1, <2>2 DEF Node, Roles, Slave, Master, Resolved
  <1>3. /\ Register(s, reply[i].role)
        /\ sick' \in SUBSET Servers
        /\ UNCHANGED <<slots, discovered, pending, owner, origin, at, asked, reply, found,
                       kept, tried, disturbed>>
    BY <1>2 DEF RegisterNode, history, DiscoveryInv, TypeOK
  <1>4. Resolved(i)' = Resolved(i') /\ \A k : reply'[k] = reply[k]
    BY <1>3 DEF Resolved
  <1>5. \/ /\ new = {} /\ phase' = "register" /\ i' = i + 1 /\ stale' = {} /\ rest' = {}
        \/ /\ new # {} /\ found /\ phase' = "slots" /\ i' = i /\ stale' = {} /\ rest' = new
        \/ /\ new # {} /\ ~found /\ phase' = "reset" /\ i' = i /\ stale' = Known'
           /\ rest' = new
    BY DEF RegisterNode, AfterNode
  <1>6. \A x, n : Reported(x, n)' = Reported(x, n)
    BY <1>3 DEF Reported, Resolved
  <1> HIDE DEF s, new
  <1>7. /\ servers' \in [Lists -> Seq(Servers)] /\ role' \in [Servers -> Roles]
        /\ ListsMatchRoles(servers', role')
        /\ Known' = Known \union {s}
    BY <1>2, <1>3, RegisterStep
  <1>8. Known' \subseteq Servers /\ Known' # {}
    BY <1>2, <1>7, KnownIsListed DEF DiscoveryInv, RegistryConsistent
  <1>9. TypeOK'
    <2>1. /\ i' \in 1 .. Len(reply') + 1
          /\ phase' # "register" => i' \in 1 .. Len(reply')
      BY <1>1, <1>3, <1>5
    <2>2. stale' \in SUBSET Servers /\ (stale' # {} <=> phase' = "reset")
      BY <1>5, <1>8
    <2>3. rest' \in SUBSET Slots /\ (rest' # {} <=> phase' \in {"reset", "slots"})
      BY <1>2, <1>5
    <2>4. phase' \in {"register", "slots", "reset"}
      BY <1>5
    <2>5. reply' \in Seq(Node) /\ slots' \in [Servers -> SUBSET Slots]
      BY <1>1, <1>3 DEF DiscoveryInv, TypeOK
    <2> QED
      BY <1>1, <1>3, <1>7, <2>1, <2>2, <2>3, <2>4, <2>5 DEF DiscoveryInv, TypeOK
  <1>10. RegistryConsistent'
    <2>1. ListsMatchRoles(servers, role)'
      BY <1>7 DEF ListsMatchRoles, Lists, List
    <2>2. /\ \A x \in Servers \ Known' : slots'[x] = {}
          /\ \A t \in Threads : pending'[t] \in Known' \union {NoServer}
          /\ owner' # NoThread => asked' \in Known' /\ origin' \in Known'
      BY <1>3, <1>7 DEF DiscoveryInv, RegistryConsistent
    <2> QED
      BY <2>1, <2>2 DEF RegistryConsistent
  <1>11. TopologyMatchesReply'
    <2> SUFFICES ASSUME NEW x \in Servers, phase' = "slots" \/ (phase' = "register" /\ found')
                 PROVE  slots'[x] = Reported(x, i' - 1) \union Given(x)'
      BY <1>6 DEF TopologyMatchesReply
    <2>1. found /\ slots'[x] = Reported(x, i - 1)
      BY <1>1, <1>3, <1>5 DEF DiscoveryInv, TopologyMatchesReply, Given
    <2>2. Given(x)' = {}
      BY <1>3, <1>4, <1>5 DEF Given, new
    <2>3. CASE new = {}
      <3>1. i' - 1 = i
        BY <1>2, <1>5, <2>3
      <3>2. Reported(x, i) = Reported(x, i - 1) \union (IF s = x THEN new ELSE {})
        BY <1>2, ReportedNext DEF s, new
      <3>3. Reported(x, i) = Reported(x, i - 1)
        BY <2>3, <3>2
      <3> QED
        BY <2>1, <2>2, <3>1, <3>3
    <2>4. CASE new # {}
      <3>1. i' = i
        BY <1>5, <2>4
      <3> QED
        BY <2>1, <2>2, <3>1
    <2> QED
      BY <2>3, <2>4
  <1>12. KeptUntilFound'
    <2>1. ~found => slots = kept
      BY <1>1 DEF DiscoveryInv, KeptUntilFound
    <2>2. \A x \in Servers \ Known' : slots'[x] = {}
      BY <1>10 DEF RegistryConsistent
    <2> QED
      BY <1>3, <1>5, <2>1, <2>2 DEF KeptUntilFound
  <1>13. TopologyNeverLost'
    BY <1>1, <1>3, <1>5, <1>7 DEF DiscoveryInv, TopologyNeverLost, Replacing
  <1>14. FoundMeansSlots'
    <2>1. CASE found'
      BY <1>1, <1>3, <1>7, <2>1 DEF DiscoveryInv, FoundMeansSlots
    <2>2. CASE ~found'
      <3>1. \A k \in 1 .. i - 1 : reply[k].server = NoServer \/ reply[k].slots = {}
        BY <1>1, <1>3, <2>2 DEF DiscoveryInv, FoundMeansSlots
      <3>2. \A k \in 1 .. i' - 1 : k \in 1 .. i - 1 \/ (k = i /\ new = {})
        BY <1>2, <1>5
      <3> QED
        BY <1>3, <2>2, <3>1, <3>2 DEF FoundMeansSlots, new
    <2> QED
      BY <2>1, <2>2
  <1>15. NodeUnderWay'
    <2> SUFFICES ASSUME phase' \in {"reset", "slots"}
                 PROVE  /\ Resolved(i)' \in Known'
                        /\ reply'[i'].server # NoServer
                        /\ rest' \subseteq reply'[i'].slots
                        /\ phase' = "reset" => ~found'
                        /\ ~found' => rest' = reply'[i'].slots
      BY DEF NodeUnderWay
    <2>1. i' = i /\ rest' = new /\ (phase' = "reset" => ~found)
      BY <1>5
    <2>2. Resolved(i)' = s
      BY <1>4, <2>1 DEF s
    <2> QED
      BY <1>1, <1>3, <1>4, <1>7, <2>1, <2>2 DEF new
  <1> QED
    BY <1>9, <1>10, <1>11, <1>12, <1>13, <1>14, <1>15 DEF DiscoveryInv

\* What the steps that change the slots leave alone.
LEMMA SameServers ==
    ASSUME DiscoveryInv, UNCHANGED <<servers, role>>
    PROVE  /\ Known' = Known
           /\ ListsMatchRoles(servers, role)'
  BY DEF DiscoveryInv, RegistryConsistent, ListsMatchRoles, Known, InSomeList, Lists, List

\* unsafe_reset_slots() takes the slots of one more server.
LEMMA ResetSlotsStep ==
    ASSUME DiscoveryInv, ResetSlots
    PROVE  DiscoveryInv'
  <1>1. PICK s \in stale : /\ slots' = [slots EXCEPT ![s] = {}]
                           /\ stale' = stale \ {s}
    BY DEF ResetSlots
  <1>2. /\ phase = "reset" /\ phase' = IF stale' = {} THEN "slots" ELSE "reset"
        /\ UNCHANGED <<servers, role, sick, discovered, pending, owner, origin, at, asked,
                       reply, i, rest, found, kept, tried, disturbed>>
    BY DEF ResetSlots, history
  <1>3. /\ ~found /\ rest = reply[i].slots /\ rest # {} /\ s \in Servers
        /\ stale \in SUBSET Servers
        /\ slots \in [Servers -> SUBSET Slots]
    BY <1>1, <1>2 DEF DiscoveryInv, NodeUnderWay, TypeOK
  <1>4. Known' = Known /\ ListsMatchRoles(servers, role)'
    BY <1>2, SameServers
  <1>5. \A x \in Servers : slots'[x] = IF x \in stale' THEN kept'[x] ELSE {}
    BY <1>1, <1>2, <1>3 DEF DiscoveryInv, KeptUntilFound
  <1>6. TypeOK'
    <2>1. slots' \in [Servers -> SUBSET Slots]
      BY <1>1, <1>3
    <2>2. stale' \in SUBSET Servers /\ (stale' # {} <=> phase' = "reset")
      BY <1>1, <1>2, <1>3
    <2> QED
      BY <1>2, <2>1, <2>2 DEF DiscoveryInv, TypeOK
  <1>7. RegistryConsistent'
    <2>1. \A x \in Servers \ Known : slots'[x] = {}
      BY <1>1, <1>3 DEF DiscoveryInv, RegistryConsistent
    <2> QED
      BY <1>2, <1>4, <2>1 DEF DiscoveryInv, RegistryConsistent
  <1>8. TopologyMatchesReply'
    <2> SUFFICES ASSUME NEW x \in Servers, phase' = "slots"
                 PROVE  slots'[x] = Reported(x, i - 1)' \union Given(x)'
      BY <1>2 DEF TopologyMatchesReply
    <2>1. slots'[x] = {}
      BY <1>2, <1>5
    <2>2. Reported(x, i - 1)' = {}
      <3>1. Reported(x, i - 1) = {}
        BY <1>2, <1>3, NothingReported
      <3> QED
        BY <1>2, <3>1 DEF Reported, Resolved
    <2>3. Given(x)' = {}
      BY <1>2, <1>3 DEF Given
    <2> QED
      BY <2>1, <2>2, <2>3
  <1>9. KeptUntilFound'
    BY <1>2, <1>5 DEF KeptUntilFound
  <1>10. TopologyNeverLost'
    BY <1>2, <1>3 DEF TopologyNeverLost, Replacing
  <1>11. FoundMeansSlots' /\ NodeUnderWay'
    BY <1>2, <1>3, <1>4 DEF DiscoveryInv, FoundMeansSlots, NodeUnderWay, Resolved
  <1> QED
    BY <1>6, <1>7, <1>8, <1>9, <1>10, <1>11 DEF DiscoveryInv

\* A slot of the node is registered, perhaps the first of the reply or the
\* last of the node.
LEMMA RegisterSlotStep ==
    ASSUME DiscoveryInv, RegisterSlot
    PROVE  DiscoveryInv'
  <1> DEFINE s == Resolved(i)
             given == reply[i].slots
  <1>1. PICK n \in rest : /\ slots' = [slots EXCEPT ![s] = slots[s] \union {n}]
                          /\ rest' = rest \ {n}
    BY DEF RegisterSlot
  <1>2. /\ phase = "slots" /\ phase' = (IF rest' = {} THEN "register" ELSE "slots")
        /\ i' = (IF rest' = {} THEN i + 1 ELSE i) /\ found' = TRUE
        /\ UNCHANGED <<servers, role, sick, discovered, pending, owner, origin, at, asked,
                       reply, stale, kept, tried, disturbed>>
    BY DEF RegisterSlot, history
  <1>3. /\ s \in Known /\ reply[i].server # NoServer /\ rest \subseteq given
        /\ stale = {} /\ rest \in SUBSET Slots /\ rest # {}
        /\ slots \in [Servers -> SUBSET Slots]
    BY <1>2 DEF DiscoveryInv, NodeUnderWay, TypeOK
  <1>4. reply \in Seq(Node) /\ i \in 1 .. Len(reply) /\ Len(reply) \in Nat /\ i \in Nat \ {0}
    BY <1>2, LenProperties DEF DiscoveryInv, TypeOK
  <1>5. Known' = Known /\ ListsMatchRoles(servers, role)' /\ s \in Servers
    BY <1>2, <1>3, SameServers, KnownIsListed DEF DiscoveryInv, RegistryConsistent
  <1>6. \A x, k : Reported(x, k)' = Reported(x, k)
    BY <1>2 DEF Reported, Resolved
  <1>7. Resolved(i)' = Resolved(i') /\ \A k : reply'[k] = reply[k]
    BY <1>2 DEF Resolved
  <1>8. \A x \in Servers :
          Given(x) = IF x = s THEN given \ rest ELSE {}
    BY <1>2 DEF Given
  <1>9. \A x \in Servers :
          Given(x)' = IF x = s /\ rest' # {} THEN given \ rest' ELSE {}
    BY <1>2, <1>7 DEF Given
  <1> HIDE DEF s, given
  <1>10. \A x \in Servers : slots'[x] = slots[x] \union (IF x = s THEN {n} ELSE {})
    BY <1>1, <1>3
  <1>11. TypeOK'
    <2>1. slots' \in [Servers -> SUBSET Slots]
      BY <1>1, <1>3, <1>5
    <2>2. rest' \in SUBSET Slots /\ (rest' # {} <=> phase' \in {"reset", "slots"})
      BY <1>1, <1>2, <1>3
    <2>3. /\ i' \in 1 .. Len(reply') + 1
          /\ phase' # "register" => i' \in 1 .. Len(reply')
      BY <1>2, <1>4
    <2> QED
      BY <1>2, <1>3, <1>4, <2>1, <2>2, <2>3 DEF DiscoveryInv, TypeOK
  <1>12. RegistryConsistent'
    <2>1. \A x \in Servers \ Known : slots'[x] = {}
      BY <1>3, <1>10 DEF DiscoveryInv, RegistryConsistent
    <2> QED
      BY <1>2, <1>5, <2>1 DEF DiscoveryInv, RegistryConsistent
  <1>13. TopologyMatchesReply'
    <2> SUFFICES ASSUME NEW x \in Servers
                 PROVE  slots'[x] = Reported(x, i' - 1) \union Given(x)'
      BY <1>6 DEF TopologyMatchesReply
    <2>1. slots[x] = Reported(x, i - 1) \union (IF x = s THEN given \ rest ELSE {})
      BY <1>2, <1>8 DEF DiscoveryInv, TopologyMatchesReply
    <2>2. slots'[x] = Reported(x, i - 1)
                        \union (IF x = s THEN (given \ rest) \union {n} ELSE {})
      BY <1>10, <2>1
    <2>3. (given \ rest) \union {n} = given \ rest'
      BY <1>1, <1>3
    <2>4. slots'[x] = Reported(x, i - 1) \union (IF x = s THEN given \ rest' ELSE {})
      BY <2>2, <2>3
    <2>5. CASE rest' = {}
      <3>1. i' - 1 = i /\ Given(x)' = {}
        BY <1>2, <1>4, <1>9, <2>5
      <3>2. Reported(x, i) = Reported(x, i - 1) \union (IF s = x THEN given ELSE {})
        BY <1>4, ReportedNext DEF s, given
      <3>3. slots'[x] = Reported(x, i - 1) \union (IF x = s THEN given ELSE {})
        BY <2>4, <2>5
      <3> QED
        BY <3>1, <3>2, <3>3
    <2>6. CASE rest' # {}
      <3>1. i' = i
        BY <1>2, <2>6
      <3> QED
        BY <1>9, <2>4, <2>6, <3>1
    <2> QED
      BY <2>5, <2>6
  <1>14. KeptUntilFound'
    BY <1>2 DEF KeptUntilFound
  <1>15. \E x \in Known' : slots'[x] # {}
    BY <1>3, <1>5, <1>10
  <1>16. TopologyNeverLost' /\ FoundMeansSlots'
    BY <1>2, <1>15 DEF TopologyNeverLost, FoundMeansSlots
  <1>17. NodeUnderWay'
    <2> SUFFICES ASSUME phase' = "slots"
                 PROVE  /\ Resolved(i)' \in Known'
                        /\ reply'[i'].server # NoServer
                        /\ rest' \subseteq reply'[i'].slots
      BY <1>2 DEF NodeUnderWay
    <2>1. i' = i
      BY <1>2
    <2> QED
      BY <1>1, <1>3, <1>5, <1>7, <2>1 DEF s, given
  <1> QED
    BY <1>11, <1>12, <1>13, <1>14, <1>16, <1>17 DEF DiscoveryInv

\* A node that is not parsed belongs to no server.
LEMMA SkipNodeStep ==
    ASSUME DiscoveryInv, SkipNode
    PROVE  DiscoveryInv'
  <1>1. /\ phase = "register" /\ reply \in Seq(Node) /\ i \in 1 .. Len(reply)
        /\ i \in Nat \ {0} /\ reply[i].server = NoServer
    BY LenProperties DEF SkipNode, DiscoveryInv, TypeOK
  <1>2. /\ i' = i + 1 /\ i' - 1 = i
        /\ UNCHANGED <<servers, role, slots, sick, discovered, pending, owner, phase, origin,
                       at, asked, reply, stale, rest, found, kept, tried, disturbed>>
    BY <1>1 DEF SkipNode, registry, todo, history
  <1>3. Known' = Known /\ ListsMatchRoles(servers, role)'
    BY <1>2, SameRegistry
  <1>4. TypeOK'
    <2>1. i' \in 1 .. Len(reply') + 1
      BY <1>1, <1>2, LenProperties
    <2> QED
      BY <1>1, <1>2, <2>1 DEF DiscoveryInv, TypeOK
  <1>5. RegistryConsistent'
    BY <1>2, <1>3 DEF DiscoveryInv, RegistryConsistent
  <1>6. TopologyMatchesReply'
    <2>1. ASSUME NEW x \in Servers PROVE Reported(x, i - 1)' = Reported(x, i - 1)
      <3>1. Reported(x, i - 1)' = Reported(x, i)
        BY <1>2 DEF Reported, Resolved
      <3>2. Resolved(i) # x
        BY <1>1, ServersAssumption DEF Resolved
      <3>3. Reported(x, i)
              = Reported(x, i - 1) \union (IF Resolved(i) = x THEN reply[i].slots ELSE {})
        BY <1>1, ReportedNext
      <3>4. Reported(x, i) = Reported(x, i - 1)
        BY <3>2, <3>3
      <3> QED
        BY <3>1, <3>4, Zenon
    <2> QED
      BY <1>1, <1>2, <2>1 DEF DiscoveryInv, TopologyMatchesReply, Given
  <1>7. KeptUntilFound' /\ TopologyNeverLost' /\ NodeUnderWay'
    BY <1>1, <1>2, <1>3
       DEF DiscoveryInv, KeptUntilFound, TopologyNeverLost, Replacing, NodeUnderWay
  <1>8. FoundMeansSlots'
    <2>1. \A k \in 1 .. i' - 1 : k \in 1 .. i - 1 \/ k = i
      BY <1>1, <1>2
    <2> QED
      BY <1>1, <1>2, <1>3, <2>1 DEF DiscoveryInv, FoundMeansSlots
  <1> QED
    BY <1>4, <1>5, <1>6, <1>7, <1>8 DEF DiscoveryInv

\* The end of a discovery, as far as it does not depend on how it ended.
LEMMA ReturnStep ==
    ASSUME DiscoveryInv, phase \in {"register", "next"}, Return,
           UNCHANGED <<servers, role, slots, sick, pending>>,
           discovered' \in BOOLEAN, discovered' => \E s \in Known : slots[s] # {}
    PROVE  DiscoveryInv'
  <1>1. /\ owner' = NoThread /\ phase' = "idle" /\ at' = NoList
        /\ kept' = [s \in Servers |-> {}] /\ tried' = {} /\ disturbed' = FALSE
        /\ found' = FALSE /\ UNCHANGED <<stale, rest>>
    BY DEF Return, todo
  <1>2. Known' = Known /\ ListsMatchRoles(servers, role)'
    BY SameRegistry
  <1>3. TypeOK'
    BY <1>1 DEF DiscoveryInv, TypeOK
  <1>4. RegistryConsistent'
    BY <1>1, <1>2 DEF DiscoveryInv, RegistryConsistent
  <1>5. TopologyNeverLost'
    BY <1>2 DEF TopologyNeverLost, Replacing
  <1> QED
    BY <1>1, <1>3, <1>4, <1>5
       DEF DiscoveryInv, TopologyMatchesReply, KeptUntilFound, FoundMeansSlots,
           NodeUnderWay

\* The discovery ends with the slots of the reply.
LEMMA SucceedStep ==
    ASSUME DiscoveryInv, Succeed
    PROVE  DiscoveryInv'
  <1>1. \E s \in Known : slots[s] # {}
    BY DEF Succeed, DiscoveryInv, FoundMeansSlots
  <1> QED
    BY <1>1, ReturnStep DEF Succeed, registry

\* A reply without slots leaves the topology alone.
LEMMA NothingFoundStep ==
    ASSUME DiscoveryInv, NothingFound
    PROVE  DiscoveryInv'
  <1>1. /\ phase = "register" /\ ~found /\ phase' = "next" /\ disturbed' \in BOOLEAN
        /\ UNCHANGED <<servers, role, slots, sick, discovered, pending, owner, origin, at,
                       asked, stale, rest, found, kept, tried>>
    BY DEF NothingFound, registry, todo, DiscoveryInv, TypeOK
  <1>2. Known' = Known /\ ListsMatchRoles(servers, role)'
    BY <1>1, SameRegistry
  <1>3. TypeOK'
    BY <1>1 DEF DiscoveryInv, TypeOK
  <1>4. RegistryConsistent'
    BY <1>1, <1>2 DEF DiscoveryInv, RegistryConsistent
  <1>5. KeptUntilFound' /\ TopologyNeverLost'
    BY <1>1, <1>2 DEF DiscoveryInv, KeptUntilFound, TopologyNeverLost, Replacing
  <1> QED
    BY <1>1, <1>3, <1>4, <1>5
       DEF DiscoveryInv, TopologyMatchesReply, FoundMeansSlots, NodeUnderWay

\* The loop visits a server of some list.
LEMMA VisitStep ==
    ASSUME DiscoveryInv, phase = "next", NEW s \in Known, NEW l \in Lists, Visit(s, l),
           UNCHANGED <<registry, discovered, pending>>
    PROVE  DiscoveryInv'
  <1>1. /\ UNCHANGED <<servers, role, slots, sick, discovered, pending, owner, origin,
                       reply, i, stale, rest, found, kept, disturbed>>
        /\ asked' = s /\ at' = l /\ phase' \in {"next", "ask"} /\ tried' = tried \union {s}
    BY DEF Visit, registry, todo
  <1>2. Known' = Known /\ ListsMatchRoles(servers, role)'
    BY <1>1, SameRegistry
  <1>3. s \in Servers
    BY KnownIsListed DEF DiscoveryInv, RegistryConsistent
  <1>4. TypeOK'
    BY <1>1, <1>3 DEF DiscoveryInv, TypeOK
  <1>5. RegistryConsistent'
    BY <1>1, <1>2 DEF DiscoveryInv, RegistryConsistent
  <1>6. KeptUntilFound' /\ TopologyNeverLost'
    BY <1>1, <1>2 DEF DiscoveryInv, KeptUntilFound, TopologyNeverLost, Replacing
  <1> QED
    BY <1>1, <1>4, <1>5, <1>6
       DEF DiscoveryInv, TopologyMatchesReply, FoundMeansSlots, NodeUnderWay

\* The loops go on in a list, with the next one, or are over.
LEMMA NextServerStep ==
    ASSUME DiscoveryInv, NextServer
    PROVE  DiscoveryInv'
  <1>0. phase = "next" /\ UNCHANGED <<registry, discovered, pending>>
    BY DEF NextServer
  <1>1. CASE HasNext /\ Visit(Here[IndexOf(Here, asked) + 1], at)
    <2>1. asked \in Known /\ at \in Lists /\ at # NoList
      BY <1>0, <1>1 DEF DiscoveryInv, TypeOK, RegistryConsistent, HasNext
    <2>2. /\ List(asked, role[asked]) \in Lists
          /\ asked \in ToSet(Here) /\ Here \in Seq(Servers)
      BY <2>1, KnownIsListed DEF DiscoveryInv, RegistryConsistent, Here, TypeOK
    <2>3. IndexOf(Here, asked) \in DOMAIN Here
      BY <2>2, IndexIsThere
    <2>4. IndexOf(Here, asked) + 1 \in DOMAIN Here
      <3>1. Len(Here) \in Nat /\ DOMAIN Here = 1 .. Len(Here)
        BY <2>2, LenProperties
      <3> QED
        BY <1>1, <2>3, <3>1 DEF HasNext
    <2>5. Here[IndexOf(Here, asked) + 1] \in Known
      BY <2>2, <2>4, ListedIsKnown DEF Here, DiscoveryInv
    <2> QED
      BY <1>0, <1>1, <2>1, <2>5, VisitStep
  <1>2. ASSUME NEW l \in Nonempty, Visit(Head(servers[l]), l)
        PROVE  DiscoveryInv'
    <2>1. l \in Lists /\ servers[l] # << >> /\ servers[l] \in Seq(Servers)
      BY <1>2 DEF Nonempty, DiscoveryInv, TypeOK
    <2>2. 1 \in DOMAIN servers[l] /\ Head(servers[l]) = servers[l][1]
      BY <2>1, HeadTailProperties, EmptySeq, LenProperties
    <2>3. Head(servers[l]) \in Known
      BY <2>1, <2>2, ListedIsKnown DEF DiscoveryInv
    <2> QED
      BY <1>0, <1>2, <2>1, <2>3, VisitStep
  <1>3. CASE Return
    BY <1>0, <1>3, ReturnStep DEF registry, DiscoveryInv, TypeOK, TopologyNeverLost, Replacing
  <1> QED
    BY <1>1, <1>2, <1>3 DEF NextServer

\* Connections of workers that fail or are established again.
LEMMA SicknessStep ==
    ASSUME DiscoveryInv, NEW s \in Servers, ConnectionFails(s) \/ Recovers(s)
    PROVE  DiscoveryInv'
  <1>1. /\ UNCHANGED <<servers, role, slots, discovered, pending, owner, phase, origin, at,
                       asked, reply, i, stale, rest, found, kept, tried, disturbed>>
        /\ sick' \in SUBSET Servers
    BY DEF ConnectionFails, Recovers, NoDiscovery, todo, history, DiscoveryInv, TypeOK
  <1>2. Known' = Known /\ ListsMatchRoles(servers, role)'
    BY <1>1, SameRegistry
  <1>3. TypeOK'
    BY <1>1 DEF DiscoveryInv, TypeOK
  <1>4. RegistryConsistent'
    BY <1>1, <1>2 DEF DiscoveryInv, RegistryConsistent
  <1>5. TopologyMatchesReply'
    BY <1>1 DEF DiscoveryInv, TopologyMatchesReply, Reported, Resolved, Given
  <1>6. KeptUntilFound' /\ TopologyNeverLost' /\ FoundMeansSlots' /\ NodeUnderWay'
    BY <1>1, <1>2 DEF DiscoveryInv, KeptUntilFound, TopologyNeverLost, Replacing,
                       FoundMeansSlots, NodeUnderWay, Resolved
  <1> QED
    BY <1>3, <1>4, <1>5, <1>6 DEF DiscoveryInv

-----------------------------------------------------------------------------
(***************************************************************************)
(* The theorems.                                                           *)
(***************************************************************************)

\* Whatever the servers reply, in whatever order threads register servers,
\* discover and follow redirections, a discovery (unsafe_discover_slots() and
\* unsafe_add_redis_server()) keeps the invariant at each of its steps.
THEOREM Invariance == Spec => []DiscoveryInv
  <1>1. Init => DiscoveryInv
    <2> SUFFICES ASSUME Init PROVE DiscoveryInv
      OBVIOUS
    <2>1. \A l \in Lists : DOMAIN servers[l] = {} /\ servers[l] = << >>
      BY DEF Init
    <2>2. TypeOK
      <3>1. servers \in [Lists -> Seq(Servers)]
        BY EmptySeq DEF Init
      <3>2. \A t \in Threads : pending[t] = NoServer
        BY DEF Init
      <3>3. pending \in [Threads -> Servers \union {NoServer}]
        BY <3>2 DEF Init
      <3>4. role \in [Servers -> Roles]
        BY DEF Init, Roles
      <3>5. slots \in [Servers -> SUBSET Slots] /\ kept \in [Servers -> SUBSET Slots]
        BY DEF Init
      <3> QED
        BY <3>1, <3>3, <3>4, <3>5 DEF Init, TypeOK
    <2>3. RegistryConsistent
      BY <2>1, ServersAssumption DEF Init, RegistryConsistent, ListsMatchRoles
    <2> QED
      BY <2>2, <2>3 DEF Init, DiscoveryInv, TopologyMatchesReply, KeptUntilFound,
                        TopologyNeverLost, FoundMeansSlots, NodeUnderWay
  <1>2. DiscoveryInv /\ [Next]_vars => DiscoveryInv'
    <2> SUFFICES ASSUME DiscoveryInv, [Next]_vars PROVE DiscoveryInv'
      OBVIOUS
    <2>1. ASSUME NEW t \in Threads, NEW s \in Servers, AddServer(t, s) \/ AskReply(t, s)
          PROVE  DiscoveryInv'
      BY <2>1, AddStep
    <2>2. ASSUME NEW t \in Threads, NEW s \in Servers, MovedReply(t, s) PROVE DiscoveryInv'
      BY <2>2, MovedReplyStep
    <2>3. ASSUME NEW t \in Threads, DiscoverPending(t) PROVE DiscoveryInv'
      BY <2>3, DiscoverPendingStep
    <2>4. CASE Discover
      BY <2>4, AnswerStep, RegisterNodeStep, ResetSlotsStep, RegisterSlotStep, SkipNodeStep,
         SucceedStep, NothingFoundStep, NextServerStep DEF Discover
    <2>5. ASSUME NEW s \in Servers, ConnectionFails(s) \/ Recovers(s) PROVE DiscoveryInv'
      BY <2>5, SicknessStep
    <2>6. CASE UNCHANGED vars
      <3>1. UNCHANGED <<servers, role, slots, sick, discovered, pending, owner, phase, origin,
                        at, asked, reply, i, stale, rest, found, kept, tried, disturbed>>
        BY <2>6 DEF vars, registry, todo, history
      <3>2. Known' = Known /\ ListsMatchRoles(servers, role)'
        BY <3>1, SameRegistry
      <3>3. TypeOK' /\ RegistryConsistent'
        BY <3>1, <3>2 DEF DiscoveryInv, TypeOK, RegistryConsistent
      <3>4. TopologyMatchesReply'
        BY <3>1 DEF DiscoveryInv, TopologyMatchesReply, Reported, Resolved, Given
      <3>5. KeptUntilFound' /\ TopologyNeverLost' /\ FoundMeansSlots' /\ NodeUnderWay'
        BY <3>1, <3>2 DEF DiscoveryInv, KeptUntilFound, TopologyNeverLost, Replacing,
                           FoundMeansSlots, NodeUnderWay, Resolved
      <3> QED
        BY <3>3, <3>4, <3>5 DEF DiscoveryInv
    <2> QED
      BY <2>1, <2>2, <2>3, <2>4, <2>5, <2>6 DEF Next
  <1> QED
    BY <1>1, <1>2, PTL DEF Spec

\* Variables keep their types, and no discovery runs without the mutexes.
THEOREM TypeCorrect == Spec => []TypeOK
  BY Invariance, PTL DEF DiscoveryInv

\* unsafe_add_redis_server() leaves a server in one place of one list, that of
\* its weight and role, however often and in whatever roles it is reported.
THEOREM RegistryStaysConsistent == Spec => []RegistryConsistent
  BY Invariance, PTL DEF DiscoveryInv

\* unsafe_discover_slots_aux() registers what the reply says, neither less nor
\* mixed with the topology known before.
THEOREM TopologyIsTheReply == Spec => []TopologyMatchesReply
  BY Invariance, PTL DEF DiscoveryInv

\* The known topology outlives every reply that brings no slots.
THEOREM TopologyIsKept == Spec => []KeptUntilFound
  BY Invariance, PTL DEF DiscoveryInv

\* Once a discovery has succeeded there are always servers with slots, except
\* between unsafe_reset_slots() and the first slot of the reply that replaces
\* them: that is all a thread reading them without the mutex may see.
THEOREM TopologySurvives == Spec => []TopologyNeverLost
  BY Invariance, PTL DEF DiscoveryInv

-----------------------------------------------------------------------------
(***************************************************************************)
(* The loops over the lists of servers.                                    *)
(***************************************************************************)

\* No reply, and nothing of the one that is being registered, has moved servers.
Orderly ==
    /\ ~disturbed
    /\ phase \notin {"reset", "slots"}
    /\ phase = "register" => \A k \in 1 .. i - 1 : reply[k].server = NoServer

\* The lists before that of the loop have been asked to the last server, and
\* the one of the loop up to the server asked last, which is still in it.
Walked ==
    /\ \A l \in Lists : l < at => ToSet(servers[l]) \subseteq tried
    /\ at # NoList =>
         /\ asked \in ToSet(servers[at])
         /\ \A k \in DOMAIN servers[at] :
              k <= IndexOf(servers[at], asked) => servers[at][k] \in tried

WalkInv == owner # NoThread /\ Orderly => Walked

\* VTAILQ_NEXT() stays in the list of the loop while nobody has moved.
LEMMA HereIsTheLoop ==
    ASSUME DiscoveryInv, Walked, at # NoList
    PROVE  /\ at \in Lists /\ Here = servers[at] /\ Here \in Seq(Servers) /\ Injective(Here)
           /\ IndexOf(Here, asked) \in 1 .. Len(Here) /\ DOMAIN Here = 1 .. Len(Here)
           /\ Here[IndexOf(Here, asked)] = asked
  <1>1. at \in Lists /\ servers[at] \in Seq(Servers) /\ asked \in ToSet(servers[at])
    BY DEF DiscoveryInv, TypeOK, Walked
  <1>2. at = List(asked, role[asked]) /\ Injective(servers[at])
    BY <1>1, MatchAsSets DEF DiscoveryInv, RegistryConsistent
  <1>3. Here = servers[at]
    BY <1>2 DEF Here
  <1>4. DOMAIN servers[at] = 1 .. Len(servers[at])
    BY <1>1, LenProperties
  <1> QED
    BY <1>1, <1>2, <1>3, <1>4, IndexIsThere

\* A list whose last server has been asked has been asked to the last server.
LEMMA ListWalked ==
    ASSUME DiscoveryInv, Walked, ~HasNext, NEW l \in Lists, l <= at
    PROVE  ToSet(servers[l]) \subseteq tried
  <1>0. at # NoList /\ l \in Int /\ at \in Int
    BY WeightsAssumption DEF Lists, NoList, DiscoveryInv, TypeOK
  <1>1. CASE l < at
    BY <1>1 DEF Walked
  <1>2. CASE l = at
    <2>1. IndexOf(Here, asked) \in 1 .. Len(Here) /\ Here \in Seq(Servers)
          /\ Here = servers[at] /\ DOMAIN Here = 1 .. Len(Here)
      BY <1>0, HereIsTheLoop
    <2>2. Len(Here) \in Nat /\ ~(IndexOf(Here, asked) < Len(Here))
      BY <1>0, <2>1 DEF HasNext
    <2>3. \A k \in 1 .. Len(Here) : k <= IndexOf(Here, asked)
      BY <2>1, <2>2
    <2>4. \A k \in DOMAIN Here : Here[k] \in tried
      BY <1>0, <2>1, <2>3 DEF Walked
    <2> QED
      BY <1>2, <2>1, <2>4 DEF ToSet
  <1> QED
    BY <1>0, <1>1, <1>2

\* The loop goes on in its list.
LEMMA NextWalked ==
    ASSUME DiscoveryInv, Walked, HasNext, Visit(Here[IndexOf(Here, asked) + 1], at),
           UNCHANGED <<servers, role>>
    PROVE  Walked'
  <1> DEFINE q == servers[at]
             k == IndexOf(q, asked)
             s == q[k + 1]
  <1>1. /\ at \in Lists /\ at # NoList /\ Here = q /\ q \in Seq(Servers) /\ Injective(q)
        /\ k \in 1 .. Len(q) /\ DOMAIN q = 1 .. Len(q)
    BY HereIsTheLoop DEF HasNext
  <1>2. k < Len(q) /\ Len(q) \in Nat
    BY <1>1 DEF HasNext
  <1>3. k + 1 \in DOMAIN q /\ s \in ToSet(q)
    BY <1>1, <1>2 DEF ToSet
  <1>4. asked' = s /\ at' = at /\ tried' = tried \union {s} /\ servers' = servers
    BY <1>1 DEF Visit
  <1>5. IndexOf(q, s) = k + 1
    <2>1. IndexOf(q, s) \in DOMAIN q /\ q[IndexOf(q, s)] = s
      BY <1>3, IndexIsThere
    <2> QED
      BY <1>1, <1>3, <2>1 DEF Injective
  <1>6. \A j \in DOMAIN q : j <= k => q[j] \in tried
    BY <1>1 DEF Walked
  <1>7. \A l \in Lists : l < at => ToSet(servers[l]) \subseteq tried
    BY DEF Walked
  <1> HIDE DEF k, s
  <1>8. ASSUME NEW j \in DOMAIN q, j <= k + 1 PROVE q[j] \in tried'
    <2>1. j <= k \/ j = k + 1
      BY <1>1, <1>8
    <2> QED
      BY <1>4, <1>6, <2>1 DEF s
  <1>9. asked' \in ToSet(servers'[at']) /\ IndexOf(servers'[at'], asked') = k + 1
    BY <1>3, <1>4, <1>5, Zenon
  <1>10. \A j \in DOMAIN servers'[at'] :
           j <= IndexOf(servers'[at'], asked') => servers'[at'][j] \in tried'
    BY <1>4, <1>8, <1>9, Zenon
  <1>11. \A l \in Lists : l < at' => ToSet(servers'[l]) \subseteq tried'
    BY <1>4, <1>7
  <1> QED
    BY <1>9, <1>10, <1>11 DEF Walked, Lists

\* The loop goes on with the next list that has servers.
LEMMA NextListWalked ==
    ASSUME DiscoveryInv, Walked, ~HasNext, NEW l \in Nonempty,
           \A k \in Nonempty : l <= k, Visit(Head(servers[l]), l),
           UNCHANGED <<servers, role>>
    PROVE  Walked'
  <1> DEFINE q == servers[l]
             s == q[1]
  <1>1. l \in Lists /\ q # << >> /\ q \in Seq(Servers) /\ l \in Int /\ at \in Int
    BY WeightsAssumption DEF Nonempty, DiscoveryInv, TypeOK, Lists, NoList
  <1>2. 1 \in DOMAIN q /\ Head(q) = s /\ s \in ToSet(q)
        /\ DOMAIN q = 1 .. Len(q) /\ Len(q) \in Nat
    BY <1>1, HeadTailProperties, EmptySeq, LenProperties DEF ToSet
  <1>3. asked' = s /\ at' = l /\ tried' = tried \union {s} /\ servers' = servers
    BY <1>2 DEF Visit
  <1>4. IndexOf(q, s) = 1
    <2>1. Injective(q)
      BY <1>1, MatchAsSets DEF DiscoveryInv, RegistryConsistent
    <2>2. IndexOf(q, s) \in DOMAIN q /\ q[IndexOf(q, s)] = s
      BY <1>2, IndexIsThere
    <2> QED
      BY <1>2, <2>1, <2>2 DEF Injective
  <1>5. ASSUME NEW k \in Lists, k < l PROVE ToSet(servers[k]) \subseteq tried
    <2>0. k \in Int
      BY DEF Lists
    <2>1. CASE k <= at
      BY <2>1, ListWalked
    <2>2. CASE ~(k <= at)
      <3>1. k \notin Nonempty
        BY <1>1, <1>5, <2>0
      <3>2. servers[k] = << >>
        BY <1>1, <2>0, <2>2, <3>1 DEF Nonempty
      <3> QED
        BY <3>2 DEF ToSet
    <2> QED
      BY <2>1, <2>2
  <1> HIDE DEF s
  <1>6. asked' \in ToSet(servers'[at']) /\ IndexOf(servers'[at'], asked') = 1
    BY <1>2, <1>3, <1>4, Zenon
  <1>7. ASSUME NEW j \in DOMAIN q, j <= 1 PROVE q[j] \in tried'
    <2>1. j = 1
      BY <1>2, <1>7
    <2> QED
      BY <1>3, <2>1 DEF s
  <1>8. \A j \in DOMAIN servers'[at'] :
          j <= IndexOf(servers'[at'], asked') => servers'[at'][j] \in tried'
    BY <1>3, <1>6, <1>7, Zenon
  <1>9. \A k \in Lists : k < at' => ToSet(servers'[k]) \subseteq tried'
    BY <1>3, <1>5
  <1> QED
    BY <1>6, <1>8, <1>9 DEF Walked, Lists

\* Everybody has been asked when the loops are over.
LEMMA AllWalked ==
    ASSUME DiscoveryInv, Walked, ~HasNext, Nonempty = {}
    PROVE  Known \subseteq tried
  <1>1. ASSUME NEW l \in Lists PROVE ToSet(servers[l]) \subseteq tried
    <2>1. CASE l <= at
      BY <2>1, ListWalked
    <2>2. CASE ~(l <= at)
      <3>1. l \in Int /\ at \in Int
        BY WeightsAssumption DEF Lists, NoList, DiscoveryInv, TypeOK
      <3>2. l > at
        BY <2>2, <3>1
      <3>3. servers[l] = << >>
        BY <3>2 DEF Nonempty
      <3> QED
        BY <3>3 DEF ToSet
    <2> QED
      BY <2>1, <2>2
  <1> QED
    BY <1>1 DEF Known, InSomeList

\* Steps of other threads, and those of the reply, leave the loop where it is.
LEMMA WalkStep ==
    ASSUME DiscoveryInv, WalkInv, [Next]_vars
    PROVE  WalkInv'
  <1> SUFFICES ASSUME owner' # NoThread, Orderly' PROVE Walked'
    BY DEF WalkInv
  <1>1. ASSUME NEW t \in Threads, NEW s \in Servers, AddServer(t, s) \/ AskReply(t, s)
        PROVE  FALSE
    BY <1>1 DEF AddServer, AskReply, Free, NoDiscovery
  <1>2. ASSUME NEW t, NEW s, Begin(t, s)
        PROVE  Walked'
    <2>1. at' = NoList
      BY <1>2 DEF Begin
    <2> QED
      BY <2>1, WeightsAssumption DEF Walked, NoList, Lists
  <1>3. ASSUME UNCHANGED <<servers, role, at, asked, tried, owner>>, Orderly
        PROVE  Walked'
    BY <1>3 DEF WalkInv, Walked, Lists
  <1>4. CASE NoAnswer \/ \E r \in Replies : Answer(r)
    <2>1. UNCHANGED <<servers, role, at, asked, tried, owner, disturbed>> /\ phase = "ask"
      BY <1>4 DEF NoAnswer, Answer, registry, history
    <2>2. Orderly
      BY <2>1 DEF Orderly
    <2> QED
      BY <1>3, <2>1, <2>2
  <1>5. CASE RegisterNode \/ ResetSlots \/ RegisterSlot
    <2>1. ASSUME phase' = "register", i' = i + 1, reply' = reply, i \in Nat \ {0},
                 reply[i].server # NoServer
          PROVE  FALSE
      <3>1. i \in 1 .. i' - 1
        BY <2>1
      <3> QED
        BY <2>1, <3>1 DEF Orderly
    <2>2. CASE RegisterNode
      <3>1. /\ reply' = reply /\ i \in Nat \ {0} /\ reply[i].server # NoServer
            /\ phase' \in {"register", "slots", "reset"}
            /\ phase' = "register" => i' = i + 1
        BY <2>2 DEF RegisterNode, AfterNode, DiscoveryInv, TypeOK
      <3> QED
        BY <2>1, <3>1 DEF Orderly
    <2>3. CASE ResetSlots
      BY <2>3 DEF ResetSlots, Orderly
    <2>4. CASE RegisterSlot
      <3>1. /\ reply' = reply /\ i \in Nat \ {0} /\ reply[i].server # NoServer
            /\ phase' \in {"register", "slots"}
            /\ phase' = "register" => i' = i + 1
        BY <2>4 DEF RegisterSlot, DiscoveryInv, TypeOK, NodeUnderWay
      <3> QED
        BY <2>1, <3>1 DEF Orderly
    <2> QED
      BY <1>5, <2>2, <2>3, <2>4
  <1>6. CASE SkipNode
    <2>1. /\ UNCHANGED <<servers, role, at, asked, tried, owner, disturbed, reply>>
          /\ phase' = "register" /\ phase = "register" /\ i' = i + 1
      BY <1>6 DEF SkipNode, registry, history
    <2>2. i \in Nat \ {0}
      BY <2>1 DEF DiscoveryInv, TypeOK
    <2>3. \A k \in 1 .. i - 1 : k \in 1 .. i' - 1
      BY <2>1, <2>2
    <2>4. Orderly
      BY <2>1, <2>3 DEF Orderly
    <2> QED
      BY <1>3, <2>1, <2>4
  <1>7. CASE NothingFound
    <2>1. /\ UNCHANGED <<servers, role, at, asked, tried, owner>>
          /\ phase = "register" /\ i > Len(reply)
          /\ disturbed' = (disturbed \/ \E k \in DOMAIN reply : reply[k].server # NoServer)
      BY <1>7 DEF NothingFound, registry
    <2>2. ~disturbed'
      BY DEF Orderly
    <2>3. ~disturbed /\ \A k \in DOMAIN reply : reply[k].server = NoServer
      BY <2>1, <2>2
    <2>4. reply \in Seq(Node) /\ i \in 1 .. Len(reply) + 1
      BY <2>1 DEF DiscoveryInv, TypeOK
    <2>5. \A k \in 1 .. i - 1 : k \in DOMAIN reply
      BY <2>4
    <2>6. Orderly
      BY <2>1, <2>3, <2>5 DEF Orderly
    <2> QED
      BY <1>3, <2>1, <2>6
  <1>8. CASE NextServer
    <2>1. phase = "next" /\ UNCHANGED <<servers, role>>
      BY <1>8 DEF NextServer, registry
    <2>2. ASSUME NEW s, NEW l, Visit(s, l) PROVE Walked
      <3>1. owner' = owner /\ disturbed' = disturbed
        BY <2>2 DEF Visit
      <3> QED
        BY <2>1, <3>1 DEF WalkInv, Orderly
    <2>3. ~Return
      BY DEF Return
    <2>4. CASE HasNext /\ Visit(Here[IndexOf(Here, asked) + 1], at)
      BY <2>1, <2>2, <2>4, NextWalked
    <2>5. ASSUME ~HasNext, NEW l \in Nonempty, \A k \in Nonempty : l <= k,
                 Visit(Head(servers[l]), l)
          PROVE  Walked'
      BY <2>1, <2>2, <2>5, NextListWalked
    <2> QED
      BY <1>8, <2>3, <2>4, <2>5 DEF NextServer
  <1>9. CASE Succeed
    BY <1>9 DEF Succeed, Return
  <1>10. CASE UNCHANGED vars \/ \E s \in Servers : ConnectionFails(s) \/ Recovers(s)
    <2>1. UNCHANGED <<servers, role, at, asked, tried, owner, phase, disturbed, reply, i>>
      BY <1>10 DEF ConnectionFails, Recovers, NoDiscovery, vars, registry, history
    <2>2. Orderly
      BY <2>1 DEF Orderly
    <2> QED
      BY <1>3, <2>1, <2>2
  <1> QED
    BY <1>1, <1>2, <1>4, <1>5, <1>6, <1>7, <1>8, <1>9, <1>10
       DEF Next, MovedReply, DiscoverPending, Discover

\* unsafe_discover_slots() gives up only after every known server was asked,
\* unless a reply without slots moved servers under its loops.
THEOREM NobodyLeftOut == Spec => EveryServerAsked
  <1>1. Init => WalkInv
    BY DEF Init, WalkInv
  <1>2. DiscoveryInv /\ WalkInv /\ [Next]_vars => WalkInv'
    BY WalkStep
  <1>3. DiscoveryInv /\ WalkInv /\ [Next]_vars
          => [owner # NoThread /\ owner' = NoThread /\ phase = "next" /\ ~disturbed
                => Known \subseteq tried]_vars
    <2> SUFFICES ASSUME DiscoveryInv, WalkInv, Next, owner # NoThread, owner' = NoThread,
                        phase = "next", ~disturbed
                 PROVE  Known \subseteq tried
      OBVIOUS
    <2>1. Walked
      BY DEF WalkInv, Orderly
    <2>2. ~HasNext /\ Nonempty = {}
      <3>1. ASSUME NEW s \in Servers PROVE ~(ConnectionFails(s) \/ Recovers(s))
        BY DEF ConnectionFails, Recovers, NoDiscovery
      <3>2. ASSUME NEW t \in Threads, NEW s \in Servers
            PROVE  ~(AddServer(t, s) \/ MovedReply(t, s) \/ AskReply(t, s)
                       \/ DiscoverPending(t))
        BY DEF AddServer, MovedReply, AskReply, DiscoverPending, Free
      <3>3. \A t \in Threads : ~DiscoverPending(t)
        BY DEF DiscoverPending, Free
      <3>4. NextServer
        BY <3>1, <3>2, <3>3
           DEF Next, Discover, NoAnswer, Answer, RegisterNode, ResetSlots, RegisterSlot,
               SkipNode, Succeed, NothingFound
      <3>5. ASSUME NEW s, NEW l PROVE ~Visit(s, l)
        BY DEF Visit
      <3> QED
        BY <3>4, <3>5 DEF NextServer
    <2> QED
      BY <2>1, <2>2, AllWalked
  <1> QED
    BY <1>1, <1>2, <1>3, Invariance, PTL DEF Spec, EveryServerAsked
=============================================================================
