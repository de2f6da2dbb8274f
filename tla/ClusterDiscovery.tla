--------------------------- MODULE ClusterDiscovery ---------------------------
(***************************************************************************)
(* The servers a clustered database knows, and the discovery of the slots  *)
(* they serve: unsafe_add_redis_server() (core.c), unsafe_discover_slots() *)
(* and its helpers (cluster.c), .add_server() (vmod_redis.c).              *)
(*                                                                         *)
(* A discovery runs with config->mutex and db->mutex held from beginning   *)
(* to end, so "owner" keeps every other thread that wants them out.  It    *)
(* is still many steps here, one for each server that is asked, for each   *)
(* node of its reply, for each server whose slots are reset and for each   *)
(* slot that is set: the threads with private connections read roles and   *)
(* slots without the mutex, and the loop over the lists of servers goes on *)
(* while those lists change under it.                                      *)
(***************************************************************************)
EXTENDS ServerLists

CONSTANTS
    Threads,      \* worker threads, and the one running vcl_init
    NoThread,     \* nobody owns the mutexes
    NoServer,     \* the NULL pointer; in a reply, a node that is not parsed
    Self,         \* in a reply, a node without endpoint: the server asked
    Slots,        \* 0 .. NREDIS_CLUSTER_SLOTS - 1
    SicknessTTL,  \* db->sickness_ttl
    Replies       \* what CLUSTER SHARDS may reply, as sequences of nodes

\* A node of a reply, with the slots of its shard.  Shards that are not
\* parsed have no nodes here, and slot ranges that are not parsed no slots.
Node == [server : Servers \union {NoServer, Self}, role : {Slave, Master},
         healthy : BOOLEAN, slots : SUBSET Slots]

ASSUME ServersAssumption ==
    /\ NoServer \notin Servers
    /\ Self \notin Servers
    /\ Self # NoServer
    /\ NoThread \notin Threads

ASSUME RepliesAssumption ==
    /\ SicknessTTL \in Nat
    /\ \A reply \in Replies : reply \in Seq(Node)

\* The loop over the lists of servers has not started.
NoList == -1

VARIABLES
    servers,     \* db->servers: a sequence of servers for each list
    role,        \* server->role
    slots,       \* server->cluster.slots
    sick,        \* servers with server->sickness.exp > time(NULL)
    discovered,  \* db->stats.cluster.discoveries.total > 0
    pending,     \* the server each thread is about to start a discovery with
    owner,       \* the thread that runs a discovery, holding both mutexes
    phase,       \* where it is
    origin,      \* argument "server" of unsafe_discover_slots()
    at,          \* list its loop is in (NoList: before the loop)
    asked,       \* argument "server" of unsafe_discover_slots_aux()
    reply,       \* the reply to CLUSTER SHARDS
    i,           \* the node of it to be registered next
    stale,       \* servers that unsafe_reset_slots() has still to reset
    rest,        \* slots of the node that are still to be registered
    found,       \* some slot of the reply is registered: from then on
                 \* "reset" is set, and slot_ranges > 0 once the node is done
    kept,        \* history: the slots when the discovery started
    tried,       \* history: the servers it has asked
    disturbed    \* history: a reply without slots has moved servers

registry == <<servers, role, slots, sick>>
todo == <<stale, rest>>
history == <<kept, tried, disturbed>>
vars == <<registry, discovered, pending, owner, phase, origin, at, asked,
          reply, i, todo, found, history>>

-----------------------------------------------------------------------------
(***************************************************************************)
(* unsafe_add_redis_server().                                              *)
(***************************************************************************)

Known == InSomeList(servers)

\* unsafe_add_redis_server(): the server, found in some list or new, goes to
\* the tail of the list of role r.
Register(s, r) ==
    /\ servers' = MovedTo(servers, s, r)
    /\ role' = [role EXCEPT ![s] = r]

\* ... for a caller that does not know the role (TBD): the server is probed,
\* and "r" is what it says, TBD if it says nothing.  A server that is already
\* known keeps its role then, and its sickness flag is flushed; a new one is
\* sick if the probe could not even connect.
RegisterProbed(s, r, connected) ==
    /\ connected \/ r = TBD
    /\ Register(s, IF r = TBD /\ s \in Known THEN role[s] ELSE r)
    /\ sick' = IF s \notin Known /\ ~connected /\ SicknessTTL > 0
               THEN sick \union {s}
               ELSE sick \ {s}
    /\ UNCHANGED slots

-----------------------------------------------------------------------------
(***************************************************************************)
(* Threads that register a server, and the beginning of a discovery.       *)
(***************************************************************************)

\* Both mutexes are free.
Free == owner = NoThread

\* Mutant of Begin: the thread releases the mutexes before it discovers.
BeginUnlocked(t, s) ==
    /\ owner' = NoThread
    /\ phase' = "ask"
    /\ origin' = s
    /\ asked' = s
    /\ at' = NoList
    /\ kept' = slots
    /\ tried' = {s}
    /\ disturbed' = FALSE
    /\ UNCHANGED <<reply, i, todo, found>>

\* unsafe_discover_slots() is called with s.
Begin(t, s) ==
    /\ owner' = t
    /\ phase' = "ask"
    /\ origin' = s
    /\ asked' = s
    /\ at' = NoList
    /\ kept' = slots
    /\ tried' = {s}
    /\ disturbed' = FALSE
    /\ UNCHANGED <<reply, i, todo, found>>

NoDiscovery ==
    UNCHANGED <<owner, phase, origin, at, asked, reply, i, todo, found, history>>

\* unsafe_discover_slots() returns and its caller releases the mutexes.
Return ==
    /\ owner' = NoThread
    /\ phase' = "idle"
    /\ origin' = NoServer
    /\ asked' = NoServer
    /\ at' = NoList
    /\ kept' = [s \in Servers |-> {}]
    /\ tried' = {}
    /\ disturbed' = FALSE
    /\ reply' = << >>
    /\ i' = 1
    /\ found' = FALSE
    /\ UNCHANGED todo

\* vmod_db__init() and vmod_db_add_server(): the mutexes are released between
\* the registration and the discovery it calls for.
AddServer(t, s) ==
    /\ Free
    /\ pending[t] = NoServer
    /\ \E r \in Roles, connected \in BOOLEAN : RegisterProbed(s, r, connected)
    /\ pending' = [pending EXCEPT ![t] = IF discovered THEN NoServer ELSE s]
    /\ NoDiscovery
    /\ UNCHANGED discovered

\* discover_cluster_slots().
DiscoverPending(t) ==
    /\ Free
    /\ pending[t] # NoServer
    /\ Begin(t, pending[t])
    /\ pending' = [pending EXCEPT ![t] = NoServer]
    /\ UNCHANGED <<registry, discovered>>

\* cluster_execute(): a MOVED reply naming s.  The mutexes are kept.
MovedReply(t, s) ==
    /\ Free
    /\ pending[t] = NoServer
    /\ \E r \in Roles, connected \in BOOLEAN : RegisterProbed(s, r, connected)
    /\ Begin(t, s)
    /\ UNCHANGED <<discovered, pending>>

\* cluster_execute(): an ASK reply naming s.
AskReply(t, s) ==
    /\ Free
    /\ pending[t] = NoServer
    /\ \E r \in Roles, connected \in BOOLEAN : RegisterProbed(s, r, connected)
    /\ NoDiscovery
    /\ UNCHANGED <<discovered, pending>>

-----------------------------------------------------------------------------
(***************************************************************************)
(* unsafe_discover_slots_aux().                                            *)
(***************************************************************************)

\* The server cannot be connected, or replies nothing that is an array.
NoAnswer ==
    /\ phase = "ask"
    /\ phase' = "next"
    /\ UNCHANGED <<registry, discovered, pending, owner, origin, at, asked,
                   reply, i, todo, found, history>>

\* Mutant of Answer: the slots are reset before the reply is parsed.
AnswerResets(r) ==
    /\ phase = "ask"
    /\ phase' = "register"
    /\ reply' = r
    /\ i' = 1
    /\ found' = FALSE
    /\ slots' = [s \in Servers |-> {}]
    /\ UNCHANGED <<servers, role, sick, discovered, pending, owner, origin, at, asked,
                   todo, history>>

Answer(r) ==
    /\ phase = "ask"
    /\ phase' = "register"
    /\ reply' = r
    /\ i' = 1
    /\ found' = FALSE
    /\ UNCHANGED <<registry, discovered, pending, owner, origin, at, asked, todo,
                   history>>

\* The server that node k of the reply is about.
Resolved(k) == IF reply[k].server = Self THEN asked ELSE reply[k].server

\* Mutant of AfterNode: the slots are reset again for every node with some.
ResetAgain(new) ==
    /\ phase' = IF new = {} THEN "register" ELSE "reset"
    /\ i' = IF new = {} THEN i + 1 ELSE i
    /\ stale' = IF new = {} THEN {} ELSE Known'
    /\ rest' = new

\* What follows the registration of a node with slots new: the next node if
\* there are none, and else those slots, the previous ones of all the
\* servers being reset just before the first ones of the reply.
AfterNode(new) ==
    /\ phase' = IF new = {} THEN "register" ELSE IF found THEN "slots" ELSE "reset"
    /\ i' = IF new = {} THEN i + 1 ELSE i
    /\ stale' = IF new = {} \/ found THEN {} ELSE Known'
    /\ rest' = new

\* A node of the reply is parsed and registered: parse_node() and
\* unsafe_add_node().
RegisterNode ==
    /\ phase = "register"
    /\ i <= Len(reply)
    /\ reply[i].server # NoServer
    /\ LET s == Resolved(i)
       IN  /\ Register(s, reply[i].role)
           /\ sick' = IF reply[i].healthy \/ SicknessTTL = 0
                      THEN sick \ {s}
                      ELSE sick \union {s}
    /\ AfterNode(reply[i].slots)
    /\ UNCHANGED <<slots, discovered, pending, owner, origin, at, asked, reply, found,
                   history>>

\* The servers, list by list, in the order of unsafe_reset_slots().
NotAfter(s, x) ==
    LET l == List(s, role[s])
        k == List(x, role[x])
    IN  l < k \/ (l = k /\ IndexOf(servers[l], s) <= IndexOf(servers[l], x))

\* unsafe_reset_slots() resets the next server.
ResetSlots ==
    /\ phase = "reset"
    /\ \E s \in stale :
         /\ \A x \in stale : NotAfter(s, x)
         /\ slots' = [slots EXCEPT ![s] = {}]
         /\ stale' = stale \ {s}
    /\ phase' = IF stale' = {} THEN "slots" ELSE "reset"
    /\ UNCHANGED <<servers, role, sick, discovered, pending, owner, origin, at, asked,
                   reply, i, rest, found, history>>

\* A slot of the node is registered.
RegisterSlot ==
    /\ phase = "slots"
    /\ \E n \in rest :
         /\ slots' = [slots EXCEPT ![Resolved(i)] = @ \union {n}]
         /\ rest' = rest \ {n}
    /\ found' = TRUE
    /\ phase' = IF rest' = {} THEN "register" ELSE "slots"
    /\ i' = IF rest' = {} THEN i + 1 ELSE i
    /\ UNCHANGED <<servers, role, sick, discovered, pending, owner, origin, at, asked,
                   reply, stale, history>>

\* parse_errors++.
SkipNode ==
    /\ phase = "register"
    /\ i <= Len(reply)
    /\ reply[i].server = NoServer
    /\ i' = i + 1
    /\ UNCHANGED <<registry, discovered, pending, owner, phase, origin, at,
                   asked, reply, todo, found, history>>

\* The discovery is over once some slot range has been registered.
Succeed ==
    /\ phase = "register"
    /\ i > Len(reply)
    /\ found
    /\ discovered' = TRUE
    /\ Return
    /\ UNCHANGED <<registry, pending>>

NothingFound ==
    /\ phase = "register"
    /\ i > Len(reply)
    /\ ~found
    /\ phase' = "next"
    /\ reply' = << >>
    /\ i' = 1
    /\ disturbed' = (disturbed \/ \E k \in DOMAIN reply : reply[k].server # NoServer)
    /\ UNCHANGED <<registry, discovered, pending, owner, origin, at, asked,
                   todo, found, kept, tried>>

-----------------------------------------------------------------------------
(***************************************************************************)
(* The loops of unsafe_discover_slots() over the lists of servers.         *)
(***************************************************************************)

\* The list the server asked last is in now.
Here == servers[List(asked, role[asked])]

\* Mutant of HasNext: the loop over a list stops one server too early.
HasNextButLast == at # NoList /\ IndexOf(Here, asked) < Len(Here) - 1

\* VTAILQ_NEXT() looks for the next server where the last one is now, which
\* is not the list of the loop if its role has changed.
HasNext == at # NoList /\ IndexOf(Here, asked) < Len(Here)

\* Mutant of Nonempty: the loop starts the same list again.
NonemptyAgain == {l \in Lists : l >= at /\ servers[l] # << >>}

\* The lists that the loop has still to visit.
Nonempty == {l \in Lists : l > at /\ servers[l] # << >>}

\* The loop visits s in list l.  It does not ask the server it was called
\* with again.
Visit(s, l) ==
    /\ asked' = s
    /\ at' = l
    /\ phase' = IF s = origin THEN "next" ELSE "ask"
    /\ tried' = tried \union {s}
    /\ UNCHANGED <<owner, origin, reply, i, todo, found, kept, disturbed>>

NextServer ==
    /\ phase = "next"
    /\ \/ HasNext /\ Visit(Here[IndexOf(Here, asked) + 1], at)
       \/ /\ ~HasNext
          /\ \E l \in Nonempty :
               /\ \A k \in Nonempty : l <= k
               /\ Visit(Head(servers[l]), l)
       \/ /\ ~HasNext
          /\ Nonempty = {}
          /\ Return
    /\ UNCHANGED <<registry, discovered, pending>>

-----------------------------------------------------------------------------
(***************************************************************************)
(* The sickness flag outside discoveries.                                  *)
(***************************************************************************)

\* new_rcontext() of a worker fails.
ConnectionFails(s) ==
    /\ Free
    /\ SicknessTTL > 0
    /\ s \in Known
    /\ sick' = sick \union {s}
    /\ UNCHANGED <<servers, role, slots, discovered, pending>>
    /\ NoDiscovery

\* The flag expires, or a worker connects.
Recovers(s) ==
    /\ s \in sick
    /\ sick' = sick \ {s}
    /\ UNCHANGED <<servers, role, slots, discovered, pending>>
    /\ NoDiscovery

-----------------------------------------------------------------------------
Init ==
    /\ servers = [l \in Lists |-> << >>]
    /\ role = [s \in Servers |-> TBD]
    /\ slots = [s \in Servers |-> {}]
    /\ sick = {}
    /\ discovered = FALSE
    /\ pending = [t \in Threads |-> NoServer]
    /\ owner = NoThread
    /\ phase = "idle"
    /\ origin = NoServer
    /\ at = NoList
    /\ asked = NoServer
    /\ reply = << >>
    /\ i = 1
    /\ stale = {}
    /\ rest = {}
    /\ found = FALSE
    /\ kept = [s \in Servers |-> {}]
    /\ tried = {}
    /\ disturbed = FALSE

\* A step of the discovery under way.
Discover ==
    \/ NoAnswer
    \/ \E r \in Replies : Answer(r)
    \/ RegisterNode
    \/ ResetSlots
    \/ RegisterSlot
    \/ SkipNode
    \/ Succeed
    \/ NothingFound
    \/ NextServer

Next ==
    \/ \E t \in Threads, s \in Servers :
         AddServer(t, s) \/ MovedReply(t, s) \/ AskReply(t, s)
    \/ \E t \in Threads : DiscoverPending(t)
    \/ Discover
    \/ \E s \in Servers : ConnectionFails(s) \/ Recovers(s)

Spec == Init /\ [][Next]_vars

\* A discovery waits for no other thread, and its connections and commands
\* end: connection_timeout and command_timeout bound them where they are set,
\* and the servers answer or close the connection where they are not.
FairSpec == Spec /\ WF_vars(Discover)

-----------------------------------------------------------------------------
(***************************************************************************)
(* Properties.                                                             *)
(***************************************************************************)

\* Every variable has its type, and whoever discovers owns the mutexes.
TypeOK ==
    /\ servers \in [Lists -> Seq(Servers)]
    /\ role \in [Servers -> Roles]
    /\ slots \in [Servers -> SUBSET Slots]
    /\ sick \in SUBSET Servers
    /\ discovered \in BOOLEAN
    /\ pending \in [Threads -> Servers \union {NoServer}]
    /\ owner \in Threads \union {NoThread}
    /\ phase \in {"idle", "ask", "register", "reset", "slots", "next"}
    /\ phase = "idle" <=> owner = NoThread
    /\ phase # "idle" => origin \in Servers /\ asked \in Servers
    /\ at \in Lists \union {NoList}
    /\ phase = "register" => reply \in Seq(Node) /\ i \in 1 .. Len(reply) + 1
    /\ phase \in {"reset", "slots"} => reply \in Seq(Node) /\ i \in 1 .. Len(reply)
    /\ stale \in SUBSET Servers /\ (stale # {} <=> phase = "reset")
    /\ rest \in SUBSET Slots /\ (rest # {} <=> phase \in {"reset", "slots"})
    /\ found \in BOOLEAN
    /\ kept \in [Servers -> SUBSET Slots]
    /\ tried \in SUBSET Servers
    /\ disturbed \in BOOLEAN

\* A server is in one place of one list, the one its weight and its role
\* name (populate_execution_plan() asserts it while it walks the lists, and
\* Redis may report a node twice, or in another role each time); what is not
\* in a list has no slots, as unsafe_reset_slots() would not reach them.
RegistryConsistent ==
    /\ ListsMatchRoles(servers, role)
    /\ \A s \in Servers \ Known : slots[s] = {}
    /\ \A t \in Threads : pending[t] \in Known \union {NoServer}
    /\ owner # NoThread => asked \in Known /\ origin \in Known

\* Slots the first n nodes of the reply give to s.
Reported(s, n) == UNION {reply[k].slots : k \in {j \in 1 .. n : Resolved(j) = s}}

\* Slots of the node under way that are already registered, if it is about s.
Given(s) ==
    IF phase = "slots" /\ Resolved(i) = s THEN reply[i].slots \ rest ELSE {}

\* From the first slots that are registered on, what the servers serve is
\* what the reply has said so far: nothing is left of the old topology, and
\* nothing of this one is lost, however shards, roles and nodes without
\* slots are mixed in it.
TopologyMatchesReply ==
    phase = "slots" \/ (phase = "register" /\ found) =>
        \A s \in Servers : slots[s] = Reported(s, i - 1) \union Given(s)

\* "a reply that cannot be parsed at all [...] keeps the current topology
\* untouched": until a server replies with slots, they are the ones known
\* when the discovery started, no matter how many servers failed before.
\* While they are being reset no server has others than those it had.
KeptUntilFound ==
    /\ phase \in {"ask", "next"} \/ (phase = "register" /\ ~found) => slots = kept
    /\ phase = "reset" => \A s \in Servers : slots[s] = IF s \in stale THEN kept[s] ELSE {}

\* The only time a thread that reads slots without the mutex may find that
\* nobody serves any: between unsafe_reset_slots() and the first slot of the
\* reply.
Replacing == phase \in {"reset", "slots"} /\ ~found

\* Once a discovery has succeeded some server always has slots, whatever
\* later discoveries are told and wherever they are, except while one
\* topology is being replaced by another.  Those who wait for the mutex
\* always find some.
TopologyNeverLost == discovered => Replacing \/ \E s \in Known : slots[s] # {}

\* A discovery ends, and the mutexes are released.
DiscoveryEnds == []<>(owner = NoThread)

\* A discovery whose replies without slots name no server, so that the lists
\* are the same all the time it iterates on them, ends and releases the
\* mutexes, whatever happened to the lists before.
OrderlyDiscoveryEnds == <>[]~disturbed => []<>(owner = NoThread)

\* "Contact already known servers": such a discovery has asked every
\* server known when it gives up.
EveryServerAsked ==
    [][owner # NoThread /\ owner' = NoThread /\ phase = "next" /\ ~disturbed
         => Known \subseteq tried]_vars
=============================================================================
