---------------------------- MODULE SentinelThread ----------------------------
(***************************************************************************)
(* The thread that follows Redis Sentinel (sentinel.c), from the warm      *)
(* event that starts it to the cold event that waits for its end           *)
(* (vmod_redis.c).                                                         *)
(*                                                                         *)
(* The thread asks every Sentinel in turn, listens to what they publish,   *)
(* keeps an inventory of servers, and copies it to the servers registered  *)
(* in the databases.  It asks and listens without config->mutex, so that   *)
(* Sentinels change their minds, connections break, workers touch the same *)
(* servers and a cold event arrives between any two steps.                 *)
(*                                                                         *)
(* Times are counted from "now", the beginning of an iteration: 0 is any   *)
(* moment of the current one for last_change, and any moment that has come *)
(* for next_discovery; -1 is an earlier iteration.  Time passes while the  *)
(* thread sleeps, in whole seconds, and never goes backwards.              *)
(***************************************************************************)
EXTENDS Integers, FiniteSets, Sequences

CONSTANTS
    Servers,     \* locations (host and port) of Redis servers
    FirstMaster, \* the master all Sentinels know at first
    Locations,   \* the Sentinels of redis.sentinels(), in order
    Period,      \* state->period (0: no periodical discoveries)
    MaxSeconds,  \* bound: seconds an iteration lasts
    MaxEvents,   \* bound: notifications in transit from one Sentinel
    MaxDisturbances  \* bound: failures of servers and connections

ASSUME ServersAssumption == IsFiniteSet(Servers) /\ FirstMaster \in Servers

ASSUME LocationsAssumption ==
    /\ Len(Locations) \in Nat \ {0}
    /\ DOMAIN Locations = 1 .. Len(Locations)

ASSUME NumbersAssumption ==
    Period \in Nat /\ MaxSeconds \in Nat \ {0} /\ MaxEvents \in Nat \ {0} /\ MaxDisturbances \in Nat

VARIABLES
    vcl,             \* the VCL: cold, warm, or in the middle of a cold event
    sentinels,       \* config->sentinels: thread, active and discovery
    pc,              \* where the thread is
    asked,           \* the Sentinel discover_servers() is talking to
    inventory,       \* state->servers
    last_change,     \* state->last_change
    next_discovery,  \* state->next_discovery
    context,         \* isentinel->context, and the state of that connection
    events,          \* notifications on their way in each connection
    view,            \* what each Sentinel knows (external)
    disturbances,    \* bound: how often what follows was disturbed
    db               \* role of the servers in the database

config == <<vcl, sentinels>>
times == <<last_change, next_discovery>>
pubsub == <<context, events>>
external == <<view, disturbances>>
vars == <<config, pc, asked, inventory, times, pubsub, external, db>>

Sentinels == {Locations[i] : i \in DOMAIN Locations}

Role == {"master", "slave"}

\* What is known of a server.  The code's list holds the known ones only.
Status == [role : Role, down : {0, 1}]
Unknown == [role |-> "unknown", down |-> 0]

\* The thread's way through sentinel_loop().
PC == {"none", "top", "masters", "slaves", "events"}

\* "null" is the NULL pointer.  A "silent" connection is being established, or
\* is there but AUTH or PSUBSCRIBE was refused, which does not close it.
Connection == {"null", "silent", "subscribed"}

\* +sdown, +odown, -sdown and -odown; and +switch-master.
DownEvents == [kind : {"down"}, server : Servers, role : Role, down : {0, 1}]
SwitchEvents == [kind : {"switch"}, old : Servers, new : Servers]

-----------------------------------------------------------------------------
(***************************************************************************)
(* The inventory.                                                          *)
(***************************************************************************)

\* store_sentinel_reply(), where down = -1 says nothing of the server's state.
Store(inv, server, role, down) ==
    [inv EXCEPT ![server] =
       [role |-> role, down |-> IF down >= 0 THEN down ELSE inv[server].down]]

\* last_change once the inventory becomes inv: time(NULL), if it changes.
Stamp(inv) == IF inv # inventory THEN 0 ELSE last_change

\* parse_sentinel_discovery() of a reply that lists the servers of v that
\* have a role.
Listed(inv, v, role) ==
    [x \in Servers |->
       IF v[x].role = role THEN Store(inv, x, role, v[x].down)[x] ELSE inv[x]]

\* parse_sentinel_notification(); the old master of a switch becomes a slave
\* in the state it was.
Notified(inv, e) ==
    IF e.kind = "down"
    THEN Store(inv, e.server, e.role, e.down)
    ELSE Store(Store(inv, e.old, "slave", -1), e.new, "master", 0)

-----------------------------------------------------------------------------
(***************************************************************************)
(* VCL events.                                                             *)
(***************************************************************************)

\* handle_vcl_warm_event() and unsafe_sentinel_start().
WarmEvent ==
    /\ vcl = "cold"
    /\ ~sentinels.active
    /\ vcl' = "warm"
    /\ sentinels' = [thread |-> TRUE, active |-> TRUE, discovery |-> TRUE]
    /\ pc' = "top"
    /\ inventory' = [x \in Servers |-> Unknown]
    /\ last_change' = -1
    /\ next_discovery' = 0
    /\ UNCHANGED <<asked, pubsub, external, db>>

\* No Sentinels, locations that cannot be parsed, or no SSL context.
WarmEventWithoutThread ==
    /\ vcl = "cold"
    /\ vcl' = "warm"
    /\ UNCHANGED <<sentinels, pc, asked, inventory, times, pubsub, external, db>>

\* handle_vcl_cold_event() and unsafe_sentinel_stop(), up to pthread_join().
ColdEvent ==
    /\ vcl = "warm"
    /\ vcl' = IF sentinels.active THEN "joining" ELSE "cold"
    /\ sentinels' = [sentinels EXCEPT !.active = FALSE]
    /\ UNCHANGED <<pc, asked, inventory, times, pubsub, external, db>>

\* Mutant of Joinable: the VCL becomes cold while its thread is still there.
NotJoined == TRUE

\* pthread_join() returns once the thread has ended.
Joinable == pc = "none"

Join ==
    /\ vcl = "joining"
    /\ Joinable
    /\ vcl' = "cold"
    /\ sentinels' = [sentinels EXCEPT !.thread = FALSE]
    /\ UNCHANGED <<pc, asked, inventory, times, pubsub, external, db>>

-----------------------------------------------------------------------------
(***************************************************************************)
(* sentinel_loop().                                                        *)
(***************************************************************************)

\* Mutant of DiscoveryTime: the period is never over.
DiscoveryTimeOnce == sentinels.discovery

\* "Is time to execute a new discovery?"
DiscoveryTime == sentinels.discovery \/ (Period > 0 /\ next_discovery = 0)

\* Mutant of Active: the thread does not see that it has to end.
AlwaysActive == TRUE

\* "Terminate the thread loop?"
Active == sentinels.active

\* The check of "active", with the mutex.  The thread either goes on to its
\* Pub/Sub connections, of which it starts again the missing ones (one that
\* cannot even be started is a silent one that ev_loop() finds to have failed),
\* or it ends: free_state() closes them and forgets the inventory inv.
ListenOrEnd(inv) ==
    IF Active
    THEN /\ pc' = "events"
         /\ context' = [s \in Sentinels |-> IF context[s] = "null" THEN "silent" ELSE context[s]]
         /\ inventory' = inv
         /\ UNCHANGED events
    ELSE /\ pc' = "none"
         /\ context' = [s \in Sentinels |-> "null"]
         /\ inventory' = [x \in Servers |-> Unknown]
         /\ events' = [s \in Sentinels |-> << >>]

\* The beginning of an iteration.
Top ==
    /\ pc = "top"
    /\ IF Active /\ DiscoveryTime
       THEN pc' = "masters" /\ UNCHANGED <<inventory, pubsub>>
       ELSE ListenOrEnd(inventory)
    /\ UNCHANGED <<config, asked, times, external, db>>

\* Mutant of MoreSentinels: one Sentinel too many.
OneSentinelMore == asked <= Len(Locations)

MoreSentinels == asked < Len(Locations)

\* On to the next Sentinel; after the last one, back in the mutex.
NextSentinel(inv) ==
    IF MoreSentinels
    THEN /\ pc' = "masters"
         /\ asked' = asked + 1
         /\ inventory' = inv
         /\ UNCHANGED <<next_discovery, pubsub>>
    ELSE /\ next_discovery' = Period
         /\ ListenOrEnd(inv)
         /\ asked' = 1

\* discover_servers(): "SENTINEL masters" is answered.
Masters(s) ==
    /\ pc = "masters"
    /\ Locations[asked] = s
    /\ inventory' = Listed(inventory, view[s], "master")
    /\ last_change' = Stamp(inventory')
    /\ pc' = "slaves"
    /\ UNCHANGED <<config, asked, next_discovery, pubsub, external, db>>

\* "SENTINEL slaves" is answered; by then the Sentinel may have changed its mind.
Slaves(s) ==
    /\ pc = "slaves"
    /\ Locations[asked] = s
    /\ NextSentinel(Listed(inventory, view[s], "slave"))
    /\ last_change' = Stamp(Listed(inventory, view[s], "slave"))
    /\ UNCHANGED <<config, external, db>>

\* No connection, TLS, AUTH, HELLO or answer: what is known is kept.
Unanswered ==
    /\ pc \in {"masters", "slaves"}
    /\ NextSentinel(inventory)
    /\ UNCHANGED <<config, last_change, external, db>>

\* ev_loop(): connectCallback() of a failed connection, or the answers to
\* AUTH, HELLO and PSUBSCRIBE (authorizeCallback(), helloCallback() and
\* subscribeCallback()).
Connected(s) ==
    /\ pc = "events"
    /\ context[s] = "silent"
    /\ \E c \in {"subscribed", "null"} : context' = [context EXCEPT ![s] = c]
    /\ UNCHANGED <<config, pc, asked, inventory, times, events, external, db>>

\* ev_loop(): disconnectCallback().  What had not been read is lost, also what
\* was published after the connection broke, which nobody noticed until now.
Disconnected(s) ==
    /\ pc = "events"
    /\ context[s] = "subscribed"
    /\ disturbances < MaxDisturbances
    /\ disturbances' = disturbances + 1
    /\ context' = [context EXCEPT ![s] = "null"]
    /\ events' = [events EXCEPT ![s] = << >>]
    /\ UNCHANGED <<config, pc, asked, inventory, times, view, db>>

\* ev_loop(): subscribeCallback().
Notification(s) ==
    /\ pc = "events"
    /\ events[s] # << >>
    /\ inventory' = Notified(inventory, Head(events[s]))
    /\ last_change' = Stamp(inventory')
    /\ events' = [events EXCEPT ![s] = Tail(events[s])]
    /\ UNCHANGED <<config, pc, asked, next_discovery, context, external, db>>

\* Mutant of UpdateTime: changes of the current second are left for later.
UpdateTimeStrict == sentinels.discovery \/ last_change > 0

\* "Only update database objects if a proactive discovery has been explicitly
\* requested or if some change was found during this check."
UpdateTime == sentinels.discovery \/ last_change >= 0

\* ev_loop() has returned, with or without having found something to read:
\* unsafe_update_dbs() with both mutexes (SharedPool has what it does to the
\* sickness flags), and usleep() of a second on top of the time that the
\* iteration took.
Update ==
    /\ pc = "events"
    /\ IF UpdateTime
       THEN /\ db' = [x \in Servers |->
                        IF inventory[x] = Unknown THEN db[x] ELSE inventory[x].role]
            /\ sentinels' = [sentinels EXCEPT !.discovery = FALSE]
       ELSE UNCHANGED <<db, sentinels>>
    /\ \E seconds \in 1 .. MaxSeconds :
         next_discovery' = IF next_discovery > seconds THEN next_discovery - seconds ELSE 0
    /\ last_change' = -1
    /\ pc' = "top"
    /\ UNCHANGED <<vcl, asked, inventory, pubsub, external>>

-----------------------------------------------------------------------------
(***************************************************************************)
(* The Sentinels, the network and the workers.                             *)
(***************************************************************************)

\* What a Sentinel publishes reaches the connections that are subscribed.
Publish(s, e) ==
    IF context[s] = "subscribed"
    THEN /\ Len(events[s]) < MaxEvents
         /\ events' = [events EXCEPT ![s] = Append(events[s], e)]
    ELSE UNCHANGED events

\* A Sentinel finds out that a server is down, or up again.
SeenDown(s, x) ==
    /\ disturbances < MaxDisturbances
    /\ disturbances' = disturbances + 1
    /\ view' = [view EXCEPT ![s][x].down = 1 - view[s][x].down]
    /\ Publish(s, [kind |-> "down", server |-> x, role |-> view[s][x].role,
                   down |-> 1 - view[s][x].down])
    /\ UNCHANGED <<config, pc, asked, inventory, times, context, db>>

\* A Sentinel learns of a failover.  It may start afresh with the old master.
Failover(s, old, new) ==
    /\ disturbances < MaxDisturbances
    /\ view[s][old].role = "master"
    /\ view[s][new].role = "slave"
    /\ disturbances' = disturbances + 1
    /\ \E d \in {0, view[s][old].down} :
         view' = [view EXCEPT ![s][old] = [role |-> "slave", down |-> d],
                              ![s][new] = [role |-> "master", down |-> 0]]
    /\ Publish(s, [kind |-> "switch", old |-> old, new |-> new])
    /\ UNCHANGED <<config, pc, asked, inventory, times, context, db>>

\* .add_server() of a registered server: unsafe_add_redis_server() gives it the
\* role the caller says, or the one the server itself says ("theirs").
AddServer(x) ==
    /\ disturbances < MaxDisturbances
    /\ disturbances' = disturbances + 1
    /\ db' = [db EXCEPT ![x] = "theirs"]
    /\ UNCHANGED <<config, pc, asked, inventory, times, pubsub, view>>

-----------------------------------------------------------------------------
\* At first all Sentinels know the same master, and the roles of the servers
\* of the database could not be discovered.
Init ==
    /\ vcl = "cold"
    /\ sentinels = [thread |-> FALSE, active |-> FALSE, discovery |-> FALSE]
    /\ pc = "none"
    /\ asked = 1
    /\ inventory = [x \in Servers |-> Unknown]
    /\ last_change = -1
    /\ next_discovery = 0
    /\ context = [s \in Sentinels |-> "null"]
    /\ events = [s \in Sentinels |-> << >>]
    /\ view = [s \in Sentinels |-> [x \in Servers |->
                 [role |-> IF x = FirstMaster THEN "master" ELSE "slave", down |-> 0]]]
    /\ disturbances = 0
    /\ db = [x \in Servers |-> "TBD"]

Thread ==
    \/ Top
    \/ \E s \in Sentinels : Masters(s) \/ Slaves(s)
    \/ Unanswered
    \/ \E s \in Sentinels : Connected(s) \/ Disconnected(s) \/ Notification(s)
    \/ Update

Environment ==
    \/ \E s \in Sentinels, x \in Servers : SeenDown(s, x)
    \/ \E s \in Sentinels, x, y \in Servers : Failover(s, x, y)
    \/ \E x \in Servers : AddServer(x)

Next == WarmEvent \/ WarmEventWithoutThread \/ ColdEvent \/ Join \/ Thread \/ Environment

Spec == Init /\ [][Next]_vars

\* The thread runs, the CLI thread returns from pthread_join() once it can, and
\* no Sentinel is unreachable in every discovery: each one that keeps being
\* asked answers again and again.
FairSpec ==
    /\ Spec
    /\ WF_vars(Thread)
    /\ WF_vars(Join)
    /\ \A s \in Sentinels : SF_vars(Masters(s)) /\ SF_vars(Slaves(s))

-----------------------------------------------------------------------------
(***************************************************************************)
(* Properties.                                                             *)
(***************************************************************************)

\* Every variable has its type.
TypeOK ==
    /\ vcl \in {"cold", "warm", "joining"}
    /\ sentinels \in [thread : BOOLEAN, active : BOOLEAN, discovery : BOOLEAN]
    /\ pc \in PC
    /\ asked \in 1 .. Len(Locations)
    /\ inventory \in [Servers -> Status \union {Unknown}]
    /\ last_change \in {-1, 0}
    /\ next_discovery \in 0 .. Period
    /\ context \in [Sentinels -> Connection]
    /\ events \in [Sentinels -> Seq(DownEvents \union SwitchEvents)]
    /\ view \in [Sentinels -> [Servers -> Status]]
    /\ disturbances \in 0 .. MaxDisturbances
    /\ db \in [Servers -> Role \union {"TBD", "theirs"}]

\* The thread never outlives the cold event, after which nothing protects the
\* configuration it points to ("this guarantees the Sentinel thread won't loose
\* the config reference"), and a thread that exists is the one the VCL knows: a
\* warm event never finds a thread, whatever the time the last one took to end.
ThreadOwned ==
    /\ sentinels.thread <=> pc # "none" \/ vcl = "joining"
    /\ sentinels.active => sentinels.thread /\ vcl = "warm"
    /\ vcl = "cold" => pc = "none"

\* A change that is known but has not been copied to the databases.
Pending ==
    \/ sentinels.discovery
    \/ pc # "top" /\ last_change >= 0

\* What the thread knows of a server is what the database says of it, except for
\* what will be copied in this same iteration and for roles that .add_server()
\* changed since the last copy: no change found in a discovery or in a
\* notification is forgotten, although only the second it was found in is
\* recorded, and no role the database did not know (TBD) is left that way.
DatabaseFollows ==
    \A x \in Servers : db[x] \in {inventory[x].role, "theirs"} \/ inventory[x] = Unknown \/ Pending

\* The thread knows of x what all Sentinels know, and the database its role,
\* unless .add_server() gave it one after the last copy.
Agreement(x) ==
    \A s \in Sentinels :
        inventory[x] = view[s][x] /\ db[x] \in {view[s][x].role, "theirs"}

Unanimous == \A s, t \in Sentinels : view[s] = view[t]

\* In spite of lost, late and contradictory notifications, and of Sentinels that
\* change their minds in the middle of a discovery, once they agree the
\* inventory becomes what they say, and so do the roles of the database, as long
\* as the VCL is warm and nobody has registered a server again since then.
Converges ==
    <>[](vcl = "warm" /\ sentinels.active /\ Unanimous)
        => <>[](\A x \in Servers : Agreement(x))

\* A cold event ends: the thread notices that it has to stop wherever it is.
ColdEventEnds == vcl = "joining" ~> vcl = "cold"
=============================================================================
