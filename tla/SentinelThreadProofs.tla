------------------------- MODULE SentinelThreadProofs -------------------------
(***************************************************************************)
(* SentinelThread: types, the life of the thread, and that no change that  *)
(* it finds is forgotten, for any servers and Sentinels, any period and    *)
(* any number of failures.                                                 *)
(***************************************************************************)
EXTENDS SentinelThread, TLAPS

\* What a Sentinel publishes.
Event == DownEvents \union SwitchEvents

\* A VCL that is warm has a thread if and only if it is active, and one that
\* waits for a thread has made it inactive: a thread only ends because of a cold
\* event.
ThreadStates ==
    /\ vcl = "warm" => sentinels.thread = sentinels.active
    /\ vcl = "joining" => ~sentinels.active

\* The inductive invariant.
ThreadInv == TypeOK /\ ThreadOwned /\ ThreadStates /\ DatabaseFollows

-----------------------------------------------------------------------------
(***************************************************************************)
(* The inventory.                                                          *)
(***************************************************************************)

\* What store_sentinel_reply() leaves is an inventory, ...
LEMMA StoreType ==
    ASSUME NEW inv \in [Servers -> Status \union {Unknown}],
           NEW x \in Servers, NEW role \in Role, NEW down \in {-1, 0, 1}
    PROVE  Store(inv, x, role, down) \in [Servers -> Status \union {Unknown}]
  <1>1. inv[x].down \in {0, 1}
    BY DEF Status, Unknown
  <1>2. [role |-> role, down |-> IF down >= 0 THEN down ELSE inv[x].down] \in Status
    BY <1>1 DEF Status
  <1> QED
    BY <1>2 DEF Store

\* ... so is what the lists of masters or slaves of a Sentinel leave, ...
LEMMA ListedType ==
    ASSUME NEW inv \in [Servers -> Status \union {Unknown}],
           NEW v \in [Servers -> Status], NEW role \in Role
    PROVE  Listed(inv, v, role) \in [Servers -> Status \union {Unknown}]
  <1>1. ASSUME NEW x \in Servers
        PROVE  Store(inv, x, role, v[x].down)[x] \in Status \union {Unknown}
    <2>1. v[x].down \in {-1, 0, 1}
      BY DEF Status
    <2> QED
      BY <2>1, StoreType
  <1> QED
    BY <1>1 DEF Listed

\* ... and what a notification leaves.
LEMMA NotifiedType ==
    ASSUME NEW inv \in [Servers -> Status \union {Unknown}], NEW e \in Event
    PROVE  Notified(inv, e) \in [Servers -> Status \union {Unknown}]
  <1>1. CASE e \in DownEvents
    <2>1. e.kind = "down" /\ e.server \in Servers /\ e.role \in Role /\ e.down \in {-1, 0, 1}
      BY <1>1 DEF DownEvents
    <2> QED
      BY <2>1, StoreType DEF Notified
  <1>2. CASE e \in SwitchEvents
    <2>1. e.kind = "switch" /\ e.old \in Servers /\ e.new \in Servers
      BY <1>2 DEF SwitchEvents
    <2>2. "slave" \in Role /\ "master" \in Role
      BY DEF Role
    <2>3. Store(inv, e.old, "slave", -1) \in [Servers -> Status \union {Unknown}]
      BY <2>1, <2>2, StoreType
    <2>4. Store(Store(inv, e.old, "slave", -1), e.new, "master", 0)
            \in [Servers -> Status \union {Unknown}]
      BY <2>1, <2>2, <2>3, StoreType
    <2> QED
      BY <2>1, <2>4 DEF Notified
  <1> QED
    BY <1>1, <1>2 DEF Event

\* Where the thread may be after the check of "active", and what it knows then.
LEMMA ListenStep ==
    ASSUME TypeOK, NEW inv \in [Servers -> Status \union {Unknown}], ListenOrEnd(inv)
    PROVE  /\ pc' = IF sentinels.active THEN "events" ELSE "none"
           /\ inventory' \in {inv, [x \in Servers |-> Unknown]}
           /\ inventory' \in [Servers -> Status \union {Unknown}]
           /\ context' \in [Sentinels -> Connection]
           /\ events' \in [Sentinels -> Seq(Event)]
  <1>1. CASE sentinels.active
    BY <1>1 DEF ListenOrEnd, Active, TypeOK, Connection, Event
  <1>2. CASE ~sentinels.active
    <2>1. << >> \in Seq(Event)
      OBVIOUS
    <2> QED
      BY <1>2, <2>1 DEF ListenOrEnd, Active, Connection
  <1> QED
    BY <1>1, <1>2

\* The same of the next Sentinel.
LEMMA NextSentinelStep ==
    ASSUME TypeOK, NEW inv \in [Servers -> Status \union {Unknown}], NextSentinel(inv)
    PROVE  /\ pc' \in {"masters"} \union {IF sentinels.active THEN "events" ELSE "none"}
           /\ inventory' \in {inv, [x \in Servers |-> Unknown]}
           /\ inventory' \in [Servers -> Status \union {Unknown}]
           /\ context' \in [Sentinels -> Connection]
           /\ events' \in [Sentinels -> Seq(Event)]
           /\ asked' \in 1 .. Len(Locations)
           /\ next_discovery' \in 0 .. Period
  <1>1. CASE MoreSentinels
    BY <1>1, LocationsAssumption
       DEF NextSentinel, MoreSentinels, TypeOK, pubsub, Event
  <1>2. CASE ~MoreSentinels
    BY <1>2, ListenStep, LocationsAssumption, NumbersAssumption DEF NextSentinel
  <1> QED
    BY <1>1, <1>2

-----------------------------------------------------------------------------
(***************************************************************************)
(* Types.                                                                  *)
(***************************************************************************)

\* VCL events.
LEMMA EventTypes ==
    ASSUME TypeOK, WarmEvent \/ WarmEventWithoutThread \/ ColdEvent \/ Join
    PROVE  TypeOK'
  <1>1. CASE WarmEvent
    BY <1>1, NumbersAssumption DEF WarmEvent, TypeOK, PC, pubsub, external
  <1>2. CASE WarmEventWithoutThread
    BY <1>2 DEF WarmEventWithoutThread, TypeOK, times, pubsub, external
  <1>3. CASE ColdEvent
    BY <1>3 DEF ColdEvent, TypeOK, times, pubsub, external
  <1>4. CASE Join
    BY <1>4 DEF Join, TypeOK, times, pubsub, external
  <1> QED
    BY <1>1, <1>2, <1>3, <1>4

\* Steps of the thread.
LEMMA ThreadTypes ==
    ASSUME TypeOK, Thread
    PROVE  TypeOK'
  <1> USE DEF PC
  <1>0. "master" \in Role /\ "slave" \in Role
    BY DEF Role
  <1>1. CASE Top
    <2>1. CASE Active /\ DiscoveryTime
      BY <1>1, <2>1 DEF Top, TypeOK, config, times, pubsub, external
    <2>2. CASE ~(Active /\ DiscoveryTime)
      <3>1. ListenOrEnd(inventory) /\ inventory \in [Servers -> Status \union {Unknown}]
        BY <1>1, <2>2 DEF Top, TypeOK
      <3> QED
        BY <1>1, <3>1, ListenStep DEF Top, TypeOK, config, times, external, Event
    <2> QED
      BY <2>1, <2>2
  <1>2. ASSUME NEW s \in Sentinels, Masters(s)
        PROVE  TypeOK'
    <2>1. inventory' \in [Servers -> Status \union {Unknown}]
      BY <1>0, <1>2, ListedType DEF Masters, TypeOK
    <2> QED
      BY <1>2, <2>1 DEF Masters, Stamp, TypeOK, config, pubsub, external
  <1>3. ASSUME NEW s \in Sentinels, Slaves(s)
        PROVE  TypeOK'
    <2>1. Listed(inventory, view[s], "slave") \in [Servers -> Status \union {Unknown}]
      BY <1>0, ListedType DEF TypeOK
    <2> QED
      BY <1>3, <2>1, NextSentinelStep DEF Slaves, Stamp, TypeOK, config, external, Event
  <1>4. CASE Unanswered
    <2>1. NextSentinel(inventory) /\ inventory \in [Servers -> Status \union {Unknown}]
      BY <1>4 DEF Unanswered, TypeOK
    <2> QED
      BY <1>4, <2>1, NextSentinelStep DEF Unanswered, TypeOK, config, external, Event
  <1>5. ASSUME NEW s \in Sentinels, Connected(s)
        PROVE  TypeOK'
    BY <1>5 DEF Connected, TypeOK, Connection, config, times, external
  <1>6. ASSUME NEW s \in Sentinels, Disconnected(s)
        PROVE  TypeOK'
    <2>1. << >> \in Seq(Event)
      OBVIOUS
    <2>2. events' \in [Sentinels -> Seq(Event)]
      BY <1>6, <2>1 DEF Disconnected, TypeOK, Event
    <2> QED
      BY <1>6, <2>2, NumbersAssumption
         DEF Disconnected, TypeOK, Connection, config, times, Event
  <1>7. ASSUME NEW s \in Sentinels, Notification(s)
        PROVE  TypeOK'
    <2>1. events[s] \in Seq(Event) /\ events[s] # << >>
      BY <1>7 DEF Notification, TypeOK, Event
    <2>2. Head(events[s]) \in Event /\ Tail(events[s]) \in Seq(Event)
      BY <2>1
    <2>3. inventory' \in [Servers -> Status \union {Unknown}]
      BY <1>7, <2>2, NotifiedType DEF Notification, TypeOK
    <2>4. events' \in [Sentinels -> Seq(Event)]
      BY <1>7, <2>2 DEF Notification, TypeOK, Event
    <2> QED
      BY <1>7, <2>3, <2>4 DEF Notification, Stamp, TypeOK, config, external, Event
  <1>8. CASE Update
    <2>1. db' \in [Servers -> Role \union {"TBD", "theirs"}]
      <3>1. ASSUME NEW x \in Servers, inventory[x] # Unknown
            PROVE  inventory[x].role \in Role
        BY <3>1 DEF TypeOK, Status
      <3> QED
        BY <1>8, <3>1 DEF Update, TypeOK
    <2>2. sentinels' \in [thread : BOOLEAN, active : BOOLEAN, discovery : BOOLEAN]
      BY <1>8 DEF Update, TypeOK
    <2>3. next_discovery' \in 0 .. Period
      BY <1>8, NumbersAssumption DEF Update, TypeOK
    <2> QED
      BY <1>8, <2>1, <2>2, <2>3 DEF Update, TypeOK, pubsub, external
  <1> QED
    BY <1>1, <1>2, <1>3, <1>4, <1>5, <1>6, <1>7, <1>8 DEF Thread

\* What is published is an event.
LEMMA PublishType ==
    ASSUME TypeOK, NEW s \in Sentinels, NEW e \in Event, Publish(s, e)
    PROVE  events' \in [Sentinels -> Seq(Event)]
  <1>1. events[s] \in Seq(Event)
    BY DEF TypeOK, Event
  <1>2. Append(events[s], e) \in Seq(Event)
    BY <1>1
  <1> QED
    BY <1>2 DEF Publish, TypeOK, Event

\* Servers, Sentinels and workers.
LEMMA EnvironmentTypes ==
    ASSUME TypeOK, Environment
    PROVE  TypeOK'
  <1>1. ASSUME NEW s \in Sentinels, NEW x \in Servers, SeenDown(s, x)
        PROVE  TypeOK'
    <2> DEFINE e == [kind |-> "down", server |-> x, role |-> view[s][x].role,
                     down |-> 1 - view[s][x].down]
    <2>1. view[s] \in [Servers -> Status] /\ view[s][x] \in Status
      BY DEF TypeOK
    <2>2. view[s][x].role \in Role /\ 1 - view[s][x].down \in {0, 1}
      BY <2>1 DEF Status
    <2>3. e \in Event
      BY <2>2 DEF Event, DownEvents
    <2>4. events' \in [Sentinels -> Seq(Event)]
      BY <1>1, <2>3, PublishType DEF SeenDown
    <2>5. [view[s][x] EXCEPT !.down = 1 - view[s][x].down] \in Status
      BY <2>1, <2>2 DEF Status
    <2>6. [view[s] EXCEPT ![x] = [view[s][x] EXCEPT !.down = 1 - view[s][x].down]]
            \in [Servers -> Status]
      BY <2>1, <2>5
    <2>7. view' = [view EXCEPT ![s] =
                     [view[s] EXCEPT ![x] = [view[s][x] EXCEPT !.down = 1 - view[s][x].down]]]
      BY <1>1 DEF SeenDown
    <2>8. view' \in [Sentinels -> [Servers -> Status]]
      BY <2>6, <2>7 DEF TypeOK
    <2> QED
      BY <1>1, <2>4, <2>8, NumbersAssumption DEF SeenDown, TypeOK, config, times, Event
  <1>2. ASSUME NEW s \in Sentinels, NEW old \in Servers, NEW new \in Servers,
               Failover(s, old, new)
        PROVE  TypeOK'
    <2>1. [kind |-> "switch", old |-> old, new |-> new] \in Event
      BY DEF Event, SwitchEvents
    <2>2. events' \in [Sentinels -> Seq(Event)]
      BY <1>2, <2>1, PublishType DEF Failover
    <2>3. view[s] \in [Servers -> Status] /\ view[s][old].down \in {0, 1}
      BY DEF TypeOK, Status
    <2>4. PICK d \in {0, view[s][old].down} :
            view' = [view EXCEPT ![s][old] = [role |-> "slave", down |-> d],
                                 ![s][new] = [role |-> "master", down |-> 0]]
      BY <1>2 DEF Failover
    <2>5. /\ [role |-> "slave", down |-> d] \in Status
          /\ [role |-> "master", down |-> 0] \in Status
      BY <2>3 DEF Status, Role
    <2>6. view' \in [Sentinels -> [Servers -> Status]]
      BY <2>3, <2>4, <2>5 DEF TypeOK
    <2>7. /\ UNCHANGED <<vcl, sentinels, pc, asked, inventory, last_change,
                         next_discovery, context, db>>
          /\ disturbances < MaxDisturbances /\ disturbances' = disturbances + 1
      BY <1>2 DEF Failover, config, times
    <2> QED
      BY <2>2, <2>6, <2>7, NumbersAssumption DEF TypeOK, Event
  <1>3. ASSUME NEW x \in Servers, AddServer(x)
        PROVE  TypeOK'
    BY <1>3, NumbersAssumption DEF AddServer, TypeOK, config, times, pubsub
  <1> QED
    BY <1>1, <1>2, <1>3 DEF Environment

-----------------------------------------------------------------------------
(***************************************************************************)
(* The life of the thread.                                                 *)
(***************************************************************************)

\* A step keeps the thread owned by the VCL state that has to join it.
LEMMA OwnedStep ==
    ASSUME ThreadInv, Next
    PROVE  ThreadOwned' /\ ThreadStates'
  <1> USE DEF ThreadInv, ThreadOwned, ThreadStates
  <1>0. /\ sentinels \in [thread : BOOLEAN, active : BOOLEAN, discovery : BOOLEAN]
        /\ vcl \in {"cold", "warm", "joining"}
        /\ inventory \in [Servers -> Status \union {Unknown}]
    BY DEF TypeOK
  <1>1. CASE WarmEvent
    BY <1>1 DEF WarmEvent
  <1>2. CASE WarmEventWithoutThread
    BY <1>0, <1>2 DEF WarmEventWithoutThread
  <1>3. CASE ColdEvent
    BY <1>0, <1>3 DEF ColdEvent
  <1>4. CASE Join
    BY <1>0, <1>4 DEF Join, Joinable
  <1>5. CASE Thread /\ sentinels' = sentinels /\ vcl' = vcl
    <2>1. pc # "none" => pc' # "none" \/ ~sentinels.active
      <3>1. CASE Top
        BY <1>0, <3>1, ListenStep DEF Top
      <3>2. ASSUME NEW s \in Sentinels, Slaves(s)
            PROVE  pc' # "none" \/ ~sentinels.active
        <4>1. Listed(inventory, view[s], "slave") \in [Servers -> Status \union {Unknown}]
          BY ListedType DEF TypeOK, Role
        <4> QED
          BY <3>2, <4>1, NextSentinelStep DEF Slaves
      <3>3. CASE Unanswered
        BY <1>0, <3>3, NextSentinelStep DEF Unanswered
      <3>4. CASE \E s \in Sentinels :
                   Masters(s) \/ Connected(s) \/ Disconnected(s) \/ Notification(s)
        BY <3>4 DEF Masters, Connected, Disconnected, Notification
      <3>5. CASE Update
        BY <3>5 DEF Update
      <3> QED
        BY <1>5, <3>1, <3>2, <3>3, <3>4, <3>5 DEF Thread
    <2>2. pc # "none"
      BY <1>5 DEF Thread, Top, Masters, Slaves, Unanswered, Connected, Disconnected,
                  Notification, Update
    <2> QED
      BY <1>0, <1>5, <2>1, <2>2
  <1>6. CASE Update
    <2>1. /\ vcl' = vcl /\ pc # "none" /\ pc' = "top"
          /\ sentinels'.thread = sentinels.thread /\ sentinels'.active = sentinels.active
      BY <1>0, <1>6 DEF Update
    <2> QED
      BY <1>0, <2>1
  <1>7. CASE Environment
    BY <1>7 DEF Environment, SeenDown, Failover, AddServer, config
  <1>8. Thread => Update \/ (sentinels' = sentinels /\ vcl' = vcl)
    BY DEF Thread, Top, Masters, Slaves, Unanswered, Connected, Disconnected, Notification,
           config
  <1> QED
    BY <1>1, <1>2, <1>3, <1>4, <1>5, <1>6, <1>7, <1>8 DEF Next

-----------------------------------------------------------------------------
(***************************************************************************)
(* Changes are not forgotten.                                              *)
(***************************************************************************)

\* As long as the database stays, the inventory may only change if the change
\* is stamped, or if everything is forgotten.
LEMMA StampedFollows ==
    ASSUME ThreadInv, NEW inv, inv # inventory => last_change' = 0,
           inventory' \in {inv, [x \in Servers |-> Unknown]},
           inv = inventory => last_change' = last_change,
           pc' # "top", sentinels' = sentinels, db' = db
    PROVE  DatabaseFollows'
  <1>1. CASE inv # inventory
    BY <1>1 DEF DatabaseFollows, Pending
  <1>2. CASE inv = inventory /\ inventory' = inventory
    BY <1>2 DEF ThreadInv, DatabaseFollows, Pending
  <1>3. CASE inventory' = [x \in Servers |-> Unknown]
    BY <1>3 DEF DatabaseFollows
  <1> QED
    BY <1>1, <1>2, <1>3

\* A step that changes the inventory leaves a change pending.
LEMMA FollowsStep ==
    ASSUME ThreadInv, Next
    PROVE  DatabaseFollows'
  <1>0. inventory \in [Servers -> Status \union {Unknown}] /\ last_change \in {-1, 0}
    BY DEF ThreadInv, TypeOK
  <1>1. CASE WarmEvent
    BY <1>1 DEF WarmEvent, DatabaseFollows
  <1>2. CASE WarmEventWithoutThread \/ ColdEvent \/ Join
    <2>1. UNCHANGED <<db, inventory, pc, last_change>> /\ sentinels'.discovery = sentinels.discovery
      BY <1>2 DEF WarmEventWithoutThread, ColdEvent, Join, ThreadInv, TypeOK, times
    <2> QED
      BY <2>1 DEF ThreadInv, DatabaseFollows, Pending
  <1>3. CASE Top
    <2>1. /\ UNCHANGED <<sentinels, db, last_change>>
          /\ pc' # "top" /\ inventory' \in {inventory, [x \in Servers |-> Unknown]}
      BY <1>0, <1>3, ListenStep DEF Top, config, times, ThreadInv
    <2> QED
      BY <2>1, StampedFollows
  <1>4. ASSUME NEW s \in Sentinels, Masters(s)
        PROVE  DatabaseFollows'
    BY <1>4, StampedFollows DEF Masters, Stamp, config
  <1>5. ASSUME NEW s \in Sentinels, Slaves(s)
        PROVE  DatabaseFollows'
    <2> DEFINE inv == Listed(inventory, view[s], "slave")
    <2>1. inv \in [Servers -> Status \union {Unknown}]
      BY ListedType DEF ThreadInv, TypeOK, Role
    <2>2. NextSentinel(inv) /\ last_change' = Stamp(inv) /\ sentinels' = sentinels /\ db' = db
      BY <1>5 DEF Slaves, config
    <2> HIDE DEF inv
    <2>3. pc' # "top" /\ inventory' \in {inv, [x \in Servers |-> Unknown]}
      BY <2>1, <2>2, NextSentinelStep DEF ThreadInv
    <2> QED
      BY <2>2, <2>3, StampedFollows DEF Stamp
  <1>6. CASE Unanswered
    <2>1. /\ UNCHANGED <<sentinels, db, last_change>>
          /\ pc' # "top" /\ inventory' \in {inventory, [x \in Servers |-> Unknown]}
      BY <1>0, <1>6, NextSentinelStep DEF Unanswered, config, ThreadInv
    <2> QED
      BY <2>1, StampedFollows
  <1>7. CASE \E s \in Sentinels : Connected(s) \/ Disconnected(s)
    <2>1. UNCHANGED <<sentinels, db, inventory, pc, last_change>>
      BY <1>7 DEF Connected, Disconnected, config, times
    <2> QED
      BY <2>1 DEF ThreadInv, DatabaseFollows, Pending
  <1>8. ASSUME NEW s \in Sentinels, Notification(s)
        PROVE  DatabaseFollows'
    BY <1>8, StampedFollows DEF Notification, Stamp, config
  <1>9. CASE Update
    <2>1. CASE UpdateTime
      BY <1>0, <1>9, <2>1 DEF Update, DatabaseFollows
    <2>2. CASE ~UpdateTime
      <3>1. ~Pending
        BY <2>2 DEF UpdateTime, Pending
      <3> QED
        BY <1>9, <2>2, <3>1 DEF Update, ThreadInv, DatabaseFollows
    <2> QED
      BY <2>1, <2>2
  <1>10. CASE Environment
    <2>1. /\ UNCHANGED <<sentinels, inventory, pc, last_change>>
          /\ \/ db' = db
             \/ \E x \in Servers : db' = [db EXCEPT ![x] = "theirs"]
      BY <1>10 DEF Environment, SeenDown, Failover, AddServer, config, times
    <2>2. db \in [Servers -> Role \union {"TBD", "theirs"}]
      BY DEF ThreadInv, TypeOK
    <2> QED
      BY <2>1, <2>2 DEF ThreadInv, DatabaseFollows, Pending
  <1> QED
    BY <1>1, <1>2, <1>3, <1>4, <1>5, <1>6, <1>7, <1>8, <1>9, <1>10 DEF Next, Thread

-----------------------------------------------------------------------------
\* Types, ownership and pending changes hold together in every reachable state.
THEOREM Invariance == Spec => []ThreadInv
  <1>1. Init => ThreadInv
    <2> SUFFICES ASSUME Init PROVE ThreadInv
      OBVIOUS
    <2>1. TypeOK
      <3>1. \A x \in Servers :
              [role |-> IF x = FirstMaster THEN "master" ELSE "slave", down |-> 0] \in Status
        BY DEF Status, Role
      <3>2. << >> \in Seq(DownEvents \union SwitchEvents)
        OBVIOUS
      <3> QED
        BY <3>1, <3>2, LocationsAssumption, NumbersAssumption DEF Init, TypeOK, PC, Connection
    <2>2. ThreadOwned /\ ThreadStates /\ DatabaseFollows
      BY DEF Init, ThreadOwned, ThreadStates, DatabaseFollows
    <2> QED
      BY <2>1, <2>2 DEF ThreadInv
  <1>2. ThreadInv /\ [Next]_vars => ThreadInv'
    <2> SUFFICES ASSUME ThreadInv, [Next]_vars PROVE ThreadInv'
      OBVIOUS
    <2>1. CASE Next
      <3>1. TypeOK'
        BY <2>1, EventTypes, ThreadTypes, EnvironmentTypes DEF ThreadInv, Next
      <3> QED
        BY <2>1, <3>1, OwnedStep, FollowsStep DEF ThreadInv
    <2>2. CASE UNCHANGED vars
      BY <2>2 DEF vars, config, times, pubsub, external, ThreadInv, TypeOK, ThreadOwned,
                  ThreadStates, DatabaseFollows, Pending
    <2> QED
      BY <2>1, <2>2
  <1> QED
    BY <1>1, <1>2, PTL DEF Spec

\* The variables keep their types, whatever Sentinels answer and publish.
THEOREM TypeCorrect == Spec => []TypeOK
  <1>1. ThreadInv => TypeOK
    BY DEF ThreadInv
  <1> QED
    BY <1>1, Invariance, PTL

\* No thread outlives the cold event of its VCL, and none is started twice.
THEOREM ThreadIsOwned == Spec => []ThreadOwned
  <1>1. ThreadInv => ThreadOwned
    BY DEF ThreadInv
  <1> QED
    BY <1>1, Invariance, PTL

\* No change of the inventory is forgotten before the databases have it.
THEOREM ChangesReachDatabases == Spec => []DatabaseFollows
  <1>1. ThreadInv => DatabaseFollows
    BY DEF ThreadInv
  <1> QED
    BY <1>1, Invariance, PTL
=============================================================================
