------------------------------ MODULE SharedPool ------------------------------
(***************************************************************************)
(* The pool of connections that all worker threads share for one Redis     *)
(* server of a database created with shared_connections = true:            *)
(* lock_shared_redis_context(), unlock_shared_redis_context() and what     *)
(* they call (core.c), struct redis_server (core.h).                       *)
(*                                                                         *)
(* Everything the functions do between Lck_Lock() and Lck_Unlock() of      *)
(* db->mutex is one step; Lck_CondWait() is the only place where a         *)
(* critical section is split.  The wall clock, the VCL events, the role    *)
(* probes and the Sentinel thread act between those steps.                 *)
(***************************************************************************)
EXTENDS Integers, FiniteSets, SequencesExt

CONSTANTS
    Workers,         \* worker threads of the cache
    Contexts,        \* heap addresses of redis_context_t objects
    NoContext,       \* the NULL pointer
    MaxConnections,  \* db->max_connections
    ConnectionTTL,   \* db->connection_ttl (0: no TTL)
    SicknessTTL,     \* db->sickness_ttl (0: no sickness flags)
    Sentinel,        \* is a Sentinel thread updating this database?
    StatsModulus,    \* width of the statistics counters (uint64_t in the code)
    MaxTime,         \* bound: last value of the clock
    MaxVersion       \* bound: last value of vmod_state.version

ASSUME WorkersAssumption == IsFiniteSet(Workers)

ASSUME ContextsAssumption ==
    /\ IsFiniteSet(Contexts)
    /\ NoContext \notin Contexts
    /\ Cardinality(Contexts) >= MaxConnections

ASSUME NumbersAssumption ==
    /\ MaxConnections \in Nat
    /\ ConnectionTTL \in Nat
    /\ SicknessTTL \in Nat
    /\ StatsModulus \in Nat \ {0}
    /\ MaxTime \in Nat \ {0}
    /\ MaxVersion \in Nat

ASSUME SentinelAssumption == Sentinel \in BOOLEAN

VARIABLES
    pc,             \* where each worker is
    now,            \* its local variable "now", captured before db->mutex
    held,           \* the context it got from lock_shared_redis_context()
    ncontexts,      \* server->pool.ncontexts
    free_contexts,  \* server->pool.free_contexts
    busy_contexts,  \* server->pool.busy_contexts, read as a set
    context,        \* the redis_context_t at each address
    sickness,       \* server->sickness
    version,        \* vmod_state.version
    stats,          \* db->stats.connections, and what a cold event closed
    clock           \* time(NULL)

poolVars == <<ncontexts, free_contexts, busy_contexts, context>>
vars == <<pc, now, held, poolVars, sickness, version, stats, clock>>

-----------------------------------------------------------------------------
(***************************************************************************)
(* Values.                                                                 *)
(***************************************************************************)

\* "locking": called, time(NULL) already read, mutex not yet obtained;
\* "waiting": blocked in Lck_CondWait(); "woken": out of the wait set and
\* queued for the mutex; "busy": executing a command on the held context.
PC == {"idle", "locking", "waiting", "woken", "busy"}

\* The sickness expiration the Sentinel thread stores (UINT_MAX).
SickForever == MaxTime + SicknessTTL + 1

Times == 0 .. SickForever

\* rcontext->err, version and tst; the socket is sampled by poll() instead.
ContextRecord == [version : 0 .. MaxVersion, tst : Times, err : BOOLEAN]

FreedContext == [version |-> 0, tst |-> 0, err |-> FALSE]

Waiting == {w \in Workers : pc[w] = "waiting"}

\* Workers that left the wait set and have not run yet.
Woken == {w \in Workers : pc[w] = "woken"}

Count(counter, n) == (counter + n) % StatsModulus

\* Mutant of Dropped: the connections a thread drops are not counted.
DroppedSilently(n) == stats

\* is_valid_redis_context() counts each context it rejects, under one of
\* five reasons; here their sum.
Dropped(n) ==
    [total |-> stats.total, dropped |-> Count(stats.dropped, n), closed |-> stats.closed]

-----------------------------------------------------------------------------
(***************************************************************************)
(* is_valid_redis_context(), with "hup" the contexts for which poll()      *)
(* would report a hang up.                                                 *)
(***************************************************************************)

IsValid(c, t, hup) ==
    /\ ~context[c].err
    /\ context[c].version = version
    /\ ConnectionTTL > 0 => t - context[c].tst <= ConnectionTTL
    /\ SicknessTTL > 0 => context[c].tst > sickness.tst
    /\ c \notin hup

\* The while loop over the free list stops at the first valid context, and
\* drops the k contexts before it.
FirstValid(k, t, hup) ==
    /\ k < Len(free_contexts)
    /\ IsValid(free_contexts[k + 1], t, hup)
    /\ \A i \in 1 .. k : ~IsValid(free_contexts[i], t, hup)

\* ... or drops them all.
NoneValid(t, hup) ==
    \A i \in DOMAIN free_contexts : ~IsValid(free_contexts[i], t, hup)

\* pthread_cond_signal(): one of the workers waiting in "at" is woken, if any.
Signal(at) ==
    LET waiting == {w \in Workers : at[w] = "waiting"}
    IN  IF waiting = {}
        THEN pc' = at
        ELSE \E w \in waiting : pc' = [at EXCEPT ![w] = "woken"]

\* Mutant of the two wakeups below: the signal is forgotten.
NoSignal(at) == pc' = at

\* The signal of unlock_shared_redis_context().
WakeOnRelease(at) == Signal(at)

\* The signal of lock_shared_redis_context() when it could not connect: the
\* room it found, or made by dropping stale contexts, is left to others.
WakeOnFailure(at) == Signal(at)

\* The contexts of "freed" are given back to the heap.
Free(freed) == [c \in Contexts |-> IF c \in freed THEN FreedContext ELSE context[c]]

-----------------------------------------------------------------------------
(***************************************************************************)
(* new_rcontext(): its effect on the sickness flag of the server, for a    *)
(* caller that read the clock at t.                                        *)
(***************************************************************************)

ConnectOK(t) ==
    sickness' = IF sickness.exp > t
                THEN [tst |-> sickness.tst, exp |-> t]
                ELSE sickness

ConnectFailed(t) ==
    sickness' = IF SicknessTTL > 0
                THEN [tst |-> t, exp |-> t + SicknessTTL]
                ELSE sickness

-----------------------------------------------------------------------------
(***************************************************************************)
(* lock_shared_redis_context().                                            *)
(***************************************************************************)

\* Up to Lck_Lock(): time passes between reading the clock and the mutex.
Enter(w) ==
    /\ pc[w] = "idle"
    /\ pc' = [pc EXCEPT ![w] = "locking"]
    /\ now' = [now EXCEPT ![w] = clock]
    /\ UNCHANGED <<held, poolVars, sickness, version, stats, clock>>

\* The worker owns the mutex: for the first time, or back from the wait.
InSection(w) == pc[w] \in {"locking", "woken"}

\* Mutant of Taken: the context is moved to the busy list, not removed from
\* the free one.
TakenAndLeft(k) == SubSeq(free_contexts, k + 1, Len(free_contexts))

\* What is left of the free list once its first k contexts are dropped and
\* the next one is marked as busy.
Taken(k) == SubSeq(free_contexts, k + 2, Len(free_contexts))

\* A valid free context is found after dropping the k ones before it.
Reuse(w) ==
    /\ InSection(w)
    /\ \E hup \in SUBSET ToSet(free_contexts), k \in 0 .. Len(free_contexts) :
         /\ FirstValid(k, now[w], hup)
         /\ held' = [held EXCEPT ![w] = free_contexts[k + 1]]
         /\ busy_contexts' = busy_contexts \union {free_contexts[k + 1]}
         /\ free_contexts' = Taken(k)
         /\ ncontexts' = ncontexts - k
         /\ context' = Free({free_contexts[i] : i \in 1 .. k})
         /\ stats' = Dropped(k)
    /\ pc' = [pc EXCEPT ![w] = "busy"]
    /\ now' = [now EXCEPT ![w] = 0]
    /\ UNCHANGED <<sickness, version, clock>>

\* All the free contexts are dropped.
DropAll(w) ==
    /\ InSection(w)
    /\ \E hup \in SUBSET ToSet(free_contexts) : NoneValid(now[w], hup)
    /\ free_contexts' = << >>

\* Mutant of Left: contexts are dropped without ncontexts--.
LeftUncounted == ncontexts

\* ncontexts once the free contexts are dropped.
Left == ncontexts - Len(free_contexts)

\* Mutant of Full: one connection too many.
FullOffByOne == Left > MaxConnections

\* Mutant of Full: contexts that have just been dropped still count.
FullOfDropped == ncontexts >= MaxConnections

\* No more contexts can be created.
Full == Left >= MaxConnections

\* The pool is full: Lck_CondWait(), and "goto retry" once woken.
Wait(w) ==
    /\ DropAll(w)
    /\ Full
    /\ ncontexts' = Left
    /\ context' = Free(ToSet(free_contexts))
    /\ stats' = Dropped(Len(free_contexts))
    /\ pc' = [pc EXCEPT ![w] = "waiting"]
    /\ UNCHANGED <<now, held, busy_contexts, sickness, version, clock>>

\* There is room: a connection is established with the server.
Connect(w) ==
    /\ DropAll(w)
    /\ ~Full
    /\ ConnectOK(now[w])
    /\ \E c \in Contexts \ busy_contexts :
         /\ held' = [held EXCEPT ![w] = c]
         /\ busy_contexts' = busy_contexts \union {c}
         /\ context' = [Free(ToSet(free_contexts)) EXCEPT ![c] =
                          [version |-> version, tst |-> now[w], err |-> FALSE]]
    /\ ncontexts' = Left + 1
    /\ stats' = [total |-> Count(stats.total, 1),
                 dropped |-> Count(stats.dropped, Len(free_contexts)),
                 closed |-> stats.closed]
    /\ pc' = [pc EXCEPT ![w] = "busy"]
    /\ now' = [now EXCEPT ![w] = 0]
    /\ UNCHANGED <<version, clock>>

\* The connection fails: NULL is returned, but a waiting thread is woken.
FailToConnect(w) ==
    /\ DropAll(w)
    /\ ~Full
    /\ ConnectFailed(now[w])
    /\ ncontexts' = Left
    /\ context' = Free(ToSet(free_contexts))
    /\ stats' = Dropped(Len(free_contexts))
    /\ WakeOnFailure([pc EXCEPT ![w] = "idle"])
    /\ now' = [now EXCEPT ![w] = 0]
    /\ UNCHANGED <<held, busy_contexts, version, clock>>

\* POSIX allows a condition wait to end without a signal.
SpuriousWakeup(w) ==
    /\ pc[w] = "waiting"
    /\ pc' = [pc EXCEPT ![w] = "woken"]
    /\ UNCHANGED <<now, held, poolVars, sickness, version, stats, clock>>

-----------------------------------------------------------------------------
(***************************************************************************)
(* Using and returning the context.                                        *)
(***************************************************************************)

\* get_redis_repy(): hiredis leaves a failed connection in an error state.
CommandBreaks(w) ==
    /\ pc[w] = "busy"
    /\ context' = [context EXCEPT ![held[w]] =
                     [version |-> context[held[w]].version,
                      tst |-> context[held[w]].tst, err |-> TRUE]]
    /\ UNCHANGED <<pc, now, held, ncontexts, free_contexts, busy_contexts,
                   sickness, version, stats, clock>>

\* unlock_shared_redis_context().
Unlock(w) ==
    /\ pc[w] = "busy"
    /\ busy_contexts' = busy_contexts \ {held[w]}
    /\ free_contexts' = Append(free_contexts, held[w])
    /\ held' = [held EXCEPT ![w] = NoContext]
    /\ WakeOnRelease([pc EXCEPT ![w] = "idle"])
    /\ UNCHANGED <<now, ncontexts, context, sickness, version, stats, clock>>

-----------------------------------------------------------------------------
(***************************************************************************)
(* The rest of the module and the world around the pool.                   *)
(***************************************************************************)

\* unsafe_discover_redis_server_role() connects with a throwaway context.  The
\* registration of a server in unsafe_add_redis_server() clears the flag in
\* the same way, and unsafe_add_node() sets it as a failed probe does.
ProbeOK ==
    /\ ConnectOK(clock)
    /\ UNCHANGED <<pc, now, held, poolVars, version, stats, clock>>

ProbeFails ==
    /\ ConnectFailed(clock)
    /\ UNCHANGED <<pc, now, held, poolVars, version, stats, clock>>

\* unsafe_update_dbs_aux(), with is->down as reported by Sentinel.
SentinelUpdate(down) ==
    /\ Sentinel
    /\ down <=> sickness.exp <= clock
    /\ sickness' = [tst |-> sickness.tst, exp |-> IF down THEN SickForever ELSE clock]
    /\ UNCHANGED <<pc, now, held, poolVars, version, stats, clock>>

\* handle_vcl_warm_event() of this or of any other VCL.
WarmEvent ==
    /\ version < MaxVersion
    /\ version' = version + 1
    /\ UNCHANGED <<pc, now, held, poolVars, sickness, stats, clock>>

\* handle_vcl_cold_event(): the cache only cools a VCL that no task uses.
ColdEvent ==
    /\ \A w \in Workers : pc[w] = "idle"
    /\ stats' = [total |-> stats.total, dropped |-> stats.dropped,
                 closed |-> Count(stats.closed,
                              Len(free_contexts) + Cardinality(busy_contexts))]
    /\ ncontexts' = 0
    /\ free_contexts' = << >>
    /\ busy_contexts' = {}
    /\ context' = Free(ToSet(free_contexts) \union busy_contexts)
    /\ UNCHANGED <<pc, now, held, sickness, version, clock>>

Tick ==
    /\ clock < MaxTime
    /\ clock' = clock + 1
    /\ UNCHANGED <<pc, now, held, poolVars, sickness, version, stats>>

-----------------------------------------------------------------------------
Init ==
    /\ pc = [w \in Workers |-> "idle"]
    /\ now = [w \in Workers |-> 0]
    /\ held = [w \in Workers |-> NoContext]
    /\ ncontexts = 0
    /\ free_contexts = << >>
    /\ busy_contexts = {}
    /\ context = [c \in Contexts |-> FreedContext]
    /\ sickness = [tst |-> 0, exp |-> 0]
    /\ version = 0
    /\ stats = [total |-> 0, dropped |-> 0, closed |-> 0]
    /\ clock = 1

\* What a worker does once it has called lock_shared_redis_context().
Step(w) ==
    \/ Reuse(w)
    \/ Wait(w)
    \/ Connect(w)
    \/ FailToConnect(w)
    \/ Unlock(w)

Next ==
    \/ \E w \in Workers : Enter(w) \/ Step(w) \/ SpuriousWakeup(w) \/ CommandBreaks(w)
    \/ ProbeOK
    \/ ProbeFails
    \/ \E down \in BOOLEAN : SentinelUpdate(down)
    \/ WarmEvent
    \/ ColdEvent
    \/ Tick

Spec == Init /\ [][Next]_vars

\* The scheduler runs every worker that is not blocked, and connections and
\* commands end (connection_timeout and command_timeout where they are set, a
\* server that answers or hangs up where they are not).
FairSpec == Spec /\ \A w \in Workers : WF_vars(Step(w))

-----------------------------------------------------------------------------
(***************************************************************************)
(* Properties.                                                             *)
(***************************************************************************)

\* Every variable has its type: statistics stay in their width, no time is
\* ever later than what the Sentinel thread stores.
TypeOK ==
    /\ pc \in [Workers -> PC]
    /\ now \in [Workers -> 0 .. MaxTime]
    /\ held \in [Workers -> Contexts \union {NoContext}]
    /\ ncontexts \in 0 .. MaxConnections
    /\ free_contexts \in Seq(Contexts)
    /\ busy_contexts \in SUBSET Contexts
    /\ context \in [Contexts -> ContextRecord]
    /\ sickness \in [tst : Times, exp : Times]
    /\ version \in 0 .. MaxVersion
    /\ stats \in [total : Int, dropped : Int, closed : Int]
    /\ clock \in 1 .. MaxTime

\* The counter that admits new connections is the number of contexts in the
\* two lists, and a context is in one place of one list: an entry dropped
\* from the free list without ncontexts-- (or the reverse) would shrink the
\* pool for ever, or let it grow beyond max_connections.
PoolConsistent ==
    /\ ncontexts = Len(free_contexts) + Cardinality(busy_contexts)
    /\ \A i, j \in DOMAIN free_contexts :
         free_contexts[i] = free_contexts[j] => i = j
    /\ \A i \in DOMAIN free_contexts : free_contexts[i] \notin busy_contexts

\* A connection is used by one worker at a time, only while it is in the
\* busy list (so it is never freed under its user), and no connection stays
\* in the busy list without a user.
ExclusiveUse ==
    /\ \A w \in Workers : held[w] # NoContext <=> pc[w] = "busy"
    /\ \A v, w \in Workers : held[v] = held[w] /\ held[v] # NoContext => v = w
    /\ busy_contexts = {held[w] : w \in {v \in Workers : pc[v] = "busy"}}

\* Connections a worker could have without waiting for another one.
Spare == Len(free_contexts) + (MaxConnections - ncontexts)

\* No lost wakeup: while a worker sleeps in Lck_CondWait(), each connection
\* that could be reused or created is on its way to a worker that has been
\* woken.  It rests on the signal of every release and on the one sent when
\* a connection attempt fails, in spite of barging and spurious wakeups.
NoLostWakeup == Waiting # {} => Cardinality(Woken) >= Spare

\* The inductive invariant: what keeps the promise of NoLostWakeup is that
\* ncontexts counts the lists and that a busy context has a worker to signal.
PoolInv == TypeOK /\ PoolConsistent /\ ExclusiveUse /\ NoLostWakeup

\* A blocked worker "waits for another thread releasing some context" (the
\* comment before Lck_CondWait()): there is one that will.
NeverStuck == Waiting # {} => \E w \in Workers : pc[w] \in {"woken", "busy"}

\* db->stats: connections.total is the number of pooled connections plus the
\* ones dropped for some reason plus the ones a cold event closed.
StatsBalance ==
    stats.total = Count(ncontexts + stats.dropped + stats.closed, 0)

\* Once requests stop arriving every blocked worker gets out of the pool:
\* it is served, or its connection attempt fails.
Quiet == <>[][\A w \in Workers : ~Enter(w)]_vars

Drained == Quiet => <>[](Waiting = {})

-----------------------------------------------------------------------------
(***************************************************************************)
(* The pool implements its contract: what a worker does, seen from outside *)
(* lock_shared_redis_context().                                            *)
(***************************************************************************)

PhaseOf(at) ==
    CASE at = "idle" -> "out"
      [] at \in {"locking", "woken"} -> "asking"
      [] at = "waiting" -> "sleeping"
      [] at = "busy" -> "using"

Contract ==
    INSTANCE PoolContract WITH
        Connections <- Contexts,
        NoConnection <- NoContext,
        phase <- [w \in Workers |-> PhaseOf(pc[w])],
        holds <- held

\* Connections are never handed out beyond max_connections, nor twice, and no
\* worker is left to sleep, or sent away, because of free connections that
\* turned out to be stale, errors, VCL events, probes or the Sentinel thread.
ImplementsContract == Contract!Spec
=============================================================================
