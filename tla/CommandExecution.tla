--------------------------- MODULE CommandExecution ---------------------------
(***************************************************************************)
(* The execution of commands by one task: redis_execute() and the plans,   *)
(* private connections and retries it is made of (core.c), and             *)
(* cluster_execute(), which follows the redirections of a cluster          *)
(* (cluster.c).                                                            *)
(*                                                                         *)
(* The worker reads the roles and slots of servers without db->mutex to    *)
(* choose among its private connections, and with it to choose servers, so *)
(* these are two steps, and the Sentinel thread, the discoveries of other  *)
(* workers or an .add_server() of theirs may change roles and slots        *)
(* between them.  Which servers are in a plan is what Plans promises of    *)
(* populate_execution_plan(); the shared connections are those of          *)
(* SharedPool.  The task uses one database: with several of them the       *)
(* connections of all are in one state->contexts.                          *)
(***************************************************************************)
EXTENDS TailQueues, Plans

CONSTANTS
    Servers,             \* the servers of the database
    NoServer,            \* the NULL pointer
    Contexts,            \* heap addresses of redis_context_t objects
    NoContext,           \* the NULL pointer
    MaxConnections,      \* db->max_connections
    MaxRetries,          \* state->command.max_retries
    MaxHops,             \* db->cluster.max_hops
    WorkspaceOverflows   \* may an allocation in the workspace fail?

ASSUME ServersAssumption == IsFiniteSet(Servers) /\ NoServer \notin Servers

ASSUME ContextsAssumption ==
    /\ IsFiniteSet(Contexts)
    /\ NoContext \notin Contexts
    /\ Cardinality(Contexts) > MaxConnections

ASSUME NumbersAssumption ==
    /\ MaxConnections \in Nat \ {0}
    /\ MaxRetries \in Nat
    /\ MaxHops \in Nat \ {0}

ASSUME EnvironmentAssumption == WorkspaceOverflows \in BOOLEAN

VARIABLES
    clustered,  \* db->cluster.enabled
    shared,     \* db->shared_connections
    role,       \* server->role
    owners,     \* servers with server->cluster.slots[slot] set
    scripts,    \* servers whose script cache holds the script
    contexts,   \* state->contexts: the private connections of the task
    on,         \* context->server
    broken,     \* contexts with rcontext->err set
    pc,         \* where the worker is
    argv0,      \* argv[0], which redis_execute() rewrites, or "NULL" once some
                \* pointer of argv is NULL
    name,       \* history: the command the caller gave
    master,     \* argument "master"
    retries,    \* *retries
    hops,       \* redirections left
    server,     \* argument "server" of redis_execute()
    asking,     \* argument "asking"
    plan,       \* contexts and servers of the plan still to be tried, in order
    held,       \* the context in use
    reply,      \* result->type, if there is a result
    tries,      \* history: contexts asked for
    changed     \* history: a role has changed between the halves of the plan

database == <<clustered, shared, role, owners>>
pool == <<contexts, on, broken>>
call == <<name, master>>
loop == <<retries, hops, server, asking>>
vars == <<database, scripts, pool, pc, argv0, call, loop, plan, held, reply, tries,
          changed>>

Roles == {"slave", "master", "tbd"}

\* "null" is a NULL pointer; "moved" and "ask" are redirections to "target".
Reply == [type : {"null", "ok", "noscript", "moved", "ask"},
          target : Servers \union {NoServer}]
Null == [type |-> "null", target |-> NoServer]

NoPlan == [contexts |-> << >>, servers |-> << >>]

\* Bound: tries are counted up to one more than there should be.
TriesBound == 2 + MaxRetries + MaxHops
CountTry == tries' = IF tries < TriesBound THEN tries + 1 ELSE tries

-----------------------------------------------------------------------------
(***************************************************************************)
(* vmod_db_execute(): scripts always run in a master of a cluster.         *)
(***************************************************************************)
Execute(n, m) ==
    /\ pc = "idle"
    /\ pc' = "contexts"
    /\ name' = n
    /\ argv0' = n
    /\ master' = (m \/ (clustered /\ n # "GET"))
    /\ retries' = 0
    /\ hops' = IF clustered THEN MaxHops ELSE 0
    /\ tries' = 0
    /\ UNCHANGED <<database, scripts, pool, server, asking, plan, held, reply,
                   changed>>

\* .execute() is called again, without .free() or .command() in between: argv
\* is as the last execution left it, so that an EVAL may be an EVALSHA by now.
\* (With a NULL pointer in argv the process dies.)
ExecuteAgain(m) ==
    /\ pc = "done"
    /\ name # "PING"
    /\ argv0 # "NULL"
    /\ pc' = "contexts"
    /\ master' = (m \/ (clustered /\ argv0 # "GET"))
    /\ retries' = 0
    /\ hops' = IF clustered THEN MaxHops ELSE 0
    /\ reply' = Null
    /\ tries' = 0
    /\ UNCHANGED <<database, scripts, pool, argv0, name, server, asking, plan, held,
                   changed>>

\* cluster_execute(): a command without a key cannot be sent to a cluster.
Reject ==
    /\ pc = "idle"
    /\ clustered
    /\ pc' = "done"
    /\ name' = "PING"
    /\ argv0' = "PING"
    /\ UNCHANGED <<database, scripts, pool, master, loop, plan, held, reply, tries,
                   changed>>

-----------------------------------------------------------------------------
(***************************************************************************)
(* plan_execution().                                                       *)
(***************************************************************************)

\* Mutant of Size: the first attempt is not a retry.
SizeOfRetries == MaxRetries - retries

\* Contexts and servers that are needed at most.
Size == IF retries > 0 THEN MaxRetries - retries ELSE 1 + MaxRetries

\* Mutant of Suits: any connection will do after a redirection.
SuitsAnyway(c) ==
    LET s == on[c]
    IN  /\ master <=> role[s] = "master"
        /\ clustered => s \in owners

\* The private connection matches the requested conditions.
Suits(c) ==
    LET s == on[c]
    IN  IF server # NoServer THEN s = server
        ELSE /\ master <=> role[s] = "master"
             /\ clustered => s \in owners

\* Mutant of Valid: the error state of the connection is not looked at.
ValidBroken(c, stale) == c \notin stale

\* is_valid_redis_context(), with "stale" the ones too old or hung up.
Valid(c, stale) == c \notin stale /\ c \notin broken

\* Mutant of ValidContexts: connections are put in the plan and then checked.
UncheckedContexts(stale) == Filtered(contexts, {c \in ToSet(contexts) : Suits(c)})

ValidContexts(stale) ==
    Filtered(contexts, {c \in ToSet(contexts) : Suits(c) /\ Valid(c, stale)})

\* The loop over the private connections stops when the plan has as many as
\* needed, and drops the ones it finds invalid before that.  The first one
\* of the plan is moved to the end of the list.
ScanContexts ==
    /\ pc = "contexts"
    /\ ~shared
    /\ \E stale \in SUBSET ToSet(contexts) :
         LET valid == ValidContexts(stale)
             chosen == IF Size = 0 THEN valid ELSE FirstOf(valid, Size)
             stop == IF chosen # << >> /\ Len(chosen) = Size
                     THEN IndexOf(contexts, Last(chosen))
                     ELSE Len(contexts)
             dropped == {c \in {contexts[k] : k \in 1 .. stop} :
                           Suits(c) /\ ~Valid(c, stale)}
             left == Filtered(contexts, Contexts \ dropped)
         IN  /\ contexts' = IF server = NoServer /\ chosen # << >>
                            THEN Append(Removed(left, Head(chosen)), Head(chosen))
                            ELSE left
             /\ broken' = broken \ dropped
             /\ on' = [c \in Contexts |-> IF c \in dropped THEN NoServer ELSE on[c]]
             /\ plan' = [contexts |-> chosen, servers |-> << >>]
    /\ pc' = "servers"
    /\ UNCHANGED <<database, scripts, argv0, call, loop, held, reply, tries,
                   changed>>

SkipContexts ==
    /\ pc = "contexts"
    /\ shared
    /\ pc' = "servers"
    /\ UNCHANGED <<database, scripts, pool, argv0, call, loop, plan, held, reply,
                   tries, changed>>

\* Neither the plan nor a list of connections fit in the workspace.  If it is
\* the list, the connections before the first valid one are dropped.
OverflowContexts ==
    /\ WorkspaceOverflows
    /\ pc = "contexts"
    /\ \E n \in 0 .. Len(contexts) :
         LET dropped == {c \in ToSet(SubSeq(contexts, 1, n)) : Suits(c)}
         IN  /\ n > 0 => /\ ~shared
                        /\ n < Len(contexts)
                        /\ Suits(contexts[n + 1])
                        /\ contexts[n + 1] \notin broken
             /\ contexts' = Filtered(contexts, Contexts \ dropped)
             /\ broken' = broken \ dropped
             /\ on' = [c \in Contexts |-> IF c \in dropped THEN NoServer ELSE on[c]]
    /\ pc' = "planned"
    /\ UNCHANGED <<database, scripts, argv0, call, loop, plan, held, reply, tries,
                   changed>>

WithRole(r) == {s \in Servers : role[s] = r}

\* The servers that a plan may have, with "sick" the sick ones.
Acceptable(sick) ==
    Fitting(clustered, Servers, owners, sick, WithRole("master"), WithRole("slave"), master)

\* The servers of the plan: the one of the redirection, or as many as needed
\* and there are.
ScanServers ==
    /\ pc = "servers"
    /\ \E sick \in SUBSET Servers :
         \E list \in IF server # NoServer THEN {<<server>>}
                     ELSE PlansOf(Acceptable(sick), Size - Len(plan.contexts)) :
           plan' = [contexts |-> plan.contexts, servers |-> list]
    /\ pc' = "planned"
    /\ UNCHANGED <<database, scripts, pool, argv0, call, loop, held, reply, tries,
                   changed>>

\* The list of servers does not fit in the workspace.
OverflowServers ==
    /\ WorkspaceOverflows
    /\ pc = "servers"
    /\ pc' = "planned"
    /\ UNCHANGED <<database, scripts, pool, argv0, call, loop, plan, held, reply,
                   tries, changed>>

\* Execution plan not available.
EmptyPlan ==
    /\ pc = "planned"
    /\ plan = NoPlan
    /\ retries' = MaxRetries
    /\ pc' = "returned"
    /\ UNCHANGED <<database, scripts, pool, argv0, call, hops, server, asking, plan,
                   held, reply, tries, changed>>

StartPlan ==
    /\ pc = "planned"
    /\ plan # NoPlan
    /\ pc' = "lock"
    /\ UNCHANGED <<database, scripts, pool, argv0, call, loop, plan, held, reply,
                   tries, changed>>

-----------------------------------------------------------------------------
(***************************************************************************)
(* lock_redis_context().                                                   *)
(***************************************************************************)

\* The next private connection of the plan is used.
LockPlanned ==
    /\ pc = "lock"
    /\ plan.contexts # << >>
    /\ held' = Head(plan.contexts)
    /\ plan' = [contexts |-> Tail(plan.contexts), servers |-> plan.servers]
    /\ CountTry
    /\ pc' = "send"
    /\ UNCHANGED <<database, scripts, pool, argv0, call, loop, reply, changed>>

\* Mutant of Evicted: one connection too many.
EvictedLate == IF Len(contexts) > MaxConnections THEN {Head(contexts)} ELSE {}

\* The private connection that is released when there is no room for more: the
\* first of all those of the task, here with one database, of which every
\* connection is.
Evicted == IF Len(contexts) >= MaxConnections THEN {Head(contexts)} ELSE {}

\* A private connection is established with the next server of the plan, if
\* it is possible; some other one makes room for it in any case.
LockPrivate ==
    /\ pc = "lock"
    /\ ~shared
    /\ plan.contexts = << >>
    /\ plan.servers # << >>
    /\ plan' = [contexts |-> << >>,
                servers |-> Append(Tail(plan.servers), Head(plan.servers))]
    /\ LET kept == Filtered(contexts, Contexts \ Evicted)
           emptied == [c \in Contexts |-> IF c \in Evicted THEN NoServer ELSE on[c]]
       IN  \/ \E c \in Contexts \ ToSet(kept) :
                /\ contexts' = Append(kept, c)
                /\ on' = [emptied EXCEPT ![c] = Head(plan.servers)]
                /\ held' = c
                /\ pc' = "send"
           \/ /\ contexts' = kept
              /\ on' = emptied
              /\ pc' = "update"
              /\ UNCHANGED held
    /\ broken' = broken \ Evicted
    /\ CountTry
    /\ UNCHANGED <<database, scripts, argv0, call, loop, reply, changed>>

\* lock_shared_redis_context() gets a connection of the pool of the next
\* server of the plan, or none.
LockShared ==
    /\ pc = "lock"
    /\ shared
    /\ plan.servers # << >>
    /\ plan' = [contexts |-> << >>,
                servers |-> Append(Tail(plan.servers), Head(plan.servers))]
    /\ \/ \E c \in Contexts :
            /\ held' = c
            /\ on' = [on EXCEPT ![c] = Head(plan.servers)]
            /\ pc' = "send"
       \/ pc' = "update" /\ UNCHANGED <<held, on>>
    /\ CountTry
    /\ UNCHANGED <<database, scripts, contexts, broken, argv0, call, loop, reply,
                   changed>>

\* assert(plan->servers.next < plan->servers.n).
AssertFails ==
    /\ pc = "lock"
    /\ plan = NoPlan
    /\ pc' = "panic"
    /\ UNCHANGED <<database, scripts, pool, argv0, call, loop, plan, held, reply,
                   tries, changed>>

-----------------------------------------------------------------------------
(***************************************************************************)
(* get_redis_repy() and the reply of the server, for argv[0] = cmd.        *)
(***************************************************************************)

\* The worker sends READONLY and READWRITE around the command.
Readonly == clustered /\ role[on[held]] = "slave"

Send(cmd) ==
    \/ /\ reply' = Null
       /\ broken' = broken \union {held}
       /\ UNCHANGED scripts
    \/ /\ \/ /\ cmd = "EVALSHA" => on[held] \in scripts
             /\ reply' = [type |-> "ok", target |-> NoServer]
             /\ scripts' = IF cmd = "EVAL" THEN scripts \union {on[held]} ELSE scripts
          \/ /\ cmd = "EVALSHA"
             /\ on[held] \notin scripts
             /\ reply' = [type |-> "noscript", target |-> NoServer]
             /\ UNCHANGED scripts
          \/ /\ clustered
             /\ \E t \in {"moved", "ask"}, s \in Servers : reply' = [type |-> t, target |-> s]
             /\ UNCHANGED scripts
       /\ \/ UNCHANGED broken
          \/ Readonly /\ broken' = broken \union {held}

\* An EVAL command is sent as EVALSHA first: argv is rewritten.
SendEvalsha ==
    /\ pc = "send"
    /\ argv0 = "EVAL"
    /\ Send("EVALSHA")
    /\ IF reply'.type = "noscript" /\ held \notin broken'
       THEN pc' = "resend" /\ argv0' = "EVAL"
       ELSE pc' = "update" /\ argv0' = "EVALSHA"
    /\ UNCHANGED <<database, contexts, on, call, loop, plan, held, tries, changed>>

\* The original EVAL, after a NOSCRIPT, or any other command.
SendCommand ==
    /\ \/ pc = "send" /\ argv0 # "EVAL"
       \/ pc = "resend"
    /\ Send(argv0)
    /\ pc' = "update"
    /\ UNCHANGED <<database, contexts, on, argv0, call, loop, plan, held, tries,
                   changed>>

\* Mutant of Unlock: it is forgotten.
UnlockNothing == UNCHANGED <<held, on, broken>>

\* unlock_redis_context(): a shared connection goes back to its pool.
Unlock ==
    LET returned == IF shared THEN {held} ELSE {}
    IN  /\ held' = NoContext
        /\ on' = [c \in Contexts |-> IF c \in returned THEN NoServer ELSE on[c]]
        /\ broken' = broken \ returned

\* argv cannot be rewritten, which leaves it with a NULL pointer, its name or
\* its digest: the command is given up.
OverflowArguments ==
    /\ WorkspaceOverflows
    /\ \/ pc = "send" /\ argv0 = "EVAL"
       \/ pc = "resend"
    /\ argv0' = "NULL"
    /\ Unlock
    /\ reply' = Null
    /\ retries' = MaxRetries
    /\ pc' = "returned"
    /\ UNCHANGED <<database, scripts, contexts, call, hops, server, asking, plan,
                   tries, changed>>

\* The context is released, and "Try again?" of redis_execute().
Update ==
    /\ pc = "update"
    /\ Unlock
    /\ IF reply.type = "null" /\ retries < MaxRetries
       THEN retries' = retries + 1 /\ pc' = "lock"
       ELSE retries' = retries /\ pc' = "returned"
    /\ UNCHANGED <<database, scripts, contexts, argv0, call, hops, server, asking,
                   plan, reply, tries, changed>>

-----------------------------------------------------------------------------
(***************************************************************************)
(* cluster_execute().                                                      *)
(***************************************************************************)

\* Mutant of HopsAfter: redirections are not counted.
HopsKept == hops

\* The redirections left once one is followed.
HopsAfter == hops - 1

\* unsafe_add_redis_server() asks a server for its role, and a discovery
\* others for theirs; a role that is known is never forgotten.
RolesAfter(S) ==
    {f \in [Servers -> Roles] : \A s \in Servers :
       f[s] # role[s] => s \in S /\ f[s] # "tbd"}

\* A MOVED or an ASK reply.  The server it names is registered again, and the
\* former makes this worker discover the topology.  The execution starts
\* again with that server, unless there have been too many redirections.
Redirect ==
    /\ pc = "returned"
    /\ clustered
    /\ reply.type \in {"moved", "ask"}
    /\ IF reply.type = "moved"
       THEN /\ role' \in RolesAfter(Servers)
            /\ owners' \in SUBSET Servers
       ELSE /\ role' \in RolesAfter({reply.target})
            /\ UNCHANGED owners
    /\ IF hops > 0
       THEN /\ hops' = HopsAfter
            /\ server' = reply.target
            /\ asking' = (reply.type = "ask")
            /\ pc' = "contexts"
       ELSE /\ server' = NoServer
            /\ asking' = FALSE
            /\ pc' = "done"
            /\ UNCHANGED hops
    /\ reply' = Null
    /\ plan' = NoPlan
    /\ UNCHANGED <<clustered, shared, scripts, pool, argv0, call, retries, held,
                   tries, changed>>

\* Any other reply, or none, is for the caller.
Finish ==
    /\ pc = "returned"
    /\ ~clustered \/ reply.type \notin {"moved", "ask"}
    /\ server' = NoServer
    /\ asking' = FALSE
    /\ plan' = NoPlan
    /\ pc' = "done"
    /\ changed' = FALSE
    /\ UNCHANGED <<database, scripts, pool, argv0, call, retries, hops, held, reply,
                   tries>>

\* The caller is done with the reply.
FreeReply ==
    /\ pc = "done"
    /\ pc' = "idle"
    /\ reply' = Null
    /\ retries' = 0
    /\ hops' = 0
    /\ tries' = 0
    /\ UNCHANGED <<database, scripts, pool, argv0, call, server, asking, plan, held,
                   changed>>

\* The task ends: free_task_state() closes its private connections.
EndTask ==
    /\ pc = "idle"
    /\ contexts # << >>
    /\ contexts' = << >>
    /\ on' = [c \in Contexts |-> NoServer]
    /\ broken' = {}
    /\ UNCHANGED <<database, scripts, pc, argv0, call, loop, plan, held, reply,
                   tries, changed>>

-----------------------------------------------------------------------------
(***************************************************************************)
(* The servers, the Sentinel thread and the other workers.                 *)
(***************************************************************************)

\* unsafe_update_dbs_aux() of the Sentinel thread, the discovery of another
\* worker, or a .add_server() of another task: unsafe_add_redis_server() asks
\* a server that is already known for its role again.
ChangeRole(s, r) ==
    /\ role[s] # r
    /\ role' = [role EXCEPT ![s] = r]
    /\ changed' = (changed \/ (pc = "servers" /\ ~clustered /\ ~shared))
    /\ UNCHANGED <<clustered, shared, owners, scripts, pool, pc, argv0, call, loop,
                   plan, held, reply, tries>>

ChangeOwner(s) ==
    /\ clustered
    /\ owners' = IF s \in owners THEN owners \ {s} ELSE owners \union {s}
    /\ UNCHANGED <<clustered, shared, role, scripts, pool, pc, argv0, call, loop,
                   plan, held, reply, tries, changed>>

\* A restarted server has an empty script cache.
Restart(s) ==
    /\ s \in scripts
    /\ scripts' = scripts \ {s}
    /\ UNCHANGED <<database, pool, pc, argv0, call, loop, plan, held, reply, tries,
                   changed>>

-----------------------------------------------------------------------------
Init ==
    /\ clustered \in BOOLEAN
    /\ shared \in BOOLEAN
    /\ role \in [Servers -> Roles]
    /\ owners \in IF clustered THEN SUBSET Servers ELSE {{}}
    /\ scripts = {}
    /\ contexts = << >>
    /\ on = [c \in Contexts |-> NoServer]
    /\ broken = {}
    /\ pc = "idle"
    /\ argv0 = "GET"
    /\ name = "GET"
    /\ master = FALSE
    /\ retries = 0
    /\ hops = 0
    /\ server = NoServer
    /\ asking = FALSE
    /\ plan = NoPlan
    /\ held = NoContext
    /\ reply = Null
    /\ tries = 0
    /\ changed = FALSE

\* A step of the command under way.
Work ==
    \/ ScanContexts
    \/ SkipContexts
    \/ OverflowContexts
    \/ ScanServers
    \/ OverflowServers
    \/ EmptyPlan
    \/ StartPlan
    \/ LockPlanned
    \/ LockPrivate
    \/ LockShared
    \/ AssertFails
    \/ SendEvalsha
    \/ SendCommand
    \/ OverflowArguments
    \/ Update
    \/ Redirect
    \/ Finish

Next ==
    \/ \E n \in {"GET", "EVAL"}, m \in BOOLEAN : Execute(n, m)
    \/ \E m \in BOOLEAN : ExecuteAgain(m)
    \/ Reject
    \/ FreeReply
    \/ EndTask
    \/ Work
    \/ \E s \in Servers, r \in {"slave", "master"} : ChangeRole(s, r)
    \/ \E s \in Servers : ChangeOwner(s) \/ Restart(s)

Spec == Init /\ [][Next]_vars

\* The worker goes on: connections and commands end (connection_timeout and
\* command_timeout where they are set, a server that answers or hangs up
\* where they are not) and pools drain (SharedPool).
FairSpec == Spec /\ WF_vars(Work)

-----------------------------------------------------------------------------
(***************************************************************************)
(* Properties.                                                             *)
(***************************************************************************)

\* Every variable has its type; redis_execute() asserts that the retries
\* are within their limit, and the private connections of a task that uses
\* one database are within theirs.
TypeOK ==
    /\ role \in [Servers -> Roles]
    /\ owners \in SUBSET Servers
    /\ contexts \in Seq(Contexts)
    /\ Len(contexts) <= MaxConnections
    /\ on \in [Contexts -> Servers \union {NoServer}]
    /\ broken \in SUBSET Contexts
    /\ retries \in 0 .. MaxRetries
    /\ hops \in 0 .. MaxHops
    /\ server \in Servers \union {NoServer}
    /\ plan.contexts \in Seq(Contexts)
    /\ plan.servers \in Seq(Servers)
    /\ held \in Contexts \union {NoContext}
    /\ reply \in Reply
    /\ changed \in BOOLEAN

\* Connections in use or in the plan, as the pointers they are, are to
\* connections that exist: neither the ones dropped by a later scan nor the
\* one released to make room for another may be among them.
NoDanglingContext ==
    /\ held # NoContext => on[held] # NoServer
    /\ ~shared /\ held # NoContext => held \in ToSet(contexts)
    /\ pc \in {"servers", "planned", "lock", "send", "resend", "update"} =>
         \A k \in DOMAIN plan.contexts : plan.contexts[k] \in ToSet(contexts)

\* No command, neither the first attempt nor the EVAL that follows a
\* NOSCRIPT, is sent through a connection that is in an error state.
NeverSentWhenBroken == pc \in {"send", "resend"} => held \notin broken

\* After a redirection every attempt, retries included, goes to the server it
\* names; ASKING is only sent to that server.
RedirectionObeyed ==
    /\ asking => server # NoServer
    /\ server # NoServer /\ held # NoContext => on[held] = server

\* No connection is kept once the command is executed, whatever went wrong.
Released == pc \in {"idle", "contexts", "returned", "done"} => held = NoContext

\* A command is attempted once, plus once for each retry and redirection.
AttemptsBounded == tries <= 1 + MaxRetries + MaxHops

\* "assert(plan->servers.next < plan->servers.n)": the plan, which has
\* something to begin with, suffices for all the retries.
PlanNeverExhausted == pc # "panic"

\* That assertion only fails when a role has changed between the choice of
\* the private connections and that of the servers, in a database that is
\* not a cluster, or when the servers did not fit in the workspace.
ExhaustedByChangesOnly ==
    pc = "panic" => (~clustered /\ ~shared /\ changed) \/ WorkspaceOverflows

\* The execution of a command ends, whatever the servers reply and the other
\* threads do (or an assertion ends them all).
CommandEnds == pc # "idle" ~> pc \in {"idle", "done", "panic"}

\* "EVAL commands are internally replace by EVALSHA commands, which fallback
\* to the original EVAL command if the Redis server returns a NOSCRIPT error"
\* (vmod_redis.vcc, .command()): whoever asks a server that is not part of a
\* cluster for EVAL is never given a NOSCRIPT.
NoScriptHidden ==
    pc = "done" /\ name = "EVAL" /\ ~clustered => reply.type # "noscript"
=============================================================================
