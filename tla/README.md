# A verification of libvmod-redis

`libvmod-redis` is a Varnish module: VCL code running in many worker threads
sends commands to Redis servers through it.  This directory holds TLA+ models
of the parts of the module where threads, failures and servers meet, the TLC
runs that check them on small instances, and TLAPS proofs of the most
important invariants for every value of the constants.  `PROJECT.json` lists
the runs, the lines each definition stands for, the hazards the properties are
aimed at and the findings.

Every module is run from this directory, for instance

    tlc -config MCSharedPool.cfg MCSharedPool
    tlapm SharedPoolProofs.tla

## Inventory

| Component | State | Operations | What is hard | What makes it correct |
|---|---|---|---|---|
| Shared pools (`core.c`) | per server: `ncontexts`, `free_contexts`, `busy_contexts`, a condition variable, `sickness` | lock, unlock, validate, connect, drop | waits and signals, dropped connections, a clock read before the mutex | exclusive use, the counter matches the lists, no lost wakeup, sick connections dropped |
| Private connections (`core.c`) | per task: `ncontexts`, `contexts` | plan, lock, evict, drop | pointers kept in a plan across evictions | no dangling connection, no reuse of a broken one |
| Execution plans (`core.c`) | `db->servers[weight][role]`, roles, slots, sickness | four rounds, rotation | counters over nested loops, reading with and without the mutex | best servers in the best order, load shared, never exhausted |
| Command execution (`core.c`, `vmod_redis.c`) | `argv`, `retries`, the plan, the context in use | execute, retry, EVALSHA substitution | retries of half done work, workspace overflows | bounded attempts, connections released, commands end |
| Redis Cluster redirections (`cluster.c`) | `hops`, `server`, `asking` | MOVED, ASK, rediscover | loops of redirections, stale topology | redirections obeyed and bounded |
| Topology discovery (`cluster.c`, `core.c`) | lists of servers, slots, discovery counters | register, discover, reset slots | partial replies, lists that change under iteration | lists match roles, old topology kept until a new one is found, discoveries end |
| Sentinel thread (`sentinel.c`) | its own inventory, connections, timers | discovery, Pub/Sub events, update of databases | a second thread, its life cycle, events out of order | databases converge to what Sentinel says |
| VCL events (`vmod_redis.c`) | `vmod_state.version`, `config` | load, warm, cold, discard | threads started and joined, pools closed | nothing used after it is freed |
| Task state, VCL methods (`vmod_redis.c`) | the enqueued command and its reply | `.command()`, `.push()`, `.execute()`, `.free()`, ... | call sequences of VCL authors | no leak, no use of another command's reply |
| Slot of a key (`cluster.c`, `crc16.c`) | none | `get_key_index()`, `get_cluster_slot()` | hash tags | agrees with the Redis specification |
| Statistics, formatting, TLS, SHA-1 | counters | rendering, digests | - | - |

Interaction: `.execute()` calls `redis_execute()`, directly or through
`cluster_execute()`, which builds a plan from the lists of servers and takes
connections from the task or from the pools.  Workers, the thread that runs
`vcl_init`, VCL events and the Sentinel thread share the servers of a database
under `db->mutex`, obtained after `config->mutex` when both are needed.  The
lists of servers, roles and slots are changed by `.add_server()`, MOVED and ASK
replies, discoveries and the Sentinel thread.

## Modules

* `SharedPool`: one pool and the workers that use it.  A critical section of
  `db->mutex` is one step; `Lck_CondWait()` splits it.  `Enter` reads the clock,
  then `Reuse`, `Wait`, `Connect` and `FailToConnect` are the ways out of
  `lock_shared_redis_context()`, and `Unlock` is `unlock_shared_redis_context()`.
  `pthread_cond_signal()` wakes any one waiting worker, and waits may end without
  a signal.  `CommandBreaks`, hang ups seen by `poll()`, TTLs, versions and the
  sickness flag make pooled connections invalid.  Servers are probed, Sentinel
  reports, VCLs warm up and cool down in between.
* `PoolContract`: the abstract specification of a pool, what workers may rely on
  and nothing else.  A worker asks, is granted a connection that is nobody
  else's, is refused, or sleeps because `max_connections` are in use at that
  moment; who leaves lets a sleeping worker ask again.  `SharedPool` implements
  it (`ImplementsContract`): the mapping forgets lists, counters, clocks,
  versions and sickness, and a worker is asking from `Enter` on or from the
  moment it is woken (`PhaseOf`).
* `SicknessAudit`: `SharedPool` with a history variable, the connections that
  existed when the server was flagged.
* `TailQueues`: `VTAILQ` lists as sequences: what a removal leaves, and what a
  loop collects (`Filtered`, written as a recursive function so that it can be
  proved about).  Used by the modules below that keep lists.
* `ServerLists`: `db->servers` as a sequence for each weight and role, and
  moving a server to the tail of a list.  Used by the next two modules.
* `ClusterDiscovery`: registration of servers and discovery of slots, one step
  for each server asked, for each node of its reply, for each server whose slots
  are reset (`ResetSlots`) and for each slot that is set (`RegisterSlot`).  The
  mutexes are held all along (`owner`), but roles and slots are read without them
  when private connections are chosen, so the steps in between are visible: in
  particular the moments at which a topology that is being replaced has no slots
  at all (`Replacing`).  A reply is a sequence of nodes; the ones that
  are not parsed are kept as such, as they change the control.  `disturbed`
  records that a reply without slots has moved servers, which the code takes
  for impossible.
* `Plans`: what `populate_execution_plan()` promises to `redis_execute()`: as many
  different servers as needed and there are, all of them fit for the command.
* `ExecutionPlan`: the rounds of `populate_execution_plan()` and the rotation,
  as operators over sequences, and one action for the whole function.  Registry,
  slots and sickness change freely between plans.
* `CommandExecution`: one task executing commands, from `vmod_db_execute()` to
  the reply: the plan in two steps (private connections without the mutex,
  servers with it), locking, EVALSHA and EVAL, release, retries, redirections,
  workspace overflows.  A second `.execute()` of the same command starts from the
  `argv[0]` that the first one left (`ExecuteAgain`).  Roles change at any time, in
  standalone databases too: by the Sentinel thread, by a discovery, and by an
  `.add_server()` of another task, which asks a known server for its role again;
  `changed` records that it happened between the two steps of a plan.  Of the
  servers of a plan it takes what `Plans` promises, in any order, and of pools only
  whether a connection is obtained.  The task uses one database: in the code the
  private connections of a task are those of all its databases, a list that is
  searched and cut by the limit of the database that executes (`core.c:1148`,
  `1206`, `1422`; `vmod_redis.vcc:413`).  So the bound of `TypeOK` on private
  connections is about tasks that use one database, and evictions here never
  close a connection of another one.
* `KeySlot`: `get_key_index()`, `get_cluster_slot()` and `crc16()` with its
  table, as functions of sequences of signed characters, and next to them what
  the Redis Cluster specification says: the remainder of a polynomial division
  and the definition of a hash tag.  A word is the set of its bits that are 1, so
  that an exclusive or is a symmetric difference.
* `ClusterExecution`: `CommandExecution` with the slot that `KeySlot` gives to the
  commands of a clustered database.
* `SentinelThread`: the thread of `sentinel.c` from the warm event that creates
  it to the cold event that joins it.  `Top` is the beginning of an iteration,
  `Masters`, `Slaves` and `Unanswered` are the answers of one Sentinel during a
  discovery (without the mutex), `Connected`, `Disconnected` and `Notification`
  are the callbacks of the event loop, `Update` copies the inventory to the
  databases and sleeps.  Sentinels have views of their own, which change at any
  time (`SeenDown`, `Failover`), and publish what they see to the connections
  that are subscribed.  A time is relative to the beginning of the iteration,
  the only thing that the code compares it with.
* `TaskState`: the state of a VCL task and the methods of the databases, in any
  order.  Replies are heap objects with an address, so that leaks and dangling
  pointers are visible; the workspace is a number of bytes.  An execution (`Run`)
  is one step that sends the command or not, gets a reply or not, and leaves in
  `argv` what `redis_execute()` may leave there (`LeftIn`): the arguments, or
  EVALSHA and a digest in place of EVAL and its script, or a NULL where an
  allocation failed.  What happens in between is `CommandExecution`.  History
  variables record what the VCL asked for, what was executed for it, and the
  replies that are still allocated although nothing points to them, which not
  even the end of the task frees.
* `MC...`: instances for TLC.  `...Proofs`: the proofs.

## Runs

| Run | Instance | Shows |
|---|---|---|
| `pool_safety` | 4 workers, 2 connections, 3 addresses, times 1-2 | types, `PoolConsistent`, `ExclusiveUse`, `NoLostWakeup`, `NeverStuck`; `SharedPool` implements `PoolContract` |
| `pool_drain` | 3 workers, 1 connection, times 1-3, counters modulo 2, fairness | `StatsBalance` over the wrap around; `Drained` |
| `pool_sickness` | 2 workers, times 1-3 | **violated**: a connection older than the sickness flag is handed out |
| `discovery` | 2 threads, 3 servers of 2 weights, 2 slots, 7 replies, fairness | the registry stays consistent; topologies are replaced, slot by slot, or kept; discoveries that nothing disturbs end and ask every server before giving up |
| `discovery_loop` | 1 thread, the same replies | **violated**: endless loop with both mutexes held |
| `plan` | 4 servers (weights 0, 0, 0, 1), 1 slot, plans of 1 or 2 | plans equal their declarative description; round robin |
| `execute` | 2 servers, 2 private connections, 1 retry, 1 hop; keys of up to 5 characters out of 4 | seven invariants of command execution, among them that a plan is only exhausted after a role has changed between its halves; checksum and slot of every key and of commands of each form |
| `execute_ends` | 1 server, overflows, Sentinel, fairness | connections released, commands end |
| `execute_eval` | 1 server, 1 retry | **violated**: NOSCRIPT reaches who asked for EVAL |
| `execute_assert` | 1 server, Sentinel | **violated**: the assertion on the plan's servers fails |
| `sentinel` | 2 Sentinels, 2 servers, period of 2 s, 2 disturbances, fairness | one thread at most and none after a cold event; no change forgotten; databases converge; cold events end |
| `task` | 2 databases with different numbers of retries, 2 replies at a time, 2 arguments, 2 bytes of workspace; EVAL and another command | replies belong to who reads them; what is sent is what was asked for, or its EVALSHA; which replies are freed and which never are; bounds of arrays |

Bounds.  Two connections and four workers are the least with a wait, a barging
worker and two others whose signals cross.  Time has as many values as TTLs need
to expire, versions one change: connections get too old in `pool_drain`, where
the clock runs for longer, and sick ones are dropped in `pool_safety`, where any
free connection may be dropped for a hang up anyway, which for the pool is the
same.  Counters of statistics are modulo `StatsModulus`
(1 where they do not matter) in place of 2^64.  Three servers give lists with two
elements and a second weight; the replies are those of a cluster in formation,
resharding, failing over or restarting.  Four servers give lists of three, enough
for rotation to starve somebody.  One retry and one hop make both loops of
`cluster_execute()` and `redis_execute()` turn; attempts are counted up to
`TriesBound`, one more than allowed.  Five characters are enough for a tag of
one with a brace before, inside or after it, and all 256 bytes are checked alone.
Two Sentinels contradict each other, and two disturbances (a
server down or up, a failover, a broken connection, a server registered again)
make a failover seen by one Sentinel only, with its notification lost, or seen
by both at different moments of a discovery; with a period of two seconds there
are iterations without a discovery.  Two arguments are what an EVAL needs to be
replaced, and two bytes let a `.push()`, a plan and a replaced argument each be the
one that exhausts the workspace; two addresses let a reply be stored over
another.  `Released` is checked in `execute` without workspace overflows and in
`execute_ends` with them, on a smaller instance.  `pool_sickness` has no Sentinel
thread: with one, TLC finds the shorter way to the same violation that finding 1
mentions last, and not the one of the stale clock.  Symmetry is used for safety only.

Fairness.  `SharedPool`: each worker that is not blocked is scheduled, and
connections and commands end.  `connection_timeout` (1 s by default) and
`command_timeout` make sure of it where they are set; `command_timeout` is 0, no
limit, by default, and then the liveness results assume servers that answer or
hang up.  A server that accepts connections and then says nothing blocks whoever
waits for it, and with it the holder of `db->mutex` in a connection or a
discovery (a hazard without a property).  Arrivals,
clock, probes and spurious wakeups have none, and `Drained` is about what
happens once requests stop.  Condition variables give no order, so nothing is
promised to one particular worker while others keep barging in.
`ClusterDiscovery` and `CommandExecution`: the thread that runs goes on, for the
same reasons; `CommandExecution` takes from `SharedPool` that waits end.
`SentinelThread`: the thread and the CLI thread in `pthread_join()` go on, and
each Sentinel that is asked again and again answers again and again (strong
fairness of `Masters` and `Slaves`: one that never answers would never be
followed).  Nothing is assumed of connections, subscriptions and notifications,
so `Converges` rests on periodical discoveries, and would not hold with
`Period = 0`.

## Findings

1. *Sick connections* (`pool_sickness`, `core.c:1453`).  `now` is read before the
   mutex; a flag may carry an older time than a connection that existed when it
   was set, which is then reused although the manual says it is dropped.  The
   flag set by the Sentinel thread (`sentinel.c:1201`) has no time at all.
2. *Endless discovery* (`discovery_loop`, `cluster.c:618`).  The comment at
   `cluster.c:622` says that lists only change on success; a reply with nodes
   and no slots changes them too.
3. *NOSCRIPT after a retry* (`execute_eval`, `core.c:620`).  `argv` is left
   rewritten by a failed or redirected attempt, so the next one is an EVALSHA
   without fallback; and by a whole execution, so a second `.execute()` is.
4. *Assertion* (`execute_assert`, `core.c:1417`).  A plan made while a role changes
   may have connections and no servers.  The Sentinel thread may change it, and
   so may an `.add_server()` of a known server by another task.
5. *Replies that are never freed* (`task`, `vmod_redis.c:807`).  A second
   `.execute()` stores its reply over that of the first, and a NOSCRIPT after which
   EVAL does not fit in the workspace is dropped (`core.c:649`): they stay allocated,
   although the manual says that what `.free()` does is done automatically by the
   next command or when the task ends.  `RepliesFreed` says which replies these
   are, the ones in `forgotten`, and that there are no others; no step takes
   anything out of `forgotten`.
6. *Elements of maps and sets* (`task`, `vmod_redis.c:1077`).  `.array_reply_is_*()`
   only look at arrays, where the manual says arrays, maps and sets.  The bound
   checked by `ElementsInBounds` is for what they do look at (`LooksAt`).

## Proofs

All the theorems hold for every value of the constants that satisfies the named
assumptions of the modules: finite sets, numbers that are naturals, special
values that are not elements of the sets they stand next to, one more address of
private connections than a task may have at a time.

**`SharedPoolProofs`**: `Spec` implies `[]TypeOK`, `[]PoolConsistent`,
`[]ExclusiveUse`, `[]NoLostWakeup`, `[]StatsBalance` and, if
`MaxConnections > 0`, `[]NeverStuck`.
The inductive invariant is `PoolInv`, the conjunction of the first four.
`NoLostWakeup` is not inductive alone.  It says that while somebody waits there
are at least as many woken workers as connections to be had (`Spare`).  A worker
that takes a connection removes one of each; one that waits did so because
nothing was left, which is where `PoolConsistent` is needed: once the free list
is dropped, `ncontexts` is the number of busy contexts.  One that fails to
connect stops being a woken worker while the room it found remains, and the
signal makes up for it; `Unlock` adds a connection and signals.  `ExclusiveUse`
says that a busy context has exactly one user, so that releasing it takes one
element from the busy list.  `NeverStuck` follows: without woken or busy workers
the pool is empty and `Spare` is `MaxConnections`, which would have to be at
most 0.  `StatsAddUp` has an induction of its own on top of it, in arithmetic
modulo `StatsModulus`.

`Refinement`, `Spec => ImplementsContract`: by `PoolInv` the connections in use
are the busy list, and the test of `lock_shared_redis_context()`, made after
invalid connections were dropped, is the contract's `Exhausted`; each action is
then a step of the contract or is not seen from outside.

**`TailQueueProofs`**: lemmas about the operators, used by the modules that
follow.  The provers cannot instantiate the library's induction theorems, so
`InductionUpTo` states induction over the numbers up to `n` for a *set* of them,
from the least number of its complement, `RecursionUpTo` that a function with
given first value and step exists, and `RecursionUnique` that there is only one,
which is what makes the recursive functions of the models (`Filtered`,
`PushedAll`, `Crc16`, `Division`, `FlattenSeq` of the library) have the values
their definitions say.  On top of them: a filter keeps the elements of the set,
their order and nothing else; concatenated lists that are each in order and in
order among themselves are in order as a whole (`FlattenArranged`); and an
element moved to the tail of its new list leaves every element in its own list
and in no other (`MovedAtHome`).

**`ClusterDiscoveryProofs`**: `[]TypeOK`, `[]RegistryConsistent`,
`[]TopologyMatchesReply`, `[]KeptUntilFound` and `[]TopologyNeverLost`, for any
servers, weights, slots and replies.  They need each other, and one more fact,
`FoundMeansSlots`: while `found` is false no node registered so far had slots,
so that the first ones are the whole of what was reported; once it is true there
are slots, which makes a successful discovery keep `TopologyNeverLost`.
That property excepts `Replacing`, from the first server that is reset to the
first slot that is set, which only a thread that reads slots without the mutex
can see; `KeptUntilFound` says what such a thread finds meanwhile: of each server
the old slots or none.
`NobodyLeftOut` is the action property `EveryServerAsked`.  It needs an invariant
of the loops, `WalkInv`: as long as no reply has moved servers, the lists before
that of the loop have been asked to their last server, and the list of the loop
up to the server asked last, which is still in that list, so that
`VTAILQ_NEXT()` stays in it.

**`ExecutionPlanProofs`**: `[]TypeOK`, `[]ListsConsistent`, `[]PlanIsBest` and
`[]RoundRobin`, for any servers, weights, slots and sizes of plans.  That a plan
is the best one follows from what the rounds are: each is a concatenation of
filtered lists, so that servers come in the order of rounds, weights and roles,
and the counter shared by the nested loops cuts the result but never skips
anybody.  `RoundRobin` is not inductive.  `TurnsInv` is: the number of times a
server was passed over plus its place in its list never exceeds the number of
servers, because each plan that passes it over takes a server from before it and
puts that one at the tail.

`PlanKeepsPromise` puts the two modules about plans together: whatever the rounds
have chosen is one of the plans of `Plans`.  `CommandExecution` lets a command go
on with any of these, so what is checked and proved of it is about the plans that
the rounds really make.

**`CommandExecutionProofs`**: `[]TypeOK`, `[]NoDanglingContext`,
`[]NeverSentWhenBroken`, `[]RedirectionObeyed`, `[]Released` and
`[]AttemptsBounded`, with workspace overflows, evictions, concurrent discoveries
and a Sentinel thread, for any number of servers, connections, retries and hops.
The inductive invariant `CommandInv` says which connections exist where
(`PoolInv`), that the one in use is private to the task or of a pool and leads
to the server of the redirection (`HeldInv`), that those of a plan still exist,
are sound, are not in use and lead there too (`PlanInv`), and how many attempts
the retries and hops made so far account for (`TriesInv`).  A command that fails
breaks the connection it used, so the plan that the next attempt goes on
with must not contain that one.  `PlanSuffices` is about the assertion that fails in `execute_assert`:
without workspace overflows it can only fail for private connections of a
standalone database, and only if a role, of whatever server and changed by
whomever, has changed between the two halves of the plan
(`ExhaustedByChangesOnly`).  In all other cases a plan without servers has as many
connections as there are retries left (`Enough`): if the roles are those that
the connections were chosen by, the servers of these connections are acceptable.

**`SentinelThreadProofs`**: `[]TypeOK`, `[]ThreadOwned` and `[]DatabaseFollows`.
`ThreadStates` strengthens them: a warm VCL has a thread exactly if it is
active, and one in the middle of a cold event is not active.  The core of
`DatabaseFollows` is that whatever changes the inventory stamps it with a time
that the same iteration will find recent enough (`StampedFollows`).  The roles of the database are unknown (TBD) at
first, so that a role which is known and never copied violates it, and
`Converges` as well; both accept a role given by an `.add_server()` since the
last copy ("theirs"), as the thread does not look at what the database has.

**`TaskStateProofs`**: `[]TypeOK`, `[]OwnReply`, `[]RepliesFreed`,
`[]ElementsInBounds` and `[]SentAsAsked`.  For the replies, the invariant adds
that the one pointed to is that of the last execution (`ReplyOfLast`) and that
the heap holds replies.  For what is sent, `ArgsInv` says that the arguments are
those asked for, up to the limit, *or the workspace is full* (`Following`): a
full workspace stays full until the task ends, and nothing is sent without
room for a plan.  What an execution leaves in `argv` is a copy of what was asked
for (`Plain`), that copy with EVALSHA and the digest of its script (`Replaced`), or
has a NULL, with which nothing is sent (`LeftOver`).  The pushes of `.easy_execute()` are an induction over its
arguments (`PushedAllFollows`).

**`KeySlotProofs`**: `[]Crc16IsXmodem` and `[]SlotOfCommand`, and what they rest
on, which is about sequences of any length: `Crc16Correct`, the loop of `crc16()`
computes the remainder of the polynomial division, and `TagHashed`, the two
searches of `get_cluster_slot()` find the hash tag.  One turn of the loop
(`OneMoreChar`) takes the division of a message followed by 16 zeros to that of
the message, one more byte and 16 zeros.  The argument is that division is linear:
with the exclusive or of two polynomials goes the exclusive or of their
remainders (`DivisionSum`), an induction over the bits from one step of the
division (`DivideSum`).  So the high byte of the rest and the new byte can be
added first and looked up together (`EntrySum`), while the low byte of the rest
is only shifted (`DivisionShift`).  What the 256 entries of the table are,
`TableAssumption`, and the check value given in the comment of `crc16.c`,
`CheckAssumption`, are computations without variables: TLC evaluates them, as
`ASSUME`s of the module, and the proofs use the outcome.  `SlotsOfCommands` is for
commands with their first key where `get_key_index()` looks for it
(`KeysWhereSearched`).  The code assumes that of the commands that are not in its
two lists, and leaves the others to redirections, as its comment says
(`cluster.c:640`); the constant `KeyOf` of the run satisfies it.

Only model-checked: everything that needs fairness (`Drained`,
`OrderlyDiscoveryEnds`, `CommandEnds`, `Converges`, `ColdEventEnds`), which is out
of the prover's reach.

## Not modelled

* Formatting of replies, statistics and logs; parsing of locations and rules:
  text in, text out, without state.
* SHA-1: third-party code; a script has a digest.
* TLS, AUTH and HELLO: a connection is established or it is not.
* Load and discard events, `redis.sentinels()`, `redis.weights()` and
  constructors: they store configuration once, in `vcl_init` or before any
  other thread is there.  `unsafe_sentinel_discovery()` is never called.
* `max_connections = 0`, `max_cluster_hops = 0` (no limit) and negative retries:
  configurations for which nothing is promised.
* Several databases that share the private connections of a task (see
  `CommandExecution` above).
* The order of the two mutexes: every section under both is one step.
* A wall clock that goes back: the Sentinel thread would take a change for an
  old one and copy it with the next change.
* `.counter()` reads statistics without the mutex; a torn or late read of one
  counter is all that can happen.

## Plan

Done: all the modules above; every invariant and action property that the
passing runs check is proved, and the promise about plans that
`CommandExecution` relies on.  Left: the same for connections, a
`CommandExecution` with several workers on top of `PoolContract`, and properties
for the hazards of `PROJECT.json` that have none.
