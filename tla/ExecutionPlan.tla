----------------------------- MODULE ExecutionPlan -----------------------------
(***************************************************************************)
(* The servers a command may be sent to, in the order in which they will   *)
(* be tried: the part of populate_execution_plan() (core.c) that runs with *)
(* db->mutex held.  It chooses the servers in rounds over the lists of     *)
(* db->servers, and rotates the lists it takes servers from.               *)
(***************************************************************************)
EXTENDS ServerLists

CONSTANTS
    Slots,   \* slots of the cluster
    MaxSize  \* bound: largest plan asked for (1 + max_retries)

ASSUME SizesAssumption == MaxSize \in Nat

NoPlan == [size |-> 0, list |-> << >>]

VARIABLES
    clustered,  \* db->cluster.enabled
    servers,    \* db->servers
    role,       \* server->role
    slots,      \* server->cluster.slots
    sick,       \* servers with server->sickness.exp > now
    plan,       \* a plan just made (its arguments and plan->servers.list)
    skipped     \* history: plans in a row that took another server first

vars == <<clustered, servers, role, slots, sick, plan, skipped>>

-----------------------------------------------------------------------------
(***************************************************************************)
(* The rounds.                                                             *)
(***************************************************************************)

\* Mutant of Considered: servers of unknown role are forgotten.
ConsideredKnown(round, l, master) == master => RoleOf(l) = Master

\* The list is considered in this round.
Considered(round, l, master) ==
    master => RoleOf(l) = Master \/ (round = 2 /\ RoleOf(l) = TBD)

Serves(s, slot) == clustered => slot \in slots[s]

\* The server matches the conditions of the round.  Rounds 3 and 4 are for a
\* cluster in which nobody is known to serve the slot.
Matches(s, round, master, slot) ==
    CASE round = 1 -> Serves(s, slot) /\ s \notin sick
      [] round = 2 -> Serves(s, slot) /\ (s \in sick \/ (master /\ role[s] = TBD))
      [] round = 3 -> s \notin sick
      [] round = 4 -> s \in sick

\* The matching servers of a list, in its order.
Matching(round, l, master, slot) ==
    IF round \in {3, 4} \/ Considered(round, l, master)
    THEN Filtered(servers[l], {s \in Servers : Matches(s, round, master, slot)})
    ELSE << >>

\* The matching servers of the lists before list l.
MatchingBefore(round, l, master, slot) ==
    FlattenSeq([k \in 1 .. l |-> Matching(round, k - 1, master, slot)])

MatchingAll(round, master, slot) ==
    MatchingBefore(round, 3 * Weights, master, slot)

\* Mutant of PlanServers: the second round forgets what is left to choose.
PlanServersUnbounded(master, slot, remaining) ==
    FirstOf(MatchingAll(1, master, slot), remaining)
      \o FirstOf(MatchingAll(2, master, slot), remaining)

\* plan->servers.list.
PlanServers(master, slot, remaining) ==
    IF ~clustered
    THEN FirstOf(MatchingAll(1, master, slot) \o MatchingAll(2, master, slot), remaining)
    ELSE LET owners == FirstOf(MatchingAll(1, master, slot), remaining)
         IN  IF owners # << >> THEN owners
             ELSE FirstOf(MatchingAll(3, master, slot) \o MatchingAll(4, master, slot),
                          remaining)

\* Servers were taken from list l in the first round, before "remaining"
\* was exhausted.
TakenFrom(l, master, slot, remaining) ==
    /\ Matching(1, l, master, slot) # << >>
    /\ Len(MatchingBefore(1, l, master, slot)) < remaining

\* Mutant of Rotated: the servers are not removed before they are appended.
RotatedTwice(master, slot, remaining) ==
    [l \in Lists |->
       IF TakenFrom(l, master, slot, remaining)
       THEN Append(servers[l], Head(Matching(1, l, master, slot)))
       ELSE servers[l]]

\* Mutant of Rotated: the lists are left as they are.
RotatedNever(master, slot, remaining) == servers

\* The lists, with the first server taken from each one at its tail.
Rotated(master, slot, remaining) ==
    [l \in Lists |->
       IF TakenFrom(l, master, slot, remaining)
       THEN LET first == Head(Matching(1, l, master, slot))
            IN  Append(Removed(servers[l], first), first)
       ELSE servers[l]]

-----------------------------------------------------------------------------
(***************************************************************************)
(* Actions.                                                                *)
(***************************************************************************)

Known == InSomeList(servers)

\* s could have been first, and some server of its list was.
Candidate(s, master, slot, remaining) ==
    LET l == List(s, role[s])
    IN  /\ s \in ToSet(Matching(1, l, master, slot))
        /\ TakenFrom(l, master, slot, remaining)

\* populate_execution_plan(), for a command that may still be sent to
\* "remaining" servers.
Plan(master, slot, remaining) ==
    /\ plan' = [master |-> master, slot |-> slot, size |-> remaining,
                list |-> PlanServers(master, slot, remaining)]
    /\ servers' = Rotated(master, slot, remaining)
    /\ skipped' = [s \in Servers |->
                     IF ~Candidate(s, master, slot, remaining) THEN skipped[s]
                     ELSE IF s = Head(Matching(1, List(s, role[s]), master, slot)) THEN 0
                     ELSE skipped[s] + 1]
    /\ UNCHANGED <<clustered, role, slots, sick>>

\* unsafe_add_redis_server() and unsafe_update_dbs_aux(): a server is added,
\* updated, or changes its role.
Register(s, r) ==
    /\ servers' = MovedTo(servers, s, r)
    /\ role' = [role EXCEPT ![s] = r]
    /\ skipped' = [skipped EXCEPT ![s] = 0]
    /\ plan' = NoPlan
    /\ UNCHANGED <<clustered, slots, sick>>

\* unsafe_discover_slots_aux().
AssignSlots(s, new) ==
    /\ clustered
    /\ s \in Known
    /\ slots' = [slots EXCEPT ![s] = new]
    /\ plan' = NoPlan
    /\ UNCHANGED <<clustered, servers, role, sick, skipped>>

\* The sickness flag is set, or it is cleared or expires.
ChangeSickness(s) ==
    /\ s \in Known
    /\ sick' = IF s \in sick THEN sick \ {s} ELSE sick \union {s}
    /\ plan' = NoPlan
    /\ UNCHANGED <<clustered, servers, role, slots, skipped>>

Init ==
    /\ clustered \in BOOLEAN
    /\ servers = [l \in Lists |-> << >>]
    /\ role = [s \in Servers |-> TBD]
    /\ slots = [s \in Servers |-> {}]
    /\ sick = {}
    /\ plan = NoPlan
    /\ skipped = [s \in Servers |-> 0]

Next ==
    \/ \E master \in BOOLEAN, slot \in Slots, remaining \in 1 .. MaxSize :
         Plan(master, slot, remaining)
    \/ \E s \in Servers, r \in Roles : Register(s, r)
    \/ \E s \in Servers, new \in SUBSET Slots : AssignSlots(s, new)
    \/ \E s \in Servers : ChangeSickness(s)

Spec == Init /\ [][Next]_vars

-----------------------------------------------------------------------------
(***************************************************************************)
(* Properties.                                                             *)
(***************************************************************************)

\* Every variable has its type, and a plan is never larger than asked for.
TypeOK ==
    /\ clustered \in BOOLEAN
    /\ servers \in [Lists -> Seq(Servers)]
    /\ role \in [Servers -> Roles]
    /\ slots \in [Servers -> SUBSET Slots]
    /\ sick \in SUBSET Servers
    /\ plan.list \in Seq(Servers)
    /\ Len(plan.list) <= plan.size
    /\ skipped \in [Servers -> Nat]

\* What populate_execution_plan() asserts of each server it walks over
\* ("iserver->weight == iweight", "iserver->role == irole"), and that no
\* server is listed twice: rotations and changes of role keep it so.
ListsConsistent == ListsMatchRoles(servers, role)

\* Servers that can take the command at first sight.
Preferred ==
    {s \in Known : /\ Serves(s, plan.slot)
                   /\ s \notin sick
                   /\ plan.master => role[s] = Master}

\* Servers of the plan if it were as large as possible: in a cluster those
\* that serve the slot or, if there are none, any server, as it will know
\* who does; elsewhere all the servers that are not known to be slaves when
\* a master is required.
Acceptable ==
    IF clustered THEN IF Preferred # {} THEN Preferred ELSE Known
    ELSE {s \in Known : plan.master => role[s] # Slave}

\* The order they are tried in: healthy servers (of a known role, when a
\* master is required) first, then by weight, then slaves before masters.
Position(s) ==
    <<IF clustered /\ Preferred = {} THEN s \in sick ELSE s \notin Preferred,
      List(s, role[s])>>

Before(p, q) == (~p[1] /\ q[1]) \/ (p[1] = q[1] /\ p[2] < q[2])

\* The rounds, loops and counters build the plan these definitions describe:
\* different servers, the best ones there are, best first, and as many as
\* asked for.  In particular no plan is empty while an acceptable server is
\* known; a command that requires a master may go to a slave in the third and
\* fourth rounds of a cluster only, when no healthy master of the slot is known.
PlanIsBest ==
    plan # NoPlan =>
      LET chosen == ToSet(plan.list)
      IN  /\ chosen \subseteq Acceptable
          /\ \A j, k \in DOMAIN plan.list :
               j < k => /\ plan.list[j] # plan.list[k]
                        /\ ~Before(Position(plan.list[k]), Position(plan.list[j]))
          /\ \A s \in chosen, t \in Acceptable \ chosen : ~Before(Position(t), Position(s))
          /\ Len(plan.list) = plan.size \/ chosen = Acceptable

\* "This ensures a nice distribution of load between all servers": a healthy
\* server is not passed over for ever, since each plan that takes another
\* server of its list first brings it one place nearer to the head.
RoundRobin == \A s \in Servers : skipped[s] < Cardinality(Servers)
=============================================================================
