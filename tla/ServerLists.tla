----------------------------- MODULE ServerLists -----------------------------
(***************************************************************************)
(* db->servers (core.h): the servers of a database, in one list for each   *)
(* weight and role.  The operators shared by the modules that change those *)
(* lists (ClusterDiscovery) and that walk them (ExecutionPlan).            *)
(***************************************************************************)
EXTENDS TailQueues

CONSTANTS
    Servers,  \* locations ("host:port") of servers
    Weights,  \* NREDIS_SERVER_WEIGHTS
    Weight    \* the weight the weight rules give to each location

ASSUME WeightsAssumption ==
    /\ IsFiniteSet(Servers)
    /\ Weights \in Nat \ {0}
    /\ Weight \in [Servers -> 0 .. Weights - 1]

\* enum REDIS_SERVER_ROLE, whose order is the one of the loops.
Slave == 0
Master == 1
TBD == 2
Roles == {Slave, Master, TBD}

\* servers[weight][role] is list 3 * weight + role: the loops over weights and
\* then roles visit the lists in this order.
List(s, r) == 3 * Weight[s] + r
RoleOf(l) == l % 3
Lists == 0 .. 3 * Weights - 1

InSomeList(lists) == UNION {ToSet(lists[l]) : l \in Lists}

\* Mutant of MovedTo: the server is not removed from the list it was in.
InsertedInto(lists, s, r) == [lists EXCEPT ![List(s, r)] = Append(@, s)]

\* The server leaves the list it is in, if any, for the tail of the list of
\* role r.
MovedTo(lists, s, r) ==
    [l \in Lists |-> IF l = List(s, r)
                     THEN Append(Removed(lists[l], s), s)
                     ELSE Removed(lists[l], s)]

\* A server is in one place of one list, the one its weight and its role
\* name.
ListsMatchRoles(lists, role) ==
    \A l \in Lists : \A k \in DOMAIN lists[l] :
      LET s == lists[l][k]
      IN  /\ l = List(s, role[s])
          /\ \A j \in DOMAIN lists[l] : lists[l][j] = s => j = k
=============================================================================
