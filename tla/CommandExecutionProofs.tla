------------------------ MODULE CommandExecutionProofs ------------------------
(***************************************************************************)
(* CommandExecution: the connections that a command uses, the servers it   *)
(* is sent to and how often, for any servers, connections, limits, replies *)
(* and changes of the topology.                                            *)
(***************************************************************************)
EXTENDS CommandExecution, TailQueueProofs, FiniteSetTheorems

-----------------------------------------------------------------------------
(***************************************************************************)
(* The inductive invariant.                                                *)
(***************************************************************************)

\* A plan is made, or followed; the next connection is in use.
Planning == {"servers", "planned", "lock", "send", "resend", "update"}
Using == {"send", "resend", "update"}
Labels == {"idle", "contexts", "returned", "done", "panic"} \union Planning

Types ==
    /\ TypeOK
    /\ pc \in Labels
    /\ clustered \in BOOLEAN /\ shared \in BOOLEAN /\ master \in BOOLEAN /\ asking \in BOOLEAN
    /\ plan = [contexts |-> plan.contexts, servers |-> plan.servers]
    /\ tries \in Nat

\* The private connections are different, and are to servers; only they, or
\* the shared one in use, may be in an error state.
PoolInv ==
    /\ Injective(contexts)
    /\ \A c \in ToSet(contexts) : on[c] \in Servers
    /\ shared => contexts = << >> /\ broken \subseteq {held}
    /\ ~shared => broken \subseteq ToSet(contexts)

\* The connection in use is to the server of the redirection, if there has
\* been one, and may be sent a command.
HeldInv ==
    /\ held # NoContext =>
         /\ pc \in Using
         /\ on[held] \in Servers
         /\ ~shared => held \in ToSet(contexts)
         /\ server # NoServer => on[held] = server
    /\ pc \in {"send", "resend"} => held # NoContext /\ held \notin broken

\* The connections of a plan are among the private ones, in no error state,
\* not in use and to the server of the redirection, if there has been one; no
\* other server is in the plan then.
PlanInv ==
    /\ pc \in {"idle", "contexts", "done"} => plan = NoPlan
    /\ pc \in Planning =>
         /\ Injective(plan.contexts)
         /\ \A c \in ToSet(plan.contexts) :
              /\ c \in ToSet(contexts) /\ c \notin broken /\ c # held
              /\ server # NoServer => on[c] = server
         /\ server # NoServer => \A s \in ToSet(plan.servers) : s = server

ServerInv ==
    /\ asking => server # NoServer
    /\ ~clustered => server = NoServer
    /\ reply.type \in {"moved", "ask"} => reply.target \in Servers

\* Redirections followed so far.
Followed == IF clustered THEN MaxHops - hops ELSE 0

TriesInv ==
    /\ pc \in {"contexts", "servers", "planned", "lock"} => tries <= retries + Followed
    /\ pc \in Using \union {"returned"} => tries <= retries + Followed + 1
    /\ AttemptsBounded

\* The plan suffices for the retries that are left, plus n.
Enough(n) == plan.servers # << >> \/ Len(plan.contexts) >= MaxRetries - retries + n

\* What keeps the plan from being exhausted while the workspace suffices.
EnoughInv ==
    /\ pc # "panic"
    /\ pc \in {"contexts", "servers"} => retries = 0 \/ server # NoServer
    /\ pc = "servers" /\ ~clustered /\ plan.contexts # << >> =>
         \E s \in Servers : master => role[s] = "master"
    /\ pc = "planned" => plan = NoPlan \/ Enough(1)
    /\ pc = "lock" => Enough(1)
    /\ pc \in Using => Enough(0)

CommandInv == Types /\ PoolInv /\ HeldInv /\ PlanInv /\ ServerInv /\ TriesInv

\* A role has changed between the choice of the private connections and that
\* of the servers, so that they may disagree on whether there is any server.
Changed == ~clustered /\ ~shared /\ changed

\* Nothing but that, or a workspace without room, exhausts a plan.
SufficientInv == WorkspaceOverflows \/ Changed \/ EnoughInv

-----------------------------------------------------------------------------
(***************************************************************************)
(* Steps.                                                                  *)
(***************************************************************************)

\* vmod_db_execute() starts a command.
LEMMA ExecuteStep ==
    ASSUME CommandInv, NEW n, NEW m \in BOOLEAN, Execute(n, m)
    PROVE  CommandInv'
  <1> USE DEF CommandInv, Execute, database, pool, call, loop
  <1>1. Types'
    BY NumbersAssumption DEF Types, TypeOK, Labels, Planning, NoPlan, Roles, Reply, Null
  <1>2. PoolInv'
    BY DEF PoolInv, HeldInv, Using
  <1>3. HeldInv'
    BY DEF HeldInv, Using
  <1>4. PlanInv'
    BY DEF PlanInv, Planning, NoPlan, Injective, ToSet
  <1>5. ServerInv'
    BY DEF ServerInv, Null
  <1>6. TriesInv'
    BY NumbersAssumption DEF TriesInv, Types, TypeOK, Followed, Using, AttemptsBounded
  <1> QED
    BY <1>1, <1>2, <1>3, <1>4, <1>5, <1>6

\* ... or the same one again.
LEMMA ExecuteAgainStep ==
    ASSUME CommandInv, NEW m \in BOOLEAN, ExecuteAgain(m)
    PROVE  CommandInv'
  <1> USE DEF CommandInv, ExecuteAgain, database, pool, call, loop
  <1>1. Types'
    BY NumbersAssumption DEF Types, TypeOK, Labels, Planning, NoPlan, Roles, Reply, Null
  <1>2. PoolInv'
    BY DEF PoolInv, HeldInv, Using
  <1>3. HeldInv'
    BY DEF HeldInv, Using
  <1>4. PlanInv'
    BY DEF PlanInv, Planning, NoPlan, Injective, ToSet
  <1>5. ServerInv'
    BY DEF ServerInv, Null
  <1>6. TriesInv'
    BY NumbersAssumption DEF TriesInv, Types, TypeOK, Followed, Using, AttemptsBounded
  <1> QED
    BY <1>1, <1>2, <1>3, <1>4, <1>5, <1>6

\* cluster_execute() rejects a command without a key.
LEMMA RejectStep ==
    ASSUME CommandInv, Reject
    PROVE  CommandInv'
  <1> USE DEF CommandInv, Reject, database, pool, call, loop
  <1>1. Types'
    BY NumbersAssumption DEF Types, TypeOK, Labels, Planning, NoPlan, Roles, Reply, Null
  <1>2. PoolInv'
    BY DEF PoolInv, HeldInv, Using
  <1>3. HeldInv'
    BY DEF HeldInv, Using
  <1>4. PlanInv'
    BY DEF PlanInv, Planning, NoPlan, Injective, ToSet
  <1>5. ServerInv'
    BY DEF ServerInv, Null
  <1>6. TriesInv'
    BY NumbersAssumption DEF TriesInv, Types, TypeOK, Followed, Using, AttemptsBounded
  <1> QED
    BY <1>1, <1>2, <1>3, <1>4, <1>5, <1>6

\* Shared connections are not in the plan.
LEMMA SkipContextsStep ==
    ASSUME CommandInv, SkipContexts
    PROVE  CommandInv'
  <1> USE DEF CommandInv, SkipContexts, database, pool, call, loop
  <1>1. Types'
    BY NumbersAssumption DEF Types, TypeOK, Labels, Planning, NoPlan, Roles, Reply, Null
  <1>2. PoolInv'
    BY DEF PoolInv, HeldInv, Using
  <1>3. HeldInv'
    BY DEF HeldInv, Using
  <1>4. PlanInv'
    BY DEF PlanInv, Planning, NoPlan, Injective, ToSet
  <1>5. ServerInv'
    BY DEF ServerInv, Null
  <1>6. TriesInv'
    BY NumbersAssumption DEF TriesInv, Types, TypeOK, Followed, Using, AttemptsBounded
  <1> QED
    BY <1>1, <1>2, <1>3, <1>4, <1>5, <1>6

\* The servers of the plan do not fit in the workspace.
LEMMA OverflowServersStep ==
    ASSUME CommandInv, OverflowServers
    PROVE  CommandInv'
  <1> USE DEF CommandInv, OverflowServers, database, pool, call, loop
  <1>1. Types'
    BY NumbersAssumption DEF Types, TypeOK, Labels, Planning, NoPlan, Roles, Reply, Null
  <1>2. PoolInv'
    BY DEF PoolInv, HeldInv, Using
  <1>3. HeldInv'
    BY DEF HeldInv, Using
  <1>4. PlanInv'
    BY DEF PlanInv, Planning, NoPlan, Injective, ToSet
  <1>5. ServerInv'
    BY DEF ServerInv, Null
  <1>6. TriesInv'
    BY NumbersAssumption DEF TriesInv, Types, TypeOK, Followed, Using, AttemptsBounded
  <1> QED
    BY <1>1, <1>2, <1>3, <1>4, <1>5, <1>6

\* redis_execute() gives up for lack of a plan.
LEMMA EmptyPlanStep ==
    ASSUME CommandInv, EmptyPlan
    PROVE  CommandInv'
  <1> USE DEF CommandInv, EmptyPlan, database, pool, call, loop
  <1>1. Types'
    BY NumbersAssumption DEF Types, TypeOK, Labels, Planning, NoPlan, Roles, Reply, Null
  <1>2. PoolInv'
    BY DEF PoolInv, HeldInv, Using
  <1>3. HeldInv'
    BY DEF HeldInv, Using
  <1>4. PlanInv'
    BY DEF PlanInv, Planning, NoPlan, Injective, ToSet
  <1>5. ServerInv'
    BY DEF ServerInv, Null
  <1>6. TriesInv'
    BY NumbersAssumption DEF TriesInv, Types, TypeOK, Followed, Using, AttemptsBounded
  <1> QED
    BY <1>1, <1>2, <1>3, <1>4, <1>5, <1>6

\* redis_execute() starts to follow the plan.
LEMMA StartPlanStep ==
    ASSUME CommandInv, StartPlan
    PROVE  CommandInv'
  <1> USE DEF CommandInv, StartPlan, database, pool, call, loop
  <1>1. Types'
    BY NumbersAssumption DEF Types, TypeOK, Labels, Planning, NoPlan, Roles, Reply, Null
  <1>2. PoolInv'
    BY DEF PoolInv, HeldInv, Using
  <1>3. HeldInv'
    BY DEF HeldInv, Using
  <1>4. PlanInv'
    BY DEF PlanInv, Planning, NoPlan, Injective, ToSet
  <1>5. ServerInv'
    BY DEF ServerInv, Null
  <1>6. TriesInv'
    BY NumbersAssumption DEF TriesInv, Types, TypeOK, Followed, Using, AttemptsBounded
  <1> QED
    BY <1>1, <1>2, <1>3, <1>4, <1>5, <1>6

\* lock_redis_context() finds the plan exhausted.
LEMMA AssertFailsStep ==
    ASSUME CommandInv, AssertFails
    PROVE  CommandInv'
  <1> USE DEF CommandInv, AssertFails, database, pool, call, loop
  <1>1. Types'
    BY NumbersAssumption DEF Types, TypeOK, Labels, Planning, NoPlan, Roles, Reply, Null
  <1>2. PoolInv'
    BY DEF PoolInv, HeldInv, Using
  <1>3. HeldInv'
    BY DEF HeldInv, Using
  <1>4. PlanInv'
    BY DEF PlanInv, Planning, NoPlan, Injective, ToSet
  <1>5. ServerInv'
    BY DEF ServerInv, Null
  <1>6. TriesInv'
    BY NumbersAssumption DEF TriesInv, Types, TypeOK, Followed, Using, AttemptsBounded
  <1> QED
    BY <1>1, <1>2, <1>3, <1>4, <1>5, <1>6

\* The reply is given to the caller.
LEMMA FinishStep ==
    ASSUME CommandInv, Finish
    PROVE  CommandInv'
  <1> USE DEF CommandInv, Finish, database, pool, call, loop
  <1>1. Types'
    <2>1. plan' = NoPlan /\ plan'.contexts = << >> /\ plan'.servers = << >>
      BY DEF NoPlan
    <2>2. << >> \in Seq(Contexts) /\ << >> \in Seq(Servers)
      OBVIOUS
    <2> QED
      BY <2>1, <2>2, NumbersAssumption DEF Types, TypeOK, Labels, NoPlan
  <1>2. PoolInv'
    BY DEF PoolInv, HeldInv, Using
  <1>3. HeldInv'
    BY DEF HeldInv, Using
  <1>4. PlanInv'
    BY DEF PlanInv, Planning, NoPlan, Injective, ToSet
  <1>5. ServerInv'
    BY DEF ServerInv, Null
  <1>6. TriesInv'
    BY NumbersAssumption DEF TriesInv, Types, TypeOK, Followed, Using, AttemptsBounded
  <1> QED
    BY <1>1, <1>2, <1>3, <1>4, <1>5, <1>6

\* The caller is done with the reply.
LEMMA FreeReplyStep ==
    ASSUME CommandInv, FreeReply
    PROVE  CommandInv'
  <1> USE DEF CommandInv, FreeReply, database, pool, call, loop
  <1>1. Types'
    BY NumbersAssumption DEF Types, TypeOK, Labels, Planning, NoPlan, Roles, Reply, Null
  <1>2. PoolInv'
    BY DEF PoolInv, HeldInv, Using
  <1>3. HeldInv'
    BY DEF HeldInv, Using
  <1>4. PlanInv'
    BY DEF PlanInv, Planning, NoPlan, Injective, ToSet
  <1>5. ServerInv'
    BY DEF ServerInv, Null
  <1>6. TriesInv'
    BY NumbersAssumption DEF TriesInv, Types, TypeOK, Followed, Using, AttemptsBounded
  <1> QED
    BY <1>1, <1>2, <1>3, <1>4, <1>5, <1>6

\* The Sentinel thread or another worker changes a role, by itself or by a
\* .add_server() of its task.
LEMMA ChangeRoleStep ==
    ASSUME CommandInv, NEW s \in Servers, NEW r \in {"slave", "master"}, ChangeRole(s, r)
    PROVE  CommandInv'
  <1> USE DEF CommandInv, ChangeRole, database, pool, call, loop
  <1>1. Types'
    BY NumbersAssumption DEF Types, TypeOK, Labels, Planning, NoPlan, Roles, Reply, Null
  <1>2. PoolInv'
    BY DEF PoolInv, HeldInv, Using
  <1>3. HeldInv'
    BY DEF HeldInv, Using
  <1>4. PlanInv'
    BY DEF PlanInv, Planning, NoPlan, Injective, ToSet
  <1>5. ServerInv'
    BY DEF ServerInv, Null
  <1>6. TriesInv'
    BY NumbersAssumption DEF TriesInv, Types, TypeOK, Followed, Using, AttemptsBounded
  <1> QED
    BY <1>1, <1>2, <1>3, <1>4, <1>5, <1>6

\* Another worker discovers a change of slots.
LEMMA ChangeOwnerStep ==
    ASSUME CommandInv, NEW s \in Servers, ChangeOwner(s)
    PROVE  CommandInv'
  <1> USE DEF CommandInv, ChangeOwner, database, pool, call, loop
  <1>1. Types'
    BY NumbersAssumption DEF Types, TypeOK, Labels, Planning, NoPlan, Roles, Reply, Null
  <1>2. PoolInv'
    BY DEF PoolInv, HeldInv, Using
  <1>3. HeldInv'
    BY DEF HeldInv, Using
  <1>4. PlanInv'
    BY DEF PlanInv, Planning, NoPlan, Injective, ToSet
  <1>5. ServerInv'
    BY DEF ServerInv, Null
  <1>6. TriesInv'
    BY NumbersAssumption DEF TriesInv, Types, TypeOK, Followed, Using, AttemptsBounded
  <1> QED
    BY <1>1, <1>2, <1>3, <1>4, <1>5, <1>6

\* A server loses its script cache.
LEMMA RestartStep ==
    ASSUME CommandInv, NEW s \in Servers, Restart(s)
    PROVE  CommandInv'
  <1> USE DEF CommandInv, Restart, database, pool, call, loop
  <1>1. Types'
    BY NumbersAssumption DEF Types, TypeOK, Labels, Planning, NoPlan, Roles, Reply, Null
  <1>2. PoolInv'
    BY DEF PoolInv, HeldInv, Using
  <1>3. HeldInv'
    BY DEF HeldInv, Using
  <1>4. PlanInv'
    BY DEF PlanInv, Planning, NoPlan, Injective, ToSet
  <1>5. ServerInv'
    BY DEF ServerInv, Null
  <1>6. TriesInv'
    BY NumbersAssumption DEF TriesInv, Types, TypeOK, Followed, Using, AttemptsBounded
  <1> QED
    BY <1>1, <1>2, <1>3, <1>4, <1>5, <1>6

\* The private connections once those of D have been dropped.
LEMMA Dropping ==
    ASSUME Types, PoolInv, NEW D
    PROVE  /\ Filtered(contexts, Contexts \ D) \in Seq(Contexts)
           /\ Len(Filtered(contexts, Contexts \ D)) <= Len(contexts)
           /\ ToSet(Filtered(contexts, Contexts \ D)) = ToSet(contexts) \ D
           /\ Injective(Filtered(contexts, Contexts \ D))
           /\ ToSet(contexts) \cap D = {}
                \/ Len(Filtered(contexts, Contexts \ D)) < Len(contexts)
  <1>1. contexts \in Seq(Contexts) /\ Injective(contexts)
    BY DEF Types, TypeOK, PoolInv
  <1>2. ToSet(contexts) \subseteq Contexts
    BY <1>1, ElementOfSeq DEF ToSet
  <1> DEFINE S == Contexts \ D
             kept == Filtered(contexts, S)
  <1>3. /\ kept \in Seq(Contexts) /\ Len(kept) <= Len(contexts)
        /\ ToSet(kept) = ToSet(contexts) \cap S
        /\ ToSet(contexts) \subseteq S \/ Len(kept) < Len(contexts)
        /\ Injective(kept)
    BY <1>1, FilteredElements
  <1>4. ToSet(contexts) \cap S = ToSet(contexts) \ D
    BY <1>2
  <1>5. ToSet(contexts) \subseteq S => ToSet(contexts) \cap D = {}
    BY <1>2
  <1> HIDE DEF kept
  <1> QED
    BY <1>3, <1>4, <1>5 DEF kept, S

\* The number of connections and servers that are needed.
LEMMA SizeType == Types => Size \in Nat
  BY NumbersAssumption DEF Types, TypeOK, Size

\* What a scan of the private connections leaves: valid connections in the
\* plan, and none of those it drops.
LEMMA ScanContextsEffect ==
    ASSUME Types, PoolInv, ScanContexts
    PROVE  /\ contexts' \in Seq(Contexts) /\ Injective(contexts')
           /\ Len(contexts') <= Len(contexts)
           /\ plan'.contexts \in Seq(Contexts) /\ Injective(plan'.contexts)
           /\ plan' = [contexts |-> plan'.contexts, servers |-> << >>]
           /\ plan'.servers = << >>
           /\ \A c \in ToSet(plan'.contexts) :
                c \in ToSet(contexts) /\ c \in ToSet(contexts') /\ Suits(c) /\ c \notin broken
           /\ \E D : /\ ToSet(contexts') = ToSet(contexts) \ D
                     /\ broken' = broken \ D
                     /\ on' = [c \in Contexts |-> IF c \in D THEN NoServer ELSE on[c]]
  <1>1. PICK stale \in SUBSET ToSet(contexts) :
         LET valid == ValidContexts(stale)
             chosen == IF Size = 0 THEN valid ELSE FirstOf(valid, Size)
             stop == IF chosen # << >> /\ Len(chosen) = Size
                     THEN IndexOf(contexts, Last(chosen))
                     ELSE Len(contexts)
             dropped == {c \in {contexts[k] : k \in 1 .. stop} :
                           Suits(c) /\ ~Valid(c, stale)}
             left == Filtered(contexts, Contexts \ dropped)
         IN  /\ contexts' = IF server = NoServer /\ chosen # << >>
                            THEN Append(Removed(left, Head(chosen)), Head(chosen))
                            ELSE left
             /\ broken' = broken \ dropped
             /\ on' = [c \in Contexts |-> IF c \in dropped THEN NoServer ELSE on[c]]
             /\ plan' = [contexts |-> chosen, servers |-> << >>]
    BY DEF ScanContexts
  <1> DEFINE good == {c \in ToSet(contexts) : Suits(c) /\ Valid(c, stale)}
             valid == ValidContexts(stale)
             chosen == IF Size = 0 THEN valid ELSE FirstOf(valid, Size)
             stop == IF chosen # << >> /\ Len(chosen) = Size
                     THEN IndexOf(contexts, Last(chosen))
                     ELSE Len(contexts)
             dropped == {c \in {contexts[k] : k \in 1 .. stop} :
                           Suits(c) /\ ~Valid(c, stale)}
             left == Filtered(contexts, Contexts \ dropped)
             head == Head(chosen)
  <1>2. contexts \in Seq(Contexts) /\ Injective(contexts)
    BY DEF Types, TypeOK, PoolInv
  <1>3. valid \in Seq(Contexts) /\ ToSet(valid) \subseteq good /\ Injective(valid)
    <2> HIDE DEF good
    <2>1. /\ Filtered(contexts, good) \in Seq(Contexts)
          /\ ToSet(Filtered(contexts, good)) = ToSet(contexts) \cap good
          /\ Injective(Filtered(contexts, good))
      BY <1>2, FilteredElements
    <2> QED
      BY <2>1 DEF ValidContexts, good
  <1> HIDE DEF valid
  <1>4. chosen \in Seq(Contexts) /\ ToSet(chosen) \subseteq good /\ Injective(chosen)
    <2>1. Size \in Nat
      BY SizeType
    <2>2. /\ FirstOf(valid, Size) \in Seq(Contexts)
          /\ ToSet(FirstOf(valid, Size)) \subseteq ToSet(valid)
          /\ Injective(FirstOf(valid, Size))
      BY <1>3, <2>1, FirstOfElements
    <2> QED
      BY <1>3, <2>2
  <1> HIDE DEF chosen
  <1>5. \A c \in good : c \in ToSet(contexts) /\ Suits(c) /\ c \notin broken /\ c \notin dropped
    BY DEF Valid
  <1> HIDE DEF good, stop, dropped
  <1>6. /\ left \in Seq(Contexts) /\ Len(left) <= Len(contexts) /\ Injective(left)
        /\ ToSet(left) = ToSet(contexts) \ dropped
    BY Dropping
  <1> HIDE DEF left
  <1>7. /\ contexts' = IF server = NoServer /\ chosen # << >>
                       THEN Append(Removed(left, head), head) ELSE left
        /\ broken' = broken \ dropped
        /\ on' = [c \in Contexts |-> IF c \in dropped THEN NoServer ELSE on[c]]
        /\ plan' = [contexts |-> chosen, servers |-> << >>]
    BY <1>1 DEF left, dropped, stop, chosen, valid
  <1>8. /\ contexts' \in Seq(Contexts) /\ Injective(contexts')
        /\ Len(contexts') <= Len(contexts)
        /\ ToSet(contexts') = ToSet(left)
    <2>1. CASE server = NoServer /\ chosen # << >>
      <3>1. head \in Contexts /\ head \in ToSet(left)
        BY <1>4, <1>5, <1>6, <2>1, TailElements
      <3> HIDE DEF head
      <3> DEFINE rest == Removed(left, head)
      <3>2. /\ rest \in Seq(Contexts) /\ ToSet(rest) = ToSet(left) \ {head}
            /\ Injective(rest) /\ Len(rest) = Len(left) - 1
        BY <1>6, <3>1, RemovedElements
      <3> HIDE DEF rest
      <3>3. /\ Append(rest, head) \in Seq(Contexts)
            /\ ToSet(Append(rest, head)) = ToSet(rest) \union {head}
            /\ Injective(Append(rest, head))
        BY <3>1, <3>2, AppendElements
      <3>4. Len(Append(rest, head)) = Len(left)
        <4>1. Len(left) \in Nat
          BY <1>6
        <4>2. Len(Append(rest, head)) = Len(rest) + 1
          BY <3>1, <3>2
        <4> QED
          BY <3>2, <4>1, <4>2
      <3>5. contexts' = Append(rest, head)
        BY <1>7, <2>1 DEF rest
      <3> QED
        BY <1>6, <3>1, <3>2, <3>3, <3>4, <3>5
    <2>2. CASE ~(server = NoServer /\ chosen # << >>)
      <3>1. contexts' = left
        BY <1>7, <2>2, Zenon
      <3> QED
        BY <1>6, <3>1
    <2> QED
      BY <2>1, <2>2
  <1>9. plan'.contexts = chosen /\ plan'.servers = << >>
    BY <1>7
  <1>10. \E D : /\ ToSet(contexts') = ToSet(contexts) \ D
                /\ broken' = broken \ D
                /\ on' = [c \in Contexts |-> IF c \in D THEN NoServer ELSE on[c]]
    BY <1>6, <1>7, <1>8, Zenon
  <1>11. \A c \in ToSet(chosen) :
           c \in ToSet(contexts) /\ c \in ToSet(contexts') /\ Suits(c) /\ c \notin broken
    BY <1>4, <1>5, <1>6, <1>8, Zenon
  <1> QED
    BY <1>4, <1>7, <1>8, <1>9, <1>10, <1>11

\* The private connections of a plan are chosen.
LEMMA ScanContextsStep ==
    ASSUME CommandInv, ScanContexts
    PROVE  CommandInv'
  <1> USE DEF CommandInv
  <1>1. /\ contexts' \in Seq(Contexts) /\ Injective(contexts')
        /\ Len(contexts') <= Len(contexts)
        /\ plan'.contexts \in Seq(Contexts) /\ Injective(plan'.contexts)
        /\ plan' = [contexts |-> plan'.contexts, servers |-> << >>]
        /\ plan'.servers = << >>
        /\ \A c \in ToSet(plan'.contexts) :
             c \in ToSet(contexts) /\ c \in ToSet(contexts') /\ Suits(c) /\ c \notin broken
    BY ScanContextsEffect
  <1>2. PICK D : /\ ToSet(contexts') = ToSet(contexts) \ D
                 /\ broken' = broken \ D
                 /\ on' = [c \in Contexts |-> IF c \in D THEN NoServer ELSE on[c]]
    BY ScanContextsEffect
  <1>3. /\ pc = "contexts" /\ ~shared /\ pc' = "servers"
        /\ UNCHANGED <<clustered, shared, role, owners, scripts, argv0, name, master,
                       retries, hops, server, asking, held, reply, tries, changed>>
    BY DEF ScanContexts, database, call, loop
  <1>4. ToSet(contexts) \subseteq Contexts
    BY ElementOfSeq DEF Types, TypeOK, ToSet
  <1>5. held = NoContext
    BY <1>3 DEF HeldInv, Using
  <1>6. Types'
    <2>1. Len(contexts) \in Nat /\ Len(contexts') \in Nat
      BY <1>1 DEF Types, TypeOK
    <2>2. Len(contexts') <= MaxConnections
      BY <1>1, <2>1, NumbersAssumption DEF Types, TypeOK
    <2>3. on' \in [Contexts -> Servers \union {NoServer}] /\ broken' \in SUBSET Contexts
      BY <1>2 DEF Types, TypeOK
    <2>4. plan'.servers = << >> /\ plan'.servers \in Seq(Servers)
      BY <1>1
    <2> QED
      BY <1>1, <1>3, <2>2, <2>3, <2>4 DEF Types, TypeOK, Labels, Planning
  <1>7. PoolInv'
    BY <1>1, <1>2, <1>3, <1>4 DEF PoolInv
  <1>8. HeldInv'
    BY <1>3, <1>5 DEF HeldInv
  <1>9. PlanInv'
    <2>1. ASSUME NEW c \in ToSet(plan'.contexts)
          PROVE  /\ c \in ToSet(contexts') /\ c \notin broken' /\ c # held'
                 /\ server' # NoServer => on'[c] = server'
      <3>1. c \in ToSet(contexts') /\ c \in Contexts /\ c \notin D /\ c \notin broken /\ Suits(c)
        BY <1>1, <1>2, <1>4
      <3>2. on'[c] = on[c] /\ c \notin broken'
        BY <1>2, <3>1
      <3>3. server # NoServer => on[c] = server
        BY <3>1 DEF Suits
      <3>4. c # held'
        BY <1>3, <1>5, <3>1, ContextsAssumption
      <3> QED
        BY <1>3, <3>1, <3>2, <3>3, <3>4
    <2>2. plan'.servers = << >> /\ ToSet(<< >>) = {}
      BY <1>1 DEF ToSet
    <2> QED
      BY <1>1, <1>3, <2>1, <2>2 DEF PlanInv, Planning
  <1>10. ServerInv'
    BY <1>3 DEF ServerInv
  <1>11. TriesInv'
    BY <1>3 DEF TriesInv, Followed, AttemptsBounded, Using
  <1> QED
    BY <1>6, <1>7, <1>8, <1>9, <1>10, <1>11

\* A plan or its connections do not fit in the workspace.
LEMMA OverflowContextsStep ==
    ASSUME CommandInv, OverflowContexts
    PROVE  CommandInv'
  <1> USE DEF CommandInv
  <1>1. PICK n \in 0 .. Len(contexts) :
          LET dropped == {c \in ToSet(SubSeq(contexts, 1, n)) : Suits(c)}
          IN  /\ contexts' = Filtered(contexts, Contexts \ dropped)
              /\ broken' = broken \ dropped
              /\ on' = [c \in Contexts |-> IF c \in dropped THEN NoServer ELSE on[c]]
    BY DEF OverflowContexts
  <1>2. PICK D : /\ contexts' = Filtered(contexts, Contexts \ D)
                 /\ broken' = broken \ D
                 /\ on' = [c \in Contexts |-> IF c \in D THEN NoServer ELSE on[c]]
    BY <1>1
  <1>3. /\ pc = "contexts" /\ pc' = "planned"
        /\ UNCHANGED <<clustered, shared, role, owners, scripts, argv0, name, master,
                       retries, hops, server, asking, plan, held, reply, tries, changed>>
    BY DEF OverflowContexts, database, call, loop
  <1>4. /\ contexts' \in Seq(Contexts) /\ Injective(contexts')
        /\ Len(contexts') <= Len(contexts)
        /\ ToSet(contexts') = ToSet(contexts) \ D
    BY <1>2, Dropping
  <1>5. held = NoContext /\ plan = NoPlan
    BY <1>3 DEF HeldInv, Using, PlanInv
  <1>6. Types'
    <2>1. Len(contexts) \in Nat /\ Len(contexts') \in Nat
      BY <1>4 DEF Types, TypeOK
    <2>2. Len(contexts') <= MaxConnections
      BY <1>4, <2>1, NumbersAssumption DEF Types, TypeOK
    <2>3. on' \in [Contexts -> Servers \union {NoServer}] /\ broken' \in SUBSET Contexts
      BY <1>2 DEF Types, TypeOK
    <2> QED
      BY <1>3, <1>4, <2>2, <2>3 DEF Types, TypeOK, Labels, Planning
  <1>7. PoolInv'
    <2>1. ToSet(contexts) \subseteq Contexts
      BY ElementOfSeq DEF Types, TypeOK, ToSet
    <2>2. ASSUME shared PROVE contexts' = << >>
      <3>1. contexts = << >> /\ ToSet(contexts) = {}
        BY <2>2 DEF PoolInv, ToSet
      <3> QED
        BY <1>4, <3>1
    <2>3. \A c \in ToSet(contexts') : on'[c] \in Servers
      BY <1>2, <1>4, <2>1 DEF PoolInv
    <2>4. shared' => broken' \subseteq {held'}
      BY <1>2, <1>3 DEF PoolInv
    <2>5. ~shared' => broken' \subseteq ToSet(contexts')
      BY <1>2, <1>3, <1>4 DEF PoolInv
    <2> QED
      BY <1>3, <1>4, <2>2, <2>3, <2>4, <2>5 DEF PoolInv
  <1>8. HeldInv'
    BY <1>3, <1>5 DEF HeldInv
  <1>9. PlanInv'
    BY <1>3, <1>5 DEF PlanInv, NoPlan, ToSet, Injective
  <1>10. ServerInv'
    BY <1>3 DEF ServerInv
  <1>11. TriesInv'
    BY <1>3 DEF TriesInv, Followed, AttemptsBounded, Using
  <1> QED
    BY <1>6, <1>7, <1>8, <1>9, <1>10, <1>11

\* There are finitely many servers to choose from.
LEMMA AcceptableServers ==
    ASSUME Types, NEW sick
    PROVE  /\ Acceptable(sick) \subseteq Servers
           /\ Cardinality(Acceptable(sick)) \in Nat
           /\ Acceptable(sick) # {} => Cardinality(Acceptable(sick)) > 0
  <1>1. Acceptable(sick) \subseteq Servers
    BY DEF Acceptable, Fitting, WithRole, Types, TypeOK
  <1>2. IsFiniteSet(Acceptable(sick))
    BY <1>1, ServersAssumption, FS_Subset
  <1>3. Cardinality(Acceptable(sick)) \in Nat
    BY <1>2, FS_CardinalityType
  <1>4. Acceptable(sick) # {} => Cardinality(Acceptable(sick)) # 0
    BY <1>2, FS_EmptySet
  <1> QED
    BY <1>1, <1>3, <1>4

\* The servers of a plan: the one of the redirection or, if some are needed
\* and acceptable, at least one.
LEMMA ScanServersEffect ==
    ASSUME Types, ScanServers
    PROVE  /\ plan' = [contexts |-> plan.contexts, servers |-> plan'.servers]
           /\ plan'.contexts = plan.contexts
           /\ plan'.servers \in Seq(Servers)
           /\ server # NoServer => plan'.servers = <<server>>
           /\ \/ plan'.servers # << >>
              \/ Len(plan.contexts) >= Size
              \/ \E sick : Acceptable(sick) = {}
  <1>1. PICK sick \in SUBSET Servers :
          \E list \in IF server # NoServer THEN {<<server>>}
                      ELSE PlansOf(Acceptable(sick), Size - Len(plan.contexts)) :
            plan' = [contexts |-> plan.contexts, servers |-> list]
    BY DEF ScanServers
  <1> DEFINE acceptable == Acceptable(sick)
             card == Cardinality(acceptable)
             len == Len(plan.contexts)
             size == Size
             needed == size - len
             n == IF needed < card THEN needed ELSE card
  <1>2. PICK list \in IF server # NoServer THEN {<<server>>} ELSE Sequences(acceptable, n) :
          plan' = [contexts |-> plan.contexts, servers |-> list]
    BY <1>1 DEF PlansOf
  <1>3. /\ acceptable \subseteq Servers /\ card \in Nat
        /\ acceptable # {} => card > 0
    BY AcceptableServers
  <1>4. len \in Nat /\ size \in Nat
    BY SizeType DEF Types, TypeOK
  <1> HIDE DEF acceptable, card, len, size
  <1>5. n \in Int /\ (needed > 0 /\ acceptable # {} => n > 0)
    BY <1>3, <1>4
  <1>6. plan'.contexts = plan.contexts /\ plan'.servers = list
    BY <1>2
  <1>7. CASE server # NoServer
    <2>1. list = <<server>> /\ server \in Servers
      BY <1>2, <1>7 DEF Types, TypeOK
    <2> QED
      BY <1>2, <1>6, <1>7, <2>1
  <1>8. CASE server = NoServer
    <2> HIDE DEF n
    <2>1. list \in [1 .. n -> acceptable]
      BY <1>2, <1>8 DEF Sequences
    <2>2. list \in Seq(acceptable) /\ (n > 0 => Len(list) = n)
      <3>1. CASE n >= 0
        BY <1>5, <2>1, <3>1
      <3>2. CASE n < 0
        <4>1. 1 .. n = 1 .. 0 /\ ~(n > 0)
          BY <1>5, <3>2
        <4>2. list \in [1 .. 0 -> acceptable]
          BY <2>1, <4>1
        <4> QED
          BY <4>1, <4>2
      <3> QED
        BY <1>5, <3>1, <3>2
    <2>3. list \in Seq(Servers)
      BY <1>3, <2>2
    <2>4. n > 0 => list # << >>
      BY <1>5, <2>2
    <2>5. n > 0 \/ len >= size \/ acceptable = {}
      BY <1>4, <1>5
    <2> QED
      BY <1>2, <1>6, <1>8, <2>3, <2>4, <2>5 DEF acceptable, len, size
  <1> QED
    BY <1>7, <1>8

\* The servers of a plan are chosen.
LEMMA ScanServersStep ==
    ASSUME CommandInv, ScanServers
    PROVE  CommandInv'
  <1> USE DEF CommandInv
  <1>1. /\ plan' = [contexts |-> plan.contexts, servers |-> plan'.servers]
        /\ plan'.contexts = plan.contexts
        /\ plan'.servers \in Seq(Servers)
        /\ server # NoServer => plan'.servers = <<server>>
    BY ScanServersEffect
  <1>2. /\ pc = "servers" /\ pc' = "planned"
        /\ UNCHANGED <<clustered, shared, role, owners, scripts, contexts, on, broken,
                       argv0, name, master, retries, hops, server, asking, held, reply,
                       tries, changed>>
    BY DEF ScanServers, database, pool, call, loop
  <1>3. Types'
    BY <1>1, <1>2 DEF Types, TypeOK, Labels, Planning
  <1>4. PoolInv' /\ HeldInv' /\ ServerInv'
    BY <1>2 DEF PoolInv, HeldInv, ServerInv, Using
  <1>5. PlanInv'
    <2>1. ToSet(<<server>>) = {server}
      BY DEF ToSet
    <2> QED
      BY <1>1, <1>2, <2>1 DEF PlanInv, Planning
  <1>6. TriesInv'
    BY <1>2 DEF TriesInv, Followed, AttemptsBounded, Using
  <1> QED
    BY <1>3, <1>4, <1>5, <1>6

\* One more connection is asked for.
LEMMA CountTryStep ==
    ASSUME Types, TriesInv, CountTry, pc = "lock", pc' \in {"send", "update"},
           UNCHANGED <<clustered, retries, hops>>
    PROVE  TriesInv' /\ tries' \in Nat
  <1>1. /\ tries \in Nat /\ retries \in 0 .. MaxRetries /\ hops \in 0 .. MaxHops
        /\ Followed' = Followed /\ Followed \in 0 .. MaxHops
        /\ tries <= retries + Followed
    BY NumbersAssumption DEF Types, TypeOK, TriesInv, Followed
  <1> HIDE DEF Followed
  <1>2. tries' \in Nat /\ tries' <= tries + 1
    BY <1>1, NumbersAssumption DEF CountTry, TriesBound
  <1>3. tries' <= retries' + Followed' + 1 /\ tries' <= 1 + MaxRetries + MaxHops
    BY <1>1, <1>2, NumbersAssumption
  <1> QED
    BY <1>2, <1>3 DEF TriesInv, AttemptsBounded, Using

\* The next private connection of the plan is used.
LEMMA LockPlannedStep ==
    ASSUME CommandInv, LockPlanned
    PROVE  CommandInv'
  <1> USE DEF CommandInv
  <1>1. /\ pc = "lock" /\ pc' = "send" /\ plan.contexts # << >>
        /\ held' = Head(plan.contexts)
        /\ plan' = [contexts |-> Tail(plan.contexts), servers |-> plan.servers]
        /\ CountTry
        /\ UNCHANGED <<clustered, shared, role, owners, scripts, contexts, on, broken,
                       argv0, name, master, retries, hops, server, asking, reply,
                       changed>>
    BY DEF LockPlanned, database, pool, call, loop
  <1>2. plan'.contexts = Tail(plan.contexts) /\ plan'.servers = plan.servers
    BY <1>1
  <1>3. /\ plan.contexts \in Seq(Contexts) /\ Injective(plan.contexts)
        /\ \A c \in ToSet(plan.contexts) :
             /\ c \in ToSet(contexts) /\ c \notin broken
             /\ server # NoServer => on[c] = server
        /\ server # NoServer => \A s \in ToSet(plan.servers) : s = server
    BY <1>1 DEF Types, TypeOK, PlanInv, Planning
  <1>4. /\ held' \in Contexts /\ held' \in ToSet(plan.contexts)
        /\ plan'.contexts \in Seq(Contexts) /\ Injective(plan'.contexts)
        /\ \A c \in ToSet(plan'.contexts) : c \in ToSet(plan.contexts) /\ c # held'
    BY <1>1, <1>2, <1>3, TailElements
  <1>5. TriesInv' /\ tries' \in Nat
    BY <1>1, CountTryStep
  <1>6. held' # NoContext
    BY <1>4, ContextsAssumption
  <1>7. plan' = [contexts |-> plan'.contexts, servers |-> plan'.servers]
    BY <1>1
  <1>8. Types'
    BY <1>1, <1>2, <1>4, <1>5, <1>7 DEF Types, TypeOK, Labels, Planning
  <1>9. PoolInv'
    <2>1. shared => FALSE
      BY <1>3, <1>4 DEF PoolInv, ToSet
    <2> QED
      BY <1>1, <2>1 DEF PoolInv
  <1>10. HeldInv'
    BY <1>1, <1>3, <1>4, <1>6 DEF HeldInv, PoolInv, Using
  <1>11. PlanInv'
    BY <1>1, <1>2, <1>3, <1>4 DEF PlanInv, Planning
  <1>12. ServerInv'
    BY <1>1 DEF ServerInv
  <1> QED
    BY <1>5, <1>8, <1>9, <1>10, <1>11, <1>12

\* The servers of a plan are tried again once all of them have been.
LEMMA NextServer ==
    ASSUME CommandInv, pc = "lock", plan.servers # << >>
    PROVE  /\ Head(plan.servers) \in Servers
           /\ server # NoServer => Head(plan.servers) = server
           /\ Append(Tail(plan.servers), Head(plan.servers)) \in Seq(Servers)
           /\ Append(Tail(plan.servers), Head(plan.servers)) # << >>
           /\ ToSet(Append(Tail(plan.servers), Head(plan.servers))) = ToSet(plan.servers)
  <1>1. plan.servers \in Seq(Servers)
    BY DEF CommandInv, Types, TypeOK
  <1>2. server # NoServer => \A s \in ToSet(plan.servers) : s = server
    BY DEF CommandInv, PlanInv, Planning
  <1> QED
    BY <1>1, <1>2, TailElements, RotatedElements

\* There is room for a new connection once one has been evicted.
LEMMA EvictedStep ==
    ASSUME CommandInv
    PROVE  LET kept == Filtered(contexts, Contexts \ Evicted)
           IN  /\ kept \in Seq(Contexts) /\ Injective(kept)
               /\ Len(kept) < MaxConnections
               /\ ToSet(kept) = ToSet(contexts) \ Evicted
  <1> DEFINE kept == Filtered(contexts, Contexts \ Evicted)
  <1>1. /\ kept \in Seq(Contexts) /\ Len(kept) <= Len(contexts)
        /\ ToSet(kept) = ToSet(contexts) \ Evicted
        /\ Injective(kept)
        /\ ToSet(contexts) \cap Evicted = {} \/ Len(kept) < Len(contexts)
    BY Dropping DEF CommandInv
  <1> HIDE DEF kept
  <1>2. /\ contexts \in Seq(Contexts) /\ Len(contexts) \in Nat /\ Len(kept) \in Nat
        /\ Len(contexts) <= MaxConnections
    BY <1>1 DEF CommandInv, Types, TypeOK
  <1>3. Len(kept) < MaxConnections
    <2>1. CASE Len(contexts) >= MaxConnections
      <3>1. contexts # << >>
        BY <1>2, <2>1, NumbersAssumption
      <3>2. Head(contexts) \in ToSet(contexts)
        BY <1>2, <3>1, TailElements
      <3>3. Len(kept) < Len(contexts)
        BY <1>1, <2>1, <3>2 DEF Evicted
      <3> QED
        BY <1>2, <3>3, NumbersAssumption
    <2>2. CASE ~(Len(contexts) >= MaxConnections)
      BY <1>1, <1>2, <2>2, NumbersAssumption
    <2> QED
      BY <2>1, <2>2
  <1> QED
    BY <1>1, <1>3 DEF kept

\* A private connection is established, or cannot be.
LEMMA LockPrivateStep ==
    ASSUME CommandInv, LockPrivate
    PROVE  CommandInv'
  <1> USE DEF CommandInv
  <1> DEFINE kept == Filtered(contexts, Contexts \ Evicted)
             emptied == [c \in Contexts |-> IF c \in Evicted THEN NoServer ELSE on[c]]
             next == Head(plan.servers)
             rotated == Append(Tail(plan.servers), next)
  <1>1. /\ pc = "lock" /\ ~shared /\ plan.contexts = << >> /\ plan.servers # << >>
        /\ plan' = [contexts |-> << >>, servers |-> rotated]
        /\ broken' = broken \ Evicted
        /\ CountTry
        /\ UNCHANGED <<clustered, shared, role, owners, scripts, argv0, name, master,
                       retries, hops, server, asking, reply, changed>>
    BY DEF LockPrivate, database, call, loop
  <1>2. \/ \E c \in Contexts \ ToSet(kept) :
             /\ contexts' = Append(kept, c)
             /\ on' = [emptied EXCEPT ![c] = next]
             /\ held' = c
             /\ pc' = "send"
        \/ /\ contexts' = kept
           /\ on' = emptied
           /\ pc' = "update"
           /\ UNCHANGED held
    BY DEF LockPrivate
  <1>3. /\ next \in Servers /\ (server # NoServer => next = server)
        /\ rotated \in Seq(Servers) /\ rotated # << >> /\ ToSet(rotated) = ToSet(plan.servers)
    BY <1>1, NextServer
  <1>4. /\ kept \in Seq(Contexts) /\ Injective(kept)
        /\ Len(kept) < MaxConnections
        /\ ToSet(kept) = ToSet(contexts) \ Evicted
    BY EvictedStep
  <1> HIDE DEF kept, next, rotated
  <1>5. /\ plan'.contexts = << >> /\ plan'.servers = rotated
        /\ plan' = [contexts |-> plan'.contexts, servers |-> plan'.servers]
        /\ ToSet(<< >>) = {} /\ << >> \in Seq(Contexts) /\ Injective(<< >>)
    BY <1>1 DEF ToSet, Injective
  <1>6. held = NoContext
    BY <1>1 DEF HeldInv, Using
  <1>7. pc' \in {"send", "update"}
    BY <1>2
  <1>8. TriesInv' /\ tries' \in Nat
    BY <1>1, <1>7, CountTryStep
  <1>9. ToSet(contexts) \subseteq Contexts /\ ToSet(kept) \subseteq Contexts
    BY <1>4, ElementOfSeq DEF Types, TypeOK, ToSet
  <1>10. broken' \subseteq ToSet(kept) /\ broken' \in SUBSET Contexts
    BY <1>1, <1>4, <1>9 DEF PoolInv
  <1>11. /\ emptied \in [Contexts -> Servers \union {NoServer}]
         /\ \A c \in ToSet(kept) : emptied[c] \in Servers
    BY <1>4, <1>9 DEF Types, TypeOK, PoolInv
  <1> HIDE DEF emptied
  <1>12. PlanInv'
    <2>1. server # NoServer => \A s \in ToSet(plan.servers) : s = server
      BY <1>1 DEF PlanInv, Planning
    <2> QED
      BY <1>1, <1>3, <1>5, <1>7, <2>1 DEF PlanInv, Planning
  <1>13. ServerInv'
    BY <1>1 DEF ServerInv
  <1>14. CASE contexts' = kept /\ on' = emptied /\ pc' = "update" /\ UNCHANGED held
    <2>1. Types'
      <3>1. Len(contexts') <= MaxConnections
        BY <1>4, <1>14, NumbersAssumption
      <3> QED
        BY <1>1, <1>3, <1>4, <1>5, <1>8, <1>10, <1>11, <1>14, <3>1
           DEF Types, TypeOK, Labels, Planning
    <2>2. PoolInv'
      BY <1>1, <1>4, <1>10, <1>11, <1>14 DEF PoolInv
    <2>3. HeldInv'
      BY <1>6, <1>14 DEF HeldInv
    <2> QED
      BY <1>8, <1>12, <1>13, <2>1, <2>2, <2>3
  <1>15. ASSUME NEW c \in Contexts \ ToSet(kept), contexts' = Append(kept, c),
                on' = [emptied EXCEPT ![c] = next], held' = c, pc' = "send"
         PROVE  CommandInv'
    <2>1. /\ contexts' \in Seq(Contexts) /\ Injective(contexts')
          /\ ToSet(contexts') = ToSet(kept) \union {c}
      BY <1>4, <1>15, AppendElements
    <2>2. Len(contexts') <= MaxConnections
      <3>1. Len(contexts') = Len(kept) + 1 /\ Len(kept) \in Nat
        BY <1>4, <1>15
      <3> QED
        BY <1>4, <3>1, NumbersAssumption
    <2>3. /\ on' \in [Contexts -> Servers \union {NoServer}] /\ on'[c] = next
          /\ \A d \in ToSet(kept) : on'[d] = emptied[d]
      BY <1>3, <1>9, <1>11, <1>15
    <2>4. Types'
      BY <1>1, <1>3, <1>5, <1>8, <1>10, <1>15, <2>1, <2>2, <2>3
         DEF Types, TypeOK, Labels, Planning
    <2>5. PoolInv'
      BY <1>1, <1>3, <1>10, <1>11, <2>1, <2>3 DEF PoolInv
    <2>6. HeldInv'
      <3>1. held' # NoContext /\ held' \notin broken' /\ held' \in ToSet(contexts')
        BY <1>10, <1>15, <2>1, ContextsAssumption
      <3> QED
        BY <1>1, <1>3, <1>15, <2>3, <3>1 DEF HeldInv, Using
    <2> QED
      BY <1>8, <1>12, <1>13, <2>4, <2>5, <2>6
  <1> QED
    BY <1>2, <1>14, <1>15

\* A connection of a shared pool is used, or there is none.
LEMMA LockSharedStep ==
    ASSUME CommandInv, LockShared
    PROVE  CommandInv'
  <1> USE DEF CommandInv
  <1> DEFINE next == Head(plan.servers)
             rotated == Append(Tail(plan.servers), next)
  <1>1. /\ pc = "lock" /\ shared /\ plan.servers # << >>
        /\ plan' = [contexts |-> << >>, servers |-> rotated]
        /\ CountTry
        /\ UNCHANGED <<clustered, shared, role, owners, scripts, contexts, broken, argv0,
                       name, master, retries, hops, server, asking, reply, changed>>
    BY DEF LockShared, database, call, loop
  <1>2. \/ \E c \in Contexts : /\ held' = c
                               /\ on' = [on EXCEPT ![c] = next]
                               /\ pc' = "send"
        \/ pc' = "update" /\ UNCHANGED <<held, on>>
    BY DEF LockShared
  <1>3. /\ next \in Servers /\ (server # NoServer => next = server)
        /\ rotated \in Seq(Servers) /\ rotated # << >> /\ ToSet(rotated) = ToSet(plan.servers)
    BY <1>1, NextServer
  <1> HIDE DEF next, rotated
  <1>4. /\ plan'.contexts = << >> /\ plan'.servers = rotated
        /\ plan' = [contexts |-> plan'.contexts, servers |-> plan'.servers]
        /\ ToSet(<< >>) = {} /\ << >> \in Seq(Contexts) /\ Injective(<< >>)
    BY <1>1 DEF ToSet, Injective
  <1>5. held = NoContext /\ broken = {} /\ contexts = << >>
    <2>1. held = NoContext
      BY <1>1 DEF HeldInv, Using
    <2>2. broken \subseteq {NoContext} /\ broken \subseteq Contexts /\ contexts = << >>
      BY <1>1, <2>1 DEF PoolInv, Types, TypeOK
    <2> QED
      BY <2>1, <2>2, ContextsAssumption
  <1>6. pc' \in {"send", "update"}
    BY <1>2
  <1>7. TriesInv' /\ tries' \in Nat
    BY <1>1, <1>6, CountTryStep
  <1>8. /\ held' \in Contexts \union {NoContext}
        /\ on' \in [Contexts -> Servers \union {NoServer}]
        /\ held' # NoContext => pc' = "send" /\ on'[held'] = next
        /\ pc' = "send" => held' # NoContext
    BY <1>2, <1>3, <1>5, ContextsAssumption DEF Types, TypeOK
  <1>9. Types'
    BY <1>1, <1>3, <1>4, <1>6, <1>7, <1>8 DEF Types, TypeOK, Labels, Planning
  <1>10. PoolInv'
    BY <1>1, <1>4, <1>5 DEF PoolInv
  <1>11. HeldInv'
    BY <1>1, <1>3, <1>5, <1>6, <1>8 DEF HeldInv, Using
  <1>12. PlanInv'
    <2>1. server # NoServer => \A s \in ToSet(plan.servers) : s = server
      BY <1>1 DEF PlanInv, Planning
    <2> QED
      BY <1>1, <1>3, <1>4, <1>6, <2>1 DEF PlanInv, Planning
  <1>13. ServerInv'
    BY <1>1 DEF ServerInv
  <1> QED
    BY <1>7, <1>9, <1>10, <1>11, <1>12, <1>13

\* A reply, or none, of the server that the connection in use is to.
LEMMA SendEffect ==
    ASSUME Types, NEW cmd, Send(cmd)
    PROVE  /\ reply' \in Reply
           /\ reply'.type \in {"moved", "ask"} => reply'.target \in Servers
           /\ broken' = broken \/ broken' = broken \union {held}
  <1>1. /\ [type |-> "ok", target |-> NoServer] \in Reply
        /\ [type |-> "noscript", target |-> NoServer] \in Reply
        /\ Null \in Reply
        /\ \A t \in {"moved", "ask"}, s \in Servers : [type |-> t, target |-> s] \in Reply
    BY DEF Reply, Null
  <1>2. \/ reply' = Null
        \/ reply' = [type |-> "ok", target |-> NoServer]
        \/ reply' = [type |-> "noscript", target |-> NoServer]
        \/ \E t \in {"moved", "ask"}, s \in Servers : reply' = [type |-> t, target |-> s]
    BY DEF Send
  <1>3. broken' = broken \/ broken' = broken \union {held}
    BY DEF Send
  <1>4. reply' \in Reply
    BY <1>1, <1>2
  <1>5. reply'.type \in {"moved", "ask"} => reply'.target \in Servers
    BY <1>2 DEF Null
  <1> QED
    BY <1>3, <1>4, <1>5

\* The connection in use may be the only one that breaks.
LEMMA SentStep ==
    ASSUME CommandInv, pc \in {"send", "resend"}, NEW cmd, Send(cmd),
           pc' \in {"resend", "update"}, pc' = "resend" => held \notin broken',
           UNCHANGED <<clustered, shared, role, owners, contexts, on, master,
                       retries, hops, server, asking, plan, held, tries, changed>>
    PROVE  CommandInv'
  <1> USE DEF CommandInv
  <1>1. /\ reply' \in Reply
        /\ reply'.type \in {"moved", "ask"} => reply'.target \in Servers
        /\ broken' = broken \/ broken' = broken \union {held}
    BY SendEffect
  <1>2. /\ held # NoContext /\ held \in Contexts
        /\ ~shared => held \in ToSet(contexts)
    BY DEF HeldInv, Types, TypeOK
  <1>3. Types'
    BY <1>1, <1>2 DEF Types, TypeOK, Labels, Planning
  <1>4. PoolInv'
    BY <1>1, <1>2 DEF PoolInv
  <1>5. HeldInv'
    BY <1>2 DEF HeldInv, Using
  <1>6. PlanInv'
    BY <1>1 DEF PlanInv, Planning
  <1>7. ServerInv'
    BY <1>1 DEF ServerInv
  <1>8. TriesInv'
    BY DEF TriesInv, Followed, AttemptsBounded, Using
  <1> QED
    BY <1>3, <1>4, <1>5, <1>6, <1>7, <1>8

\* EVALSHA is sent instead of EVAL.
LEMMA SendEvalshaStep ==
    ASSUME CommandInv, SendEvalsha
    PROVE  CommandInv'
  <1>1. /\ pc \in {"send", "resend"} /\ Send("EVALSHA")
        /\ pc' \in {"resend", "update"} /\ (pc' = "resend" => held \notin broken')
        /\ UNCHANGED <<clustered, shared, role, owners, contexts, on, master, retries,
                       hops, server, asking, plan, held, tries, changed>>
    BY DEF SendEvalsha, database, call, loop
  <1> QED
    BY <1>1, SentStep

\* The command is sent.
LEMMA SendCommandStep ==
    ASSUME CommandInv, SendCommand
    PROVE  CommandInv'
  <1>1. /\ pc \in {"send", "resend"} /\ Send(argv0)
        /\ pc' \in {"resend", "update"} /\ (pc' = "resend" => held \notin broken')
        /\ UNCHANGED <<clustered, shared, role, owners, contexts, on, master, retries,
                       hops, server, asking, plan, held, tries, changed>>
    BY DEF SendCommand, database, call, loop
  <1> QED
    BY <1>1, SentStep

\* A connection is released: private ones are kept, a shared one is not any
\* of the task's.
LEMMA UnlockEffect ==
    ASSUME CommandInv, Unlock, UNCHANGED <<shared, contexts>>
    PROVE  /\ held' = NoContext
           /\ on' \in [Contexts -> Servers \union {NoServer}]
           /\ broken' \in SUBSET Contexts
           /\ broken' \subseteq broken
           /\ \A c \in ToSet(contexts) : on'[c] = on[c]
           /\ PoolInv'
  <1> USE DEF CommandInv
  <1> DEFINE returned == IF shared THEN {held} ELSE {}
  <1>1. /\ held' = NoContext
        /\ on' = [c \in Contexts |-> IF c \in returned THEN NoServer ELSE on[c]]
        /\ broken' = broken \ returned
    BY DEF Unlock
  <1>2. ToSet(contexts) \subseteq Contexts
    BY ElementOfSeq DEF Types, TypeOK, ToSet
  <1>3. ToSet(contexts) \cap returned = {}
    BY DEF PoolInv, ToSet
  <1>4. on' \in [Contexts -> Servers \union {NoServer}] /\ broken' \in SUBSET Contexts
    BY <1>1 DEF Types, TypeOK
  <1>5. \A c \in ToSet(contexts) : on'[c] = on[c]
    BY <1>1, <1>2, <1>3
  <1>6. shared => broken' = {}
    BY <1>1 DEF PoolInv
  <1>7. PoolInv'
    <2>1. ~shared => broken' = broken
      BY <1>1
    <2> QED
      BY <1>5, <1>6, <2>1 DEF PoolInv
  <1> QED
    BY <1>1, <1>4, <1>5, <1>7

\* The arguments cannot be rewritten in the workspace.
LEMMA OverflowArgumentsStep ==
    ASSUME CommandInv, OverflowArguments
    PROVE  CommandInv'
  <1> USE DEF CommandInv
  <1>1. /\ pc \in {"send", "resend"} /\ pc' = "returned" /\ Unlock /\ reply' = Null
        /\ retries' = MaxRetries
        /\ UNCHANGED <<clustered, shared, role, owners, scripts, contexts, name, master,
                       hops, server, asking, plan, tries, changed>>
    BY DEF OverflowArguments, database, call
  <1>2. /\ held' = NoContext
        /\ on' \in [Contexts -> Servers \union {NoServer}]
        /\ broken' \in SUBSET Contexts
        /\ PoolInv'
    BY <1>1, UnlockEffect
  <1>3. Types'
    BY <1>1, <1>2, NumbersAssumption DEF Types, TypeOK, Labels, Reply, Null
  <1>4. HeldInv'
    BY <1>1, <1>2 DEF HeldInv
  <1>5. PlanInv'
    BY <1>1 DEF PlanInv, Planning
  <1>6. ServerInv'
    BY <1>1 DEF ServerInv, Null
  <1>7. TriesInv'
    <2>1. /\ tries \in Nat /\ retries \in 0 .. MaxRetries /\ hops \in 0 .. MaxHops
          /\ Followed' = Followed /\ Followed \in 0 .. MaxHops
          /\ tries <= retries + Followed + 1
      BY <1>1, NumbersAssumption DEF Types, TypeOK, TriesInv, Followed, Using
    <2> HIDE DEF Followed
    <2>2. tries' <= retries' + Followed' + 1
      BY <1>1, <2>1, NumbersAssumption
    <2> QED
      BY <1>1, <2>2 DEF TriesInv, AttemptsBounded, Using
  <1> QED
    BY <1>2, <1>3, <1>4, <1>5, <1>6, <1>7

\* The connection is released, and there may be another attempt.
LEMMA UpdateStep ==
    ASSUME CommandInv, Update
    PROVE  CommandInv'
  <1> USE DEF CommandInv
  <1>1. /\ pc = "update" /\ Unlock
        /\ \/ /\ reply.type = "null" /\ retries < MaxRetries
              /\ retries' = retries + 1 /\ pc' = "lock"
           \/ retries' = retries /\ pc' = "returned"
        /\ UNCHANGED <<clustered, shared, role, owners, scripts, contexts, argv0, name,
                       master, hops, server, asking, plan, reply, tries, changed>>
    BY DEF Update, database, call
  <1>2. /\ held' = NoContext
        /\ on' \in [Contexts -> Servers \union {NoServer}]
        /\ broken' \in SUBSET Contexts
        /\ broken' \subseteq broken
        /\ \A c \in ToSet(contexts) : on'[c] = on[c]
        /\ PoolInv'
    BY <1>1, UnlockEffect
  <1>3. retries' \in 0 .. MaxRetries
    BY <1>1, NumbersAssumption DEF Types, TypeOK
  <1>4. Types'
    BY <1>1, <1>2, <1>3 DEF Types, TypeOK, Labels, Planning
  <1>5. HeldInv'
    BY <1>1, <1>2 DEF HeldInv
  <1>6. PlanInv'
    <2>1. ASSUME NEW c \in ToSet(plan.contexts)
          PROVE  /\ c \in ToSet(contexts) /\ c \notin broken' /\ c # held'
                 /\ server # NoServer => on'[c] = server
      <3>1. /\ c \in ToSet(contexts) /\ c \notin broken
            /\ server # NoServer => on[c] = server
        BY <1>1 DEF PlanInv, Planning
      <3>2. c # NoContext
        BY <3>1, ContextsAssumption, ElementOfSeq DEF Types, TypeOK, ToSet
      <3> QED
        BY <1>2, <3>1, <3>2
    <2> QED
      BY <1>1, <2>1 DEF PlanInv, Planning
  <1>7. ServerInv'
    BY <1>1 DEF ServerInv
  <1>8. TriesInv'
    <2>1. /\ tries \in Nat /\ retries \in 0 .. MaxRetries /\ hops \in 0 .. MaxHops
          /\ Followed' = Followed /\ Followed \in 0 .. MaxHops
          /\ tries <= retries + Followed + 1
      BY <1>1, NumbersAssumption DEF Types, TypeOK, TriesInv, Followed, Using
    <2> HIDE DEF Followed
    <2>2. /\ pc' = "lock" => tries' <= retries' + Followed'
          /\ pc' = "returned" => tries' <= retries' + Followed' + 1
      BY <1>1, <2>1
    <2> QED
      BY <1>1, <2>2 DEF TriesInv, AttemptsBounded, Using
  <1> QED
    BY <1>2, <1>4, <1>5, <1>6, <1>7, <1>8

\* cluster_execute() follows a redirection, or gives up.
LEMMA RedirectStep ==
    ASSUME CommandInv, Redirect
    PROVE  CommandInv'
  <1> USE DEF CommandInv
  <1>1. /\ pc = "returned" /\ clustered /\ reply.type \in {"moved", "ask"}
        /\ reply' = Null /\ plan' = NoPlan
        /\ UNCHANGED <<clustered, shared, scripts, contexts, on, broken, argv0, name,
                       master, retries, held, tries, changed>>
    BY DEF Redirect, pool, call
  <1>2. role' \in [Servers -> Roles] /\ owners' \in SUBSET Servers
    BY DEF Redirect, RolesAfter, Types, TypeOK
  <1>3. reply.target \in Servers
    BY <1>1 DEF ServerInv
  <1>4. \/ /\ hops > 0 /\ hops' = hops - 1 /\ server' = reply.target
           /\ asking' = (reply.type = "ask") /\ pc' = "contexts"
        \/ server' = NoServer /\ asking' = FALSE /\ pc' = "done" /\ hops' = hops
    BY DEF Redirect, HopsAfter
  <1>5. /\ hops' \in 0 .. MaxHops /\ server' \in Servers \union {NoServer}
        /\ asking' \in BOOLEAN /\ (asking' => server' # NoServer)
    <2>1. hops' \in 0 .. MaxHops
      BY <1>4, NumbersAssumption DEF Types, TypeOK
    <2>2. server' \in Servers \union {NoServer}
      BY <1>3, <1>4, Zenon
    <2>3. asking' \in BOOLEAN /\ (asking' => server' # NoServer)
      BY <1>3, <1>4, ServersAssumption, Zenon
    <2> QED
      BY <2>1, <2>2, <2>3
  <1>6. plan'.contexts = << >> /\ plan'.servers = << >>
    BY <1>1 DEF NoPlan
  <1>7. << >> \in Seq(Contexts) /\ << >> \in Seq(Servers) /\ reply' \in Reply
    BY <1>1 DEF Null, Reply
  <1>8. Types'
    BY <1>1, <1>2, <1>4, <1>5, <1>6, <1>7 DEF Types, TypeOK, Labels, NoPlan
  <1>9. held = NoContext
    BY <1>1 DEF HeldInv, Using
  <1>10. PoolInv' /\ HeldInv'
    BY <1>1, <1>4, <1>9 DEF PoolInv, HeldInv
  <1>11. PlanInv'
    BY <1>1, <1>4 DEF PlanInv, Planning
  <1>12. ServerInv'
    BY <1>1, <1>5 DEF ServerInv, Null
  <1>13. TriesInv'
    <2>1. /\ tries \in Nat /\ retries \in Nat /\ hops \in 0 .. MaxHops
          /\ tries <= retries + (MaxHops - hops) + 1
      BY <1>1 DEF Types, TypeOK, TriesInv, Followed, Using
    <2>2. pc' = "contexts" => tries' <= retries' + (MaxHops - hops')
      BY <1>1, <1>4, <2>1, NumbersAssumption
    <2> QED
      BY <1>1, <1>4, <2>2 DEF TriesInv, AttemptsBounded, Using, Followed
  <1> QED
    BY <1>8, <1>10, <1>11, <1>12, <1>13

\* The private connections are closed with their task.
LEMMA EndTaskStep ==
    ASSUME CommandInv, EndTask
    PROVE  CommandInv'
  <1> USE DEF CommandInv
  <1>1. /\ pc = "idle" /\ contexts' = << >> /\ on' = [c \in Contexts |-> NoServer]
        /\ broken' = {}
        /\ UNCHANGED <<clustered, shared, role, owners, scripts, pc, argv0, name, master,
                       retries, hops, server, asking, plan, held, reply, tries, changed>>
    BY DEF EndTask, database, call, loop
  <1>2. /\ << >> \in Seq(Contexts) /\ Len(<< >>) <= MaxConnections
        /\ Injective(<< >>) /\ ToSet(<< >>) = {}
    BY NumbersAssumption DEF Injective, ToSet
  <1>3. held = NoContext
    BY <1>1 DEF HeldInv, Using
  <1>4. Types'
    BY <1>1, <1>2 DEF Types, TypeOK
  <1>5. PoolInv' /\ HeldInv'
    BY <1>1, <1>2, <1>3 DEF PoolInv, HeldInv
  <1>6. PlanInv'
    BY <1>1 DEF PlanInv, Planning
  <1>7. ServerInv' /\ TriesInv'
    BY <1>1 DEF ServerInv, TriesInv, Followed, AttemptsBounded
  <1> QED
    BY <1>4, <1>5, <1>6, <1>7

\* The invariant holds initially.
LEMMA CommandInit ==
    ASSUME Init
    PROVE  CommandInv
  <1> USE DEF Init
  <1>1. plan.contexts = << >> /\ plan.servers = << >>
    BY DEF NoPlan
  <1>2. /\ << >> \in Seq(Contexts) /\ << >> \in Seq(Servers) /\ Len(<< >>) <= MaxConnections
        /\ Injective(<< >>) /\ ToSet(<< >>) = {} /\ Null \in Reply
    BY NumbersAssumption DEF Injective, ToSet, Null, Reply
  <1>3. retries \in 0 .. MaxRetries /\ hops \in 0 .. MaxHops /\ tries \in Nat
    BY NumbersAssumption
  <1>4. owners \in SUBSET Servers
    OBVIOUS
  <1>5. Types
    BY <1>1, <1>2, <1>3, <1>4 DEF Types, TypeOK, Labels, NoPlan
  <1>6. PoolInv /\ HeldInv
    BY <1>2 DEF PoolInv, HeldInv
  <1>7. PlanInv /\ ServerInv
    BY DEF PlanInv, Planning, ServerInv, Null
  <1>8. TriesInv
    BY NumbersAssumption DEF TriesInv, AttemptsBounded, Using
  <1> QED
    BY <1>5, <1>6, <1>7, <1>8 DEF CommandInv

\* Every step keeps the invariant.
LEMMA CommandStep ==
    ASSUME CommandInv, [Next]_vars
    PROVE  CommandInv'
  <1>1. CASE UNCHANGED vars
    BY <1>1 DEF vars, database, pool, call, loop, CommandInv, Types, TypeOK, PoolInv, HeldInv,
           PlanInv, ServerInv, TriesInv, Followed, AttemptsBounded
  <1>2. CASE Work
    BY <1>2, ScanContextsStep, SkipContextsStep, OverflowContextsStep, ScanServersStep,
       OverflowServersStep, EmptyPlanStep, StartPlanStep, LockPlannedStep, LockPrivateStep,
       LockSharedStep, AssertFailsStep, SendEvalshaStep, SendCommandStep, OverflowArgumentsStep,
       UpdateStep, RedirectStep, FinishStep DEF Work
  <1>3. CASE \E n \in {"GET", "EVAL"}, m \in BOOLEAN : Execute(n, m)
    BY <1>3, ExecuteStep
  <1>4. CASE \E s \in Servers, r \in {"slave", "master"} : ChangeRole(s, r)
    BY <1>4, ChangeRoleStep
  <1>5. CASE \E s \in Servers : ChangeOwner(s) \/ Restart(s)
    BY <1>5, ChangeOwnerStep, RestartStep
  <1>6. CASE \E m \in BOOLEAN : ExecuteAgain(m)
    BY <1>6, ExecuteAgainStep
  <1> QED
    BY <1>1, <1>2, <1>3, <1>4, <1>5, <1>6, RejectStep, FreeReplyStep, EndTaskStep DEF Next

-----------------------------------------------------------------------------
(***************************************************************************)
(* What is shown of every behaviour.                                       *)
(***************************************************************************)

\* The inductive invariant holds, whatever servers reply or break, and
\* whatever the Sentinel thread and other workers change in the meantime.
THEOREM Invariance == Spec => []CommandInv
  <1>1. Init => CommandInv
    BY CommandInit
  <1>2. CommandInv /\ [Next]_vars => CommandInv'
    BY CommandStep
  <1> QED
    BY <1>1, <1>2, PTL DEF Spec

\* Every variable has its type: retries and private connections are within
\* their limits in every state of redis_execute().
THEOREM TypeCorrect == Spec => []TypeOK
  <1>1. CommandInv => TypeOK
    BY DEF CommandInv, Types
  <1> QED
    BY <1>1, Invariance, PTL

\* redis_execute() neither uses nor keeps in its plan a connection that it
\* has released, be it to make room for another or because it was invalid.
THEOREM NoneDangling == Spec => []NoDanglingContext
  <1>1. CommandInv => NoDanglingContext
    <2> SUFFICES ASSUME CommandInv PROVE NoDanglingContext
      OBVIOUS
    <2> USE DEF CommandInv
    <2>1. held # NoContext => on[held] # NoServer
      BY ServersAssumption DEF HeldInv
    <2>2. ~shared /\ held # NoContext => held \in ToSet(contexts)
      BY DEF HeldInv
    <2>3. ASSUME pc \in Planning, NEW k \in DOMAIN plan.contexts
          PROVE  plan.contexts[k] \in ToSet(contexts)
      BY <2>3 DEF PlanInv, ToSet
    <2> QED
      BY <2>1, <2>2, <2>3 DEF NoDanglingContext, Planning
  <1> QED
    BY <1>1, Invariance, PTL

\* get_redis_repy() is never given a connection in an error state, neither at
\* first nor for the EVAL that follows a NOSCRIPT.
THEOREM SentWhenSound == Spec => []NeverSentWhenBroken
  <1>1. CommandInv => NeverSentWhenBroken
    BY DEF CommandInv, HeldInv, NeverSentWhenBroken
  <1> QED
    BY <1>1, Invariance, PTL

\* After a MOVED or an ASK, cluster_execute() sends the command, retries
\* included, to the server that it names and to no other.
THEOREM RedirectionFollowed == Spec => []RedirectionObeyed
  <1>1. CommandInv => RedirectionObeyed
    BY DEF CommandInv, HeldInv, ServerInv, RedirectionObeyed
  <1> QED
    BY <1>1, Invariance, PTL

\* redis_execute() returns with no connection in use, whatever went wrong.
THEOREM ConnectionsReleased == Spec => []Released
  <1>1. CommandInv => Released
    BY DEF CommandInv, HeldInv, Released, Using
  <1> QED
    BY <1>1, Invariance, PTL

\* However servers fail and redirect, a command asks for a connection once,
\* plus once for each retry and each redirection that are allowed.
THEOREM BoundedAttempts == Spec => []AttemptsBounded
  <1>1. CommandInv => AttemptsBounded
    BY DEF CommandInv, TriesInv
  <1> QED
    BY <1>1, Invariance, PTL

-----------------------------------------------------------------------------
(***************************************************************************)
(* The plan suffices while no role changes outside a cluster.              *)
(***************************************************************************)

\* A private connection that suits the command is to a server that suits it.
LEMMA ScanContextsEnough ==
    ASSUME CommandInv, EnoughInv, ScanContexts
    PROVE  EnoughInv'
  <1>1. /\ plan'.contexts \in Seq(Contexts)
        /\ \A c \in ToSet(plan'.contexts) : c \in ToSet(contexts) /\ Suits(c)
    BY ScanContextsEffect DEF CommandInv
  <1>2. /\ pc = "contexts" /\ pc' = "servers"
        /\ UNCHANGED <<clustered, role, master, retries, server>>
    BY DEF ScanContexts, database, call, loop
  <1>3. ASSUME ~clustered, plan'.contexts # << >>
        PROVE  \E s \in Servers : master => role[s] = "master"
    <2>1. PICK c \in ToSet(plan'.contexts) : TRUE
      BY <1>1, <1>3, TailElements
    <2>2. Suits(c) /\ on[c] \in Servers /\ server = NoServer
      BY <1>1, <1>3 DEF CommandInv, PoolInv, ServerInv
    <2>3. master <=> role[on[c]] = "master"
      BY <2>2 DEF Suits
    <2> QED
      BY <2>2, <2>3
  <1> QED
    BY <1>2, <1>3 DEF EnoughInv, Using

\* A plan has a server, or all the connections that can be needed, or nothing.
LEMMA ScanServersEnough ==
    ASSUME CommandInv, EnoughInv, ScanServers
    PROVE  EnoughInv'
  <1>1. /\ plan' = [contexts |-> plan.contexts, servers |-> plan'.servers]
        /\ plan'.contexts = plan.contexts
        /\ server # NoServer => plan'.servers = <<server>>
        /\ \/ plan'.servers # << >>
           \/ Len(plan.contexts) >= Size
           \/ \E sick : Acceptable(sick) = {}
    BY ScanServersEffect DEF CommandInv
  <1>2. /\ pc = "servers" /\ pc' = "planned"
        /\ UNCHANGED <<clustered, role, master, retries, server>>
    BY DEF ScanServers, database, call, loop
  <1>3. server # NoServer => plan'.servers # << >>
    <2>1. <<server>> # << >>
      <3>1. Len(<<server>>) = 1 /\ Len(<< >>) = 0
        OBVIOUS
      <3> QED
        BY <3>1
    <2>2. server # NoServer => plan'.servers = <<server>>
      BY <1>1, Zenon
    <2> QED
      BY <2>1, <2>2, Zenon
  <1>4. ASSUME Len(plan.contexts) >= Size, server = NoServer
        PROVE  Len(plan'.contexts) >= MaxRetries - retries' + 1
    <2>1. retries = 0
      BY <1>2, <1>4 DEF EnoughInv
    <2>2. Size = 1 + MaxRetries
      BY <2>1 DEF Size
    <2>3. retries' = 0
      BY <1>2, <2>1
    <2> QED
      BY <1>1, <1>4, <2>2, <2>3, NumbersAssumption
  <1>5. ASSUME NEW sick, Acceptable(sick) = {}, plan'.servers = << >>
        PROVE  plan' = NoPlan
    <2>1. plan.contexts = << >>
      <3>1. CASE clustered
        <4>1. Servers = {}
          BY <1>5, <3>1 DEF Acceptable, Fitting
        <4>2. ToSet(contexts) = {}
          BY <4>1 DEF CommandInv, PoolInv
        <4>3. ToSet(plan.contexts) = {} /\ plan.contexts \in Seq(Contexts)
          BY <1>2, <4>2 DEF CommandInv, PlanInv, Planning, Types, TypeOK
        <4> QED
          BY <4>3, TailElements
      <3>2. CASE ~clustered
        <4>1. ~ \E s \in Servers : master => role[s] # "slave"
          BY <1>5, <3>2 DEF Acceptable, Fitting, WithRole
        <4> QED
          BY <1>2, <3>2, <4>1 DEF EnoughInv
      <3> QED
        BY <3>1, <3>2
    <2> QED
      BY <1>1, <1>5, <2>1 DEF NoPlan
  <1> QED
    BY <1>1, <1>2, <1>3, <1>4, <1>5 DEF EnoughInv, Enough, Using

\* One connection less, for one attempt less.
LEMMA LockPlannedEnough ==
    ASSUME CommandInv, EnoughInv, LockPlanned
    PROVE  EnoughInv'
  <1>1. /\ pc = "lock" /\ pc' = "send" /\ plan.contexts # << >> /\ retries' = retries
        /\ plan' = [contexts |-> Tail(plan.contexts), servers |-> plan.servers]
    BY DEF LockPlanned, loop
  <1>2. plan'.contexts = Tail(plan.contexts) /\ plan'.servers = plan.servers
    BY <1>1
  <1>3. plan.contexts \in Seq(Contexts) /\ retries \in 0 .. MaxRetries
    BY DEF CommandInv, Types, TypeOK
  <1>4. Len(plan.contexts) \in Nat /\ Len(Tail(plan.contexts)) = Len(plan.contexts) - 1
    BY <1>1, <1>3
  <1>5. Enough(1)
    BY <1>1 DEF EnoughInv
  <1>6. Enough(0)'
    BY <1>1, <1>2, <1>3, <1>4, <1>5, NumbersAssumption DEF Enough
  <1> QED
    BY <1>1, <1>6 DEF EnoughInv

\* A plan does not run out of servers.
LEMMA LockEnough ==
    ASSUME CommandInv, EnoughInv, LockPrivate \/ LockShared
    PROVE  EnoughInv'
  <1>1. /\ pc = "lock" /\ pc' \in Using /\ plan.servers # << >>
        /\ plan' = [contexts |-> << >>,
                    servers |-> Append(Tail(plan.servers), Head(plan.servers))]
    BY DEF LockPrivate, LockShared, Using
  <1>2. plan'.servers # << >>
    BY <1>1, NextServer
  <1> QED
    BY <1>1, <1>2 DEF EnoughInv, Enough, Using

\* One retry less is left.
LEMMA UpdateEnough ==
    ASSUME CommandInv, EnoughInv, Update
    PROVE  EnoughInv'
  <1>1. /\ pc = "update" /\ plan' = plan
        /\ \/ retries' = retries + 1 /\ pc' = "lock"
           \/ pc' = "returned"
    BY DEF Update
  <1>2. Enough(0) /\ retries \in Nat
    BY <1>1 DEF EnoughInv, Using, CommandInv, Types, TypeOK
  <1>3. plan.contexts \in Seq(Contexts) /\ Len(plan.contexts) \in Nat
    BY DEF CommandInv, Types, TypeOK
  <1>4. pc' = "lock" => Enough(1)'
    BY <1>1, <1>2, <1>3, NumbersAssumption DEF Enough
  <1> QED
    BY <1>1, <1>4 DEF EnoughInv, Using

\* The assertion does not fail: a plan that suffices is not empty.
LEMMA AssertHolds ==
    ASSUME CommandInv, EnoughInv, pc = "lock"
    PROVE  plan # NoPlan
  <1> SUFFICES ASSUME plan = NoPlan PROVE FALSE
    OBVIOUS
  <1>1. plan.servers = << >> /\ Len(plan.contexts) = 0
    BY DEF NoPlan
  <1>2. retries \in 0 .. MaxRetries
    BY DEF CommandInv, Types, TypeOK
  <1>3. Len(plan.contexts) >= MaxRetries - retries + 1
    BY <1>1 DEF EnoughInv, Enough
  <1> QED
    BY <1>1, <1>2, <1>3, NumbersAssumption

\* Neither the kind of database nor that of its connections ever changes, and
\* a change of a role is remembered until the command is over.
LEMMA ChangeKept ==
    ASSUME [Next]_vars
    PROVE  /\ UNCHANGED <<clustered, shared>>
           /\ changed => changed' \/ Finish
  <1>1. CASE Work
    <2>1. UNCHANGED <<clustered, shared>> /\ (changed' = changed \/ Finish)
      BY <1>1 DEF Work, database, ScanContexts, SkipContexts, OverflowContexts, ScanServers,
         OverflowServers, EmptyPlan, StartPlan, LockPlanned, LockPrivate, LockShared,
         AssertFails, SendEvalsha, SendCommand, OverflowArguments, Update, Redirect, Finish
    <2> QED
      BY <2>1
  <1>2. CASE \E n \in {"GET", "EVAL"}, m \in BOOLEAN : Execute(n, m) \/ ExecuteAgain(m)
    BY <1>2 DEF Execute, ExecuteAgain, database
  <1>3. CASE Reject \/ FreeReply \/ EndTask \/ UNCHANGED vars
    BY <1>3 DEF Reject, FreeReply, EndTask, vars, database
  <1>4. CASE \E s \in Servers, r \in {"slave", "master"} : ChangeRole(s, r)
    <2>1. PICK s \in Servers, r \in {"slave", "master"} : ChangeRole(s, r)
      BY <1>4
    <2>2. /\ UNCHANGED <<clustered, shared>>
          /\ changed' = (changed \/ (pc = "servers" /\ ~clustered /\ ~shared))
      BY <2>1 DEF ChangeRole
    <2> QED
      BY <2>2
  <1>5. CASE \E s \in Servers : ChangeOwner(s) \/ Restart(s)
    BY <1>5 DEF ChangeOwner, Restart, database
  <1> QED
    BY <1>1, <1>2, <1>3, <1>4, <1>5 DEF Next

\* Whatever happened to its plan, a command that is over needs none.
LEMMA FinishEnough ==
    ASSUME Finish
    PROVE  EnoughInv'
  BY DEF Finish, EnoughInv, Using

\* Every step leaves a plan that suffices.
LEMMA EnoughStep ==
    ASSUME ~WorkspaceOverflows, ~Changed', CommandInv, EnoughInv, [Next]_vars
    PROVE  EnoughInv'
  <1> USE DEF database, pool, call, loop
  <1>1. CASE UNCHANGED vars
    BY <1>1 DEF vars, EnoughInv, Enough
  <1>2. CASE \E n \in {"GET", "EVAL"}, m \in BOOLEAN : Execute(n, m)
    BY <1>2 DEF Execute, EnoughInv, Using
  <1>3. CASE Reject \/ FreeReply \/ Finish \/ EmptyPlan
    BY <1>3, FinishEnough DEF Reject, FreeReply, EmptyPlan, EnoughInv, Using
  <1>4. CASE EndTask
    BY <1>4 DEF EndTask, EnoughInv, Using
  <1>5. CASE SkipContexts
    <2>1. plan.contexts = << >>
      BY <1>5 DEF SkipContexts, CommandInv, PlanInv, NoPlan
    <2> QED
      BY <1>5, <2>1 DEF SkipContexts, EnoughInv, Using
  <1>6. CASE StartPlan
    BY <1>6 DEF StartPlan, EnoughInv, Enough, Using
  <1>7. CASE AssertFails
    BY <1>7, AssertHolds DEF AssertFails
  <1>8. CASE SendEvalsha \/ SendCommand
    BY <1>8 DEF SendEvalsha, SendCommand, EnoughInv, Enough, Using
  <1>9. CASE Redirect
    <2>1. reply.target \in Servers /\ reply.target # NoServer
      BY <1>9, ServersAssumption DEF Redirect, CommandInv, ServerInv
    <2> QED
      BY <1>9, <2>1 DEF Redirect, EnoughInv, Using
  <1>10. CASE \E s \in Servers, r \in {"slave", "master"} : ChangeRole(s, r)
    <2>1. /\ changed' = (changed \/ (pc = "servers" /\ ~clustered /\ ~shared))
          /\ UNCHANGED <<clustered, shared, master, retries, server, pc, plan>>
      BY <1>10 DEF ChangeRole
    <2>2. ASSUME pc = "servers", ~clustered
          PROVE  plan.contexts = << >>
      <3>0. shared
        BY <2>1, <2>2 DEF Changed
      <3>1. ToSet(contexts) = {}
        BY <3>0 DEF CommandInv, PoolInv, ToSet
      <3>2. ToSet(plan.contexts) = {} /\ plan.contexts \in Seq(Contexts)
        BY <2>2, <3>1 DEF CommandInv, PlanInv, Planning, Types, TypeOK
      <3> QED
        BY <3>2, TailElements
    <2> QED
      BY <2>1, <2>2 DEF EnoughInv, Enough
  <1>11. CASE \E s \in Servers : ChangeOwner(s) \/ Restart(s)
    BY <1>11 DEF ChangeOwner, Restart, EnoughInv, Enough
  <1>12. CASE OverflowContexts \/ OverflowServers \/ OverflowArguments
    BY <1>12 DEF OverflowContexts, OverflowServers, OverflowArguments
  <1>13. CASE \E m \in BOOLEAN : ExecuteAgain(m)
    BY <1>13 DEF ExecuteAgain, EnoughInv, Using
  <1> HIDE DEF database, pool, call, loop
  <1> QED
    BY <1>1, <1>2, <1>3, <1>4, <1>5, <1>6, <1>7, <1>8, <1>9, <1>10, <1>11, <1>12, <1>13,
       ScanContextsEnough, ScanServersEnough, LockPlannedEnough, LockEnough, UpdateEnough
       DEF Next, Work

\* "assert(plan->servers.next < plan->servers.n)" of lock_redis_context()
\* never fails in a cluster, nor with shared connections, nor while nobody (the
\* Sentinel thread or the .add_server() of another task) changes a role between
\* the two halves of plan_execution(), if the workspace suffices: what is left
\* of the plan is never less than the retries that are left, whatever their
\* limit.
THEOREM PlanSuffices == Spec => []ExhaustedByChangesOnly
  <1>1. Init => SufficientInv
    BY DEF Init, SufficientInv, EnoughInv, Using
  <1>2. CommandInv /\ SufficientInv /\ [Next]_vars => SufficientInv'
    <2> SUFFICES ASSUME CommandInv, SufficientInv, [Next]_vars, ~WorkspaceOverflows, ~Changed'
                 PROVE  EnoughInv'
      BY DEF SufficientInv
    <2>1. CASE Changed
      BY <2>1, ChangeKept, FinishEnough DEF Changed
    <2>2. CASE EnoughInv
      BY <2>2, EnoughStep
    <2> QED
      BY <2>1, <2>2 DEF SufficientInv
  <1>3. SufficientInv => ExhaustedByChangesOnly
    BY DEF SufficientInv, Changed, EnoughInv, ExhaustedByChangesOnly
  <1> QED
    BY <1>1, <1>2, <1>3, Invariance, PTL DEF Spec
=============================================================================
