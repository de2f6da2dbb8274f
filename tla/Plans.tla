-------------------------------- MODULE Plans --------------------------------
(***************************************************************************)
(* What populate_execution_plan() (core.c) promises about the servers of a *)
(* plan: ExecutionPlan, which models its rounds over the lists of servers, *)
(* is shown to keep it, and CommandExecution relies on nothing else.       *)
(***************************************************************************)
EXTENDS Integers, FiniteSets

\* The servers that a plan may have.  "owners" are the ones known to serve the
\* slot of the command; a cluster in which nobody fit does is asked anyway, as
\* any of its servers knows who does.
Fitting(clustered, servers, owners, sick, masters, slaves, master) ==
    LET preferred == {s \in owners \ sick : master => s \in masters}
    IN  IF ~clustered THEN {s \in servers : master => s \notin slaves}
        ELSE IF preferred # {} THEN preferred ELSE servers

\* The sequences of n different elements of S.
Sequences(S, n) == {q \in [1 .. n -> S] : \A j, k \in 1 .. n : q[j] = q[k] => j = k}

\* As many of them as needed and there are.
PlansOf(fitting, needed) ==
    Sequences(fitting, IF needed < Cardinality(fitting) THEN needed ELSE Cardinality(fitting))
=============================================================================
