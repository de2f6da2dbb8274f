-------------------------- MODULE MCClusterExecution --------------------------
(***************************************************************************)
(* CommandExecution for TLC with the algorithm that gives a command of a   *)
(* cluster its slot.  The commands of MCKeyOf are one of each form.        *)
(***************************************************************************)
EXTENDS MCCommandExecution, ClusterExecution

\* "{", "}", "a", and a byte that is negative as a char.
MCChars == {123, 125, 97, -61}

MCKeyOf ==
    ("GET" :> 1) @@ ("EVAL" :> 3) @@ ("EVALSHA_RO" :> 3) @@ ("CONFIG" :> 0) @@ ("SCRIPT" :> 0)
===============================================================================
