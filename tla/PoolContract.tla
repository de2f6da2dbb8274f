----------------------------- MODULE PoolContract -----------------------------
(***************************************************************************)
(* What a pool of shared connections promises to the worker threads: the   *)
(* manual's max_connections and shared_connections (vmod_redis.vcc), with  *)
(* nothing of the lists, the counters, the timestamps and the mutex that   *)
(* SharedPool needs to keep the promise.                                   *)
(*                                                                         *)
(* A worker that asks gets a connection that is nobody else's, or is told  *)
(* that none could be established; it sleeps only if max_connections of    *)
(* them are in use at that moment, and each connection that is returned,   *)
(* and each attempt that fails, lets a sleeping worker ask again.          *)
(***************************************************************************)
EXTENDS Naturals, FiniteSets

CONSTANTS
    Workers,        \* worker threads
    Connections,    \* connections there may ever be
    NoConnection,   \* what a worker has that has none
    MaxConnections  \* how many of them may be used at the same time

VARIABLES
    phase,  \* what each worker is doing
    holds   \* the connection it uses

contract == <<phase, holds>>

Phase == {"out", "asking", "sleeping", "using"}

InUse == {holds[w] : w \in Workers} \ {NoConnection}

Exhausted == Cardinality(InUse) >= MaxConnections

Sleeping == {w \in Workers : phase[w] = "sleeping"}

\* A worker is done, and one of the sleeping ones, if any, may ask again.
Leave(w) ==
    \/ Sleeping = {} /\ phase' = [phase EXCEPT ![w] = "out"]
    \/ \E v \in Sleeping : phase' = [phase EXCEPT ![w] = "out", ![v] = "asking"]

Ask(w) ==
    /\ phase[w] = "out"
    /\ phase' = [phase EXCEPT ![w] = "asking"]
    /\ UNCHANGED holds

Grant(w, c) ==
    /\ phase[w] = "asking"
    /\ ~Exhausted
    /\ c \notin InUse
    /\ phase' = [phase EXCEPT ![w] = "using"]
    /\ holds' = [holds EXCEPT ![w] = c]

\* There was room for a connection, but the server could not be reached.
Refuse(w) ==
    /\ phase[w] = "asking"
    /\ ~Exhausted
    /\ Leave(w)
    /\ UNCHANGED holds

Sleep(w) ==
    /\ phase[w] = "asking"
    /\ Exhausted
    /\ phase' = [phase EXCEPT ![w] = "sleeping"]
    /\ UNCHANGED holds

\* Condition variables may wake a thread for no reason.
WakeUp(w) ==
    /\ phase[w] = "sleeping"
    /\ phase' = [phase EXCEPT ![w] = "asking"]
    /\ UNCHANGED holds

GiveBack(w) ==
    /\ phase[w] = "using"
    /\ Leave(w)
    /\ holds' = [holds EXCEPT ![w] = NoConnection]

Init ==
    /\ phase = [w \in Workers |-> "out"]
    /\ holds = [w \in Workers |-> NoConnection]

Next ==
    \E w \in Workers :
        \/ Ask(w) \/ Refuse(w) \/ Sleep(w) \/ WakeUp(w) \/ GiveBack(w)
        \/ \E c \in Connections : Grant(w, c)

Spec == Init /\ [][Next]_contract
=============================================================================
