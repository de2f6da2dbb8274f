---------------------------- MODULE SicknessAudit ----------------------------
(***************************************************************************)
(* SharedPool with a history variable: the connections that were pooled    *)
(* when the server was last flagged as sick.  The code has to tell them    *)
(* from younger ones by comparing timestamps (context->tst against         *)
(* server->sickness.tst), and both come from clocks read before db->mutex  *)
(* was obtained and, in a worker that waited, before the wait.             *)
(***************************************************************************)
EXTENDS SharedPool

VARIABLE predates  \* contexts created before the last flagging

auditVars == <<vars, predates>>

AuditInit == Init /\ predates = {}

Pooled == ToSet(free_contexts) \union busy_contexts

\* This step flags the server: whatever is pooled was there before.
Flags == predates' = Pooled'

\* This step only removes contexts from the pool.
Keeps == predates' = predates \intersect Pooled'

\* This step drops the free contexts and adds one (at any free address).
Adds == predates' = predates \intersect busy_contexts

AuditNext ==
    \/ \E w \in Workers :
         \/ Connect(w) /\ Adds
         \/ FailToConnect(w) /\ IF SicknessTTL > 0 THEN Flags ELSE Keeps
         \/ /\ \/ Enter(w) \/ Reuse(w) \/ Wait(w) \/ Unlock(w)
               \/ SpuriousWakeup(w) \/ CommandBreaks(w)
            /\ Keeps
    \/ ProbeFails /\ IF SicknessTTL > 0 THEN Flags ELSE Keeps
    \/ SentinelUpdate(TRUE) /\ Flags
    \/ (ProbeOK \/ SentinelUpdate(FALSE) \/ WarmEvent \/ ColdEvent \/ Tick) /\ Keeps

AuditSpec == AuditInit /\ [][AuditNext]_auditVars

(***************************************************************************)
(* "Once a server is flagged as sick and while the flag is not expired the *)
(* module will lazily drop existing connections to that server"            *)
(* (vmod_redis.vcc, sickness_ttl): no worker is handed a connection that   *)
(* existed when the server was flagged.                                    *)
(***************************************************************************)
SickConnectionsDropped ==
    [][\A w \in Workers :
         sickness.exp > clock /\ held[w] = NoContext /\ held'[w] # NoContext
           => held'[w] \notin predates']_auditVars
=============================================================================
