------------------------------- MODULE MCGateway -------------------------------
(* The gateway's models side by side: a behaviour runs one "part" of them  *)
(* and leaves the others alone.  Tool calls are three parts: the tokens of *)
(* an agent while its limits change; what an agent spends; and the cache,  *)
(* with anonymous callers and the tool registered anew.  The calls of a    *)
(* transaction and its handlers are interchangeable: in part "saga" calls  *)
(* are added in order, the second handler starts while the first runs,     *)
(* with three calls there is no second, and the cache answers for one call *)
(* or its compensation, or both.                                           *)
EXTENDS Gateway, Transactions

CONSTANTS k1, k2, k3, x1, x2   \* the members of Calls and Handlers

VARIABLE part

MCParts == {"tokens", "spending", "caching", "audit", "oauth", "saga"}
mcVars == <<toolVars, auditVars, oauthVars, vars, part>>

MCDefaults == [rpm |-> 1, burst |-> 2, hour |-> 1, day |-> 2]
MCBodies == {[burst |-> 1], [rpm |-> 2, hour |-> 2]}
MCQuotas == {[rpm |-> 1, day |-> 3], [rpm |-> 2, day |-> 3]}

MayBeLost == {TRUE}

MCInit == ToolCallsInit /\ AuditInit /\ OAuthInit /\ Init /\ part \in MCParts

\* The stages the requests of a part reach.
Reach(stages) == \A i \in Invokers : inv'[i].at \in stages \cup {"none"}

TokensNext ==
  /\ ToolCallsNext
  /\ Reach({"limits", "bucket", "caps", "write", "reset"})
  /\ llm' = 0 /\ UNCHANGED registered

SpendingNext ==
  /\ ToolCallsNext
  /\ Reach(InvokeStages \ {"lookup", "store"})
  /\ UNCHANGED <<limits, changes, registered>>
  /\ minute' <= 2 /\ \A r \in spent' : r.by # Anonymous

CachingNext ==
  /\ ToolCallsNext
  /\ Reach({"rpm", "cost", "record", "tool", "lookup", "call", "store", "audit", "clear"})
  /\ llm' = 0 /\ changes' = 0 /\ called' <= 2 /\ minute' <= 2

SagaNext ==
  /\ Next
  /\ status'[k3] # "none" => status'[k2] # "none"
  /\ status'[k2] # "none" => status'[k1] # "none"
  /\ h'[x2] # Idle => status'[k3] = "none" /\ (h[x1] # Idle \/ h[x2] # Idle)
  /\ \A c, d \in hits' \cup undoHits' : c = d

MCNext ==
  /\ UNCHANGED part
  /\ \/ /\ UNCHANGED <<auditVars, oauthVars, vars>>
        /\ \/ part = "tokens" /\ TokensNext
           \/ part = "spending" /\ SpendingNext
           \/ part = "caching" /\ CachingNext
     \/ part = "audit" /\ AuditNext /\ UNCHANGED <<toolVars, oauthVars, vars>>
     \/ part = "oauth" /\ OAuthNext /\ UNCHANGED <<toolVars, auditVars, vars>>
     \/ part = "saga" /\ SagaNext /\ UNCHANGED <<toolVars, auditVars, oauthVars>>

MCSpec == MCInit /\ [][MCNext]_mcVars
================================================================================
