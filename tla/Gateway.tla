-------------------------------- MODULE Gateway --------------------------------
(***************************************************************************)
(* The gateway's tool calls, its audit log and its OAuth broker, side by   *)
(* side: their handlers share no state but the row that an audited call    *)
(* writes, of which each model keeps what it needs.  A behaviour of the    *)
(* gateway is one of each.                                                 *)
(***************************************************************************)
EXTENDS ToolCalls, AuditChain, OAuth

GatewaySpec == ToolCallsSpec /\ AuditSpec /\ OAuthSpec

(* Buckets, windows, caches, chains and tokens are what the modules say    *)
(* they are, and no agent gets more calls through than its buckets hold.   *)
GatewaySound == ToolCallsTypeOK /\ AuditTypeOK /\ OAuthTypeOK /\ TokensBounded
================================================================================
