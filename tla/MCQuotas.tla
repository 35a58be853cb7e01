-------------------------------- MODULE MCQuotas --------------------------------
(* Quotas for TLC, in two parts: creations that run together while time    *)
(* stands still ("counting"), and checks that come and go with time, with  *)
(* nothing admitted ("aging").                                             *)
EXTENDS Quotas

CountingNext ==
  /\ QuotasNext
  /\ quotaTime' = 0 /\ \A k \in Kinds : unasked'[k] <= MaxThings

AgingNext == QuotasNext /\ UNCHANGED <<told, unasked, things>>
================================================================================
