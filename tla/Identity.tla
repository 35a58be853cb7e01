-------------------------------- MODULE Identity --------------------------------
(***************************************************************************)
(* The identity service's signing keys, its revocations with the processes *)
(* that hear of them, its quotas and its erasures, and the proxy in front  *)
(* of the customer accounts, side by side: they share no state.  (A token  *)
(* of Keys is one that somebody may verify, a token of Revocation one that *)
(* somebody may revoke: neither looks at what the other keeps of it.)      *)
(***************************************************************************)
EXTENDS Keys, Revocation, Proxy, Quotas, Erasure

IdentitySpec == KeysSpec /\ RevocationSpec /\ QuotasSpec /\ ErasureSpec

(* Rotation keeps one signer and the keys of live tokens, processes and    *)
(* pollers hold revocations there are, and the rest has its type.          *)
IdentitySound == RotationSound /\ RevocationSound /\ QuotasTypeOK /\ ErasureTypeOK
================================================================================
