------------------------------- MODULE MCIdentity -------------------------------
(* Identities and customer accounts side by side: a behaviour runs one     *)
(* "part" of them and leaves the others alone, so that one run of TLC      *)
(* covers every part.                                                      *)
(* Keys: without verifiers ("signing") and without issue ("trusting").     *)
(* Revocations: without pollers ("sharing"), and with the pollers, one     *)
(* process and Redis down ("polling"), where requests race for one token,  *)
(* pollers restart, and a request that no poller can see any more ends     *)
(* before anything else happens.                                           *)
(* Accounts: Stripe's webhooks ("billing"); the proxy's key cache while    *)
(* checkouts are simulated, where one lookup asks for any key and the      *)
(* other for the first ("lookups"); its meter, where one tenant's tools    *)
(* are cached and called twice in a round ("metering"); and one tenant's   *)
(* policy changing under its tools while time passes ("shaping").          *)
(* Quotas and Erasure: the parts of MCQuotas and MCErasure.                *)
EXTENDS Identity, MCQuotas, MCErasure

CONSTANTS s1, n1, o1, t3, e1, l1   \* the members the bounds below single out

VARIABLE part

MCParts == {"signing", "trusting", "sharing", "polling",
            "billing", "lookups", "metering", "shaping", "counting", "aging",
            "erasing", "overlapping"}
mcVars == <<keyVars, revVars, proxyVars, quotaVars, erasureVars, part>>

MCInit ==
  /\ KeysInit /\ RevocationInit /\ ProxyInit /\ QuotasInit /\ part \in MCParts
  /\ BegunErasure /\ (part \notin {"erasing", "overlapping"} => rows = Full)
  /\ part # "erasing" => urls = {"workspace", "gateway"}
  /\ billing = (IF part = "billing" THEN "stripe" ELSE "simulated")

\* At most one token is signed.
SigningNext ==
  /\ KeysNext
  /\ UNCHANGED <<jwks, fetch>>
  /\ Cardinality(tokens') + Cardinality({o \in Ops : op'[o].at = "sign"}) <= 1

TrustingNext ==
  /\ KeysNext
  /\ UNCHANGED tokens
  /\ \A o \in Ops : op'[o] # NoOp =>
       o = o1 /\ op'[o].server = s1 /\ op'[o].at # "sign"
  /\ \A s \in Servers \ {s1} : wake'[s] # 0

SharingNext ==
  /\ RevocationNext
  /\ UNCHANGED <<blocked, cursor, poll>>
  /\ expires'[t3] = 0

Told == {i \in Requests : req[i].at \in {"cache", "share"}}

PollingNext ==
  /\ RevocationNext
  /\ shared' = Gone
  /\ \A t \in Tokens : expires'[t] \in {0, 1 + Max(Ttls)}
  /\ \A i \in Requests : req'[i] # NoRequest =>
       /\ req'[i].node = n1
       /\ \A j \in Requests \ {i} :
            req'[j] # NoRequest => req'[j].jti # req'[i].jti \/ req'[j].jti # t3
  /\ restarts' # restarts => req' = req
  /\ Told # {} => \E i \in Told : req'[i] # req[i]

LookingNext ==
  /\ LookupNext \/ SecondPasses
  /\ \A i \in Lookups \ {l1} : lookup'[i] # NoLookup => lookup'[i].key = 1

MeteringNext ==
  /\ CallNext
  /\ \A t \in Tenants \ {e1} : shaped'[t] = shaped[t]
  /\ \A i \in Chats : chat'[i] # NoChat /\ chat'[i].twice => chat'[i].of = e1
  /\ Cardinality({i \in Chats : chat'[i] # NoChat /\ chat'[i].round > 0}) <= 1

ShapingNext ==
  /\ CallNext \/ SecondPasses \/ \E t \in Tenants : SetOverride(t)
  /\ UNCHANGED month /\ \A t \in Tenants \ {e1} : policy'[t] = policy[t]
  /\ \A i \in Chats : chat'[i] # NoChat =>
       chat'[i].of = e1 /\ chat'[i].round = 0 /\ ~chat'[i].twice

MCNext ==
  /\ UNCHANGED part
  /\ \/ /\ UNCHANGED <<revVars, proxyVars, quotaVars, erasureVars>>
        /\ \/ part = "signing" /\ SigningNext
           \/ part = "trusting" /\ TrustingNext
     \/ /\ UNCHANGED <<keyVars, proxyVars, quotaVars, erasureVars>>
        /\ \/ part = "sharing" /\ SharingNext
           \/ part = "polling" /\ PollingNext
     \/ /\ UNCHANGED <<keyVars, revVars, quotaVars, erasureVars>>
        /\ \/ part = "billing" /\ WebhookNext
           \/ part = "lookups" /\ LookingNext
           \/ part = "metering" /\ MeteringNext
           \/ part = "shaping" /\ ShapingNext
     \/ /\ UNCHANGED <<keyVars, revVars, proxyVars, erasureVars>>
        /\ \/ part = "counting" /\ CountingNext
           \/ part = "aging" /\ AgingNext
     \/ /\ UNCHANGED <<keyVars, revVars, proxyVars, quotaVars>>
        /\ \/ part = "erasing" /\ ErasingNext
           \/ part = "overlapping" /\ OverlappingNext

\* A poller's loop goes on; of its polls not all fail.
MCFairness ==
  \A p \in Pollers :
    /\ WF_revVars(part = "polling" /\ PollSend(p))
    /\ SF_revVars(part = "polling" /\ PollRead(p))
    /\ SF_revVars(part = "polling" /\ PollApply(p))

(* LatestArrives, in the part that has polls.                              *)
NewestRevocationArrives == part = "polling" => LatestArrives

MCSpec == MCInit /\ [][MCNext]_mcVars /\ MCFairness
================================================================================
