-------------------------------- MODULE Accounts --------------------------------
(***************************************************************************)
(* A customer account of the dashboard (accounts.py, accounts_pg.py), its  *)
(* proxy key, and the plan that Stripe's webhooks set (billing_stripe.py). *)
(* Stripe sends an event until it is answered, in any order and to any     *)
(* dashboard process; each statement of the account store commits alone.   *)
(* Left out: passwords, e-mail tokens, sessions, the signature of an event *)
(* (no other sender gets past it) and accounts besides this one.           *)
(***************************************************************************)
EXTENDS Integers, FiniteSets

CONSTANTS
  Customers,    \* Stripe makes a customer for each checkout
  Paid,         \* the plans one pays for
  Hooks,        \* webhook requests that may be in flight together
  MaxKeys,      \* bound: keys the account ever has
  MaxStripe     \* bound: events Stripe ever creates

NoOne == "no customer"

ASSUME AccountsAssumption ==
  /\ "free" \notin Paid /\ Paid # {} /\ NoOne \notin Customers
  /\ MaxKeys \in Nat \ {0} /\ MaxStripe \in Nat

VARIABLES
  billing,    \* "stripe", or "simulated" when no secret key is configured
  account,    \* plan, api_key and stripe_customer_id
  subs,       \* Stripe: each customer's subscription and its plan
  outbox,     \* Stripe: events not answered yet; n tells their order
  created,    \* Stripe: events created so far
  newest,     \* ghost: the customer who paid last
  hooks,      \* webhook handlers in flight
  ordered     \* ghost: events were handled one at a time, oldest first

billingVars == <<billing, subs, outbox, created, newest, hooks, ordered>>
accountVars == <<account, billingVars>>

NoSub == [status |-> "none"]
NoHook == [at |-> "none"]
Plans == Paid \cup {"free"}
KeyIds == 1..MaxKeys

AccountsInit ==
  /\ billing \in {"stripe", "simulated"}
  /\ account = [plan |-> "free", key |-> 1, customer |-> NoOne]
  /\ subs = [c \in Customers |-> NoSub]
  /\ outbox = {} /\ created = 0 /\ newest = NoOne
  /\ hooks = [h \in Hooks |-> NoHook]
  /\ ordered = TRUE

Events == [n : 1..MaxStripe, cus : Customers, plan : Paid,
           type : {"completed", "active", "unpaid", "deleted"}]
Subs == {NoSub} \cup [status : {"active", "unpaid", "deleted"}, plan : Paid]
HookStates == {NoHook} \cup [at : {"attach", "lookup", "plan"}, event : Events]

AccountsTypeOK ==
  /\ billing \in {"stripe", "simulated"}
  /\ account \in [plan : Plans, key : KeyIds, customer : Customers \cup {NoOne}]
  /\ subs \in [Customers -> Subs]
  /\ outbox \subseteq Events /\ created \in 0..MaxStripe
  /\ newest \in Customers \cup {NoOne}
  /\ hooks \in [Hooks -> HookStates] /\ ordered \in BOOLEAN
--------------------------------------------------------------------------------
(* POST /api/app/billing/checkout.  Without Stripe the plan is set; with   *)
(* it the user pays at Stripe, which then owes the dashboard an event.     *)
SimulatedCheckout(p) ==
  /\ billing = "simulated"
  /\ account' = [account EXCEPT !.plan = p]
  /\ UNCHANGED billingVars

Owe(type, c, p) ==
  /\ billing = "stripe" /\ created < MaxStripe
  /\ created' = created + 1
  /\ outbox' = outbox \cup {[n |-> created + 1, cus |-> c, plan |-> p, type |-> type]}
  /\ UNCHANGED <<billing, account, hooks, ordered>>

Pay(c, p) ==
  /\ subs[c] = NoSub
  /\ subs' = [subs EXCEPT ![c] = [status |-> "active", plan |-> p]]
  /\ newest' = c
  /\ Owe("completed", c, p)

(* A payment fails or is made up for, the plan is switched in the portal   *)
(* (the plan in the metadata stays that of the checkout), or it ends.      *)
(* "active" stands for every status that the dashboard keeps the plan for, *)
(* past_due, paused and trialing among them; "unpaid" for those that it    *)
(* takes the plan for: canceled, unpaid and incomplete_expired.            *)
SubscriptionIs(c, s) ==
  /\ subs[c] # NoSub /\ subs[c].status # "deleted"
  /\ s = "unpaid" => subs[c].status = "active"
  /\ subs' = [subs EXCEPT ![c].status = s]
  /\ Owe(s, c, subs[c].plan)
  /\ UNCHANGED newest
--------------------------------------------------------------------------------
(* POST /api/stripe/webhook.                                               *)
Oldest(e) == \A f \in outbox : e.n <= f.n

WebhookStart(h, e) ==
  /\ hooks[h] = NoHook /\ e \in outbox
  /\ hooks' = [hooks EXCEPT ![h] =
       [at |-> IF e.type = "completed" THEN "attach" ELSE "lookup", event |-> e]]
  /\ ordered' = (ordered /\ Oldest(e) /\ \A g \in Hooks : hooks[g] = NoHook)
  /\ UNCHANGED <<billing, account, subs, outbox, created, newest>>

AttachStripe(h) ==
  /\ hooks[h].at = "attach"
  /\ account' = [account EXCEPT !.customer = hooks[h].event.cus]
  /\ hooks' = [hooks EXCEPT ![h].at = "plan"]
  /\ UNCHANGED <<billing, subs, outbox, created, newest, ordered>>

\* An answer may be lost; Stripe then sends the event again.
Answered(h) ==
  /\ hooks' = [hooks EXCEPT ![h] = NoHook]
  /\ \/ outbox' = outbox \ {hooks[h].event}
     \/ UNCHANGED outbox
  /\ UNCHANGED <<billing, subs, created, newest, ordered>>

MutIsOurs(e) == account.customer # NoOne   \* mutant: any customer's event counts
IsOurs(e) == account.customer = e.cus

EmailForCustomer(h) ==
  /\ hooks[h].at = "lookup"
  /\ IsOurs(hooks[h].event)
  /\ hooks' = [hooks EXCEPT ![h].at = "plan"]
  /\ UNCHANGED <<billing, account, subs, outbox, created, newest, ordered>>

UnknownCustomer(h) ==
  /\ hooks[h].at = "lookup"
  /\ ~IsOurs(hooks[h].event)
  /\ Answered(h)
  /\ UNCHANGED account

PlanFor(e) == IF e.type \in {"unpaid", "deleted"} THEN "free" ELSE e.plan

SetPlan(h) ==
  /\ hooks[h].at = "plan"
  /\ account' = [account EXCEPT !.plan = PlanFor(hooks[h].event)]
  /\ Answered(h)

HookLost(h) ==
  /\ hooks[h] # NoHook
  /\ hooks' = [hooks EXCEPT ![h] = NoHook]
  /\ UNCHANGED <<billing, account, subs, outbox, created, newest, ordered>>
--------------------------------------------------------------------------------
(* POST /api/app/keys/rotate: the old key is gone at once.                 *)
RotateKey ==
  /\ account.key < MaxKeys
  /\ account' = [account EXCEPT !.key = @ + 1]
  /\ UNCHANGED billingVars

(* GET /internal/keys/{api_key}: the plan behind a key.                    *)
ResolveKey(k) == IF k = account.key THEN account.plan ELSE NoOne

BillingNext ==
  \/ \E c \in Customers :
       \/ \E p \in Paid : Pay(c, p)
       \/ \E s \in {"active", "unpaid", "deleted"} : SubscriptionIs(c, s)
  \/ \E h \in Hooks :
       \/ AttachStripe(h) \/ EmailForCustomer(h) \/ UnknownCustomer(h)
       \/ SetPlan(h) \/ HookLost(h) \/ \E e \in outbox : WebhookStart(h, e)

AccountNext == RotateKey \/ \E p \in Paid : SimulatedCheckout(p)

AccountsSpec == AccountsInit /\ [][BillingNext \/ AccountNext]_accountVars
--------------------------------------------------------------------------------
(* Once Stripe's events were handled, oldest first, the account has a paid *)
(* plan if and only if the subscription bought last is paid for, or in a   *)
(* status the plan is kept for: lost and repeated deliveries, handlers cut *)
(* short between their two statements and the end of an older subscription *)
(* do not change that.                                                     *)
PlanTellsPayment ==
  /\ ordered /\ outbox = {} /\ newest # NoOne
  /\ \A h \in Hooks : hooks[h] = NoHook
  => (account.plan # "free" <=> subs[newest].status = "active")
================================================================================
