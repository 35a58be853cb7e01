--------------------------------- MODULE Proxy ---------------------------------
(***************************************************************************)
(* The LLM proxy (services/proxy): one process, whose handlers interleave  *)
(* at their awaits.  It caches what the dashboard answers about customer   *)
(* keys (accounts_client.py), meters the shaped tokens of each tenant from *)
(* a list of events all requests share (savings.py, tier_gate.py), and     *)
(* caches tool results shaped by the tenant's policy (cache.py,            *)
(* policy_overrides.py).  A tool result is one token, a policy a number.   *)
(* Left out: the dialects (each translates and then does what a chat       *)
(* does), several different calls in a round, the tiers' features, what a  *)
(* policy keeps, the sink, and the cap of the event list (50000 events).   *)
(***************************************************************************)
EXTENDS Accounts

CONSTANTS
  Tenants,
  Chats,        \* requests for a chat, a tool or shaping that may overlap
  Lookups,      \* requests that wait for the dashboard's answer
  Budget,       \* monthly_token_budget of the tenants' tier
  MaxRounds,    \* MAX_TOOL_ROUNDS
  ToolTtl,      \* cache_ttl of the policy
  KeyTtl,       \* accounts_cache_ttl_s
  MissTtl,      \* negative_ttl_s
  MaxEvents, MaxMonth, MaxPolicy, LastSecond   \* bounds

ASSUME ProxyAssumption ==
  /\ IsFiniteSet(Chats) /\ Budget \in Nat /\ MaxRounds \in Nat \ {0}
  /\ {ToolTtl, KeyTtl, MissTtl, MaxMonth} \subseteq Nat \ {0}
  /\ {MaxEvents, MaxPolicy, LastSecond} \subseteq Nat

VARIABLES
  second,
  keyCache,     \* key -> until when, and the plan it stands for (or none)
  lookup,       \* requests to the dashboard in flight
  heldTill,     \* ghost: when a key last stood for a plan
  events,       \* number of events appended, of one token each
  month,
  usage,        \* the gate: tokens of a tenant this month
  charged,      \* ghost: of these, tokens its own requests made
  billed,       \* ghost: all tokens ever charged
  chat,         \* requests in flight
  policy,       \* each tenant's policy
  changedAt,    \* ghost: second of its last change
  crossed,      \* ghost: a tool was running for the tenant when it changed
  shaped        \* tool cache: the policy a tenant's result was shaped by

lookupVars == <<keyCache, lookup, heldTill>>
meterVars == <<events, month, usage, charged, billed>>
shapeVars == <<policy, changedAt, crossed, shaped>>
proxyVars == <<accountVars, second, lookupVars, meterVars, chat, shapeVars>>

NoEntry == [plan |-> "not cached"]
NoLookup == [at |-> "none"]
NoChat == [at |-> "none"]
NotYet == -KeyTtl

ProxyInit ==
  /\ AccountsInit
  /\ second = 0 /\ month = 1
  /\ keyCache = [k \in KeyIds |-> NoEntry]
  /\ lookup = [i \in Lookups |-> NoLookup]
  /\ heldTill = [k \in KeyIds |-> [p \in Plans |-> NotYet]]
  /\ events = 0 /\ billed = 0
  /\ usage = [t \in Tenants |-> 0] /\ charged = [t \in Tenants |-> 0]
  /\ chat = [i \in Chats |-> NoChat]
  /\ policy = [t \in Tenants |-> 0] /\ changedAt = [t \in Tenants |-> 0]
  /\ crossed = [t \in Tenants |-> FALSE]
  /\ shaped = [t \in Tenants |-> NoEntry]

Entries(V) == {NoEntry} \cup [plan : V, till : Nat]
LookupStates ==
  {NoLookup} \cup [at : {"sent"}, key : KeyIds, when : Nat]
             \cup [at : {"answer"}, key : KeyIds, when : Nat, plan : Plans \cup {NoOne}]
ChatStates ==
  {NoChat} \cup [at : {"llm", "tool", "invoke"}, of : Tenants, before : Nat, own : Nat,
                 round : 0..MaxRounds - 1, twice : BOOLEAN, plan : 0..MaxPolicy]

ProxyTypeOK ==
  /\ AccountsTypeOK
  /\ second \in 0..LastSecond /\ month \in 1..MaxMonth /\ events \in Nat /\ billed \in Nat
  /\ keyCache \in [KeyIds -> Entries(Plans \cup {NoOne})]
  /\ lookup \in [Lookups -> LookupStates]
  /\ heldTill \in [KeyIds -> [Plans -> {NotYet} \cup 0..LastSecond]]
  /\ usage \in [Tenants -> Nat] /\ charged \in [Tenants -> Nat]
  /\ chat \in [Chats -> ChatStates]
  /\ policy \in [Tenants -> 0..MaxPolicy] /\ changedAt \in [Tenants -> 0..LastSecond]
  /\ crossed \in [Tenants -> BOOLEAN]
  /\ shaped \in [Tenants -> Entries(0..MaxPolicy)]
--------------------------------------------------------------------------------
(* AccountsKeyClient.resolve.  The lifetime of an entry counts from the    *)
(* time the question was sent.                                             *)
KeyFresh(k) == keyCache[k] # NoEntry /\ keyCache[k].till > second

AskKey(i, k) ==
  /\ lookup[i] = NoLookup
  /\ k <= account.key /\ ~KeyFresh(k)
  /\ lookup' = [lookup EXCEPT ![i] = [at |-> "sent", key |-> k, when |-> second]]
  /\ UNCHANGED <<accountVars, second, keyCache, heldTill, meterVars, chat, shapeVars>>

KeyAnswered(i) ==
  /\ lookup[i].at = "sent"
  /\ lookup' = [lookup EXCEPT ![i] =
       [at |-> "answer", key |-> @.key, when |-> @.when, plan |-> ResolveKey(@.key)]]
  /\ UNCHANGED <<accountVars, second, keyCache, heldTill, meterVars, chat, shapeVars>>

MutKeptTill(l) == second + IF l.plan = NoOne THEN MissTtl ELSE KeyTtl   \* mutant: from the answer
KeptTill(l) == l.when + IF l.plan = NoOne THEN MissTtl ELSE KeyTtl

CacheKey(i) ==
  /\ lookup[i].at = "answer"
  /\ keyCache' = [keyCache EXCEPT ![lookup[i].key] =
       [plan |-> lookup[i].plan, till |-> KeptTill(lookup[i])]]
  /\ lookup' = [lookup EXCEPT ![i] = NoLookup]
  /\ UNCHANGED <<accountVars, second, heldTill, meterVars, chat, shapeVars>>

\* Unreachable, or an answer of 500 and above: an entry that has run out is
\* used once more and stays as it is.
DashboardFails(i) ==
  /\ lookup[i] # NoLookup
  /\ lookup' = [lookup EXCEPT ![i] = NoLookup]
  /\ UNCHANGED <<accountVars, second, keyCache, heldTill, meterVars, chat, shapeVars>>

\* The key is rotated or a checkout simulated.
AccountChanges ==
  /\ AccountNext
  /\ heldTill' = [heldTill EXCEPT ![account.key][account.plan] = second]
  /\ UNCHANGED <<second, keyCache, lookup, meterVars, chat, shapeVars>>
--------------------------------------------------------------------------------
(* The gate and the meter.                                                 *)
GateOpen(t) == usage[t] < Budget

RecordTokens(t, n, own) ==
  /\ usage' = [usage EXCEPT ![t] = @ + n]
  /\ charged' = [charged EXCEPT ![t] = @ + own]
  /\ billed' = billed + n
  /\ UNCHANGED month

Emit(n) == events + n <= MaxEvents /\ events' = events + n

\* What a request charges: all events since it began, whoever caused them.
MutWindow(c, n) == events + n   \* mutant: from the start of the list
Window(c, n) == events + n - c.before

(* End of a chat: on a final answer, or after MAX_TOOL_ROUNDS rounds; n    *)
(* events are appended in the same step.                                   *)
ChatEnds(i, n) ==
  /\ Emit(n)
  /\ RecordTokens(chat[i].of, Window(chat[i], n), chat[i].own + n)
  /\ chat' = [chat EXCEPT ![i] = NoChat]

NextRound(i, n) ==
  IF chat[i].round + 1 = MaxRounds
  THEN ChatEnds(i, n)
  ELSE /\ Emit(n)
       /\ chat' = [chat EXCEPT ![i].at = "llm", ![i].round = @ + 1, ![i].own = @ + n]
       /\ UNCHANGED <<month, usage, charged, billed>>

Request(at, t) == [at |-> at, of |-> t, before |-> events, own |-> 0,
                   round |-> 0, twice |-> FALSE, plan |-> policy[t]]

ChatStart(i, t) ==
  /\ chat[i] = NoChat /\ GateOpen(t)
  /\ chat' = [chat EXCEPT ![i] = Request("llm", t)]
  /\ UNCHANGED <<accountVars, second, lookupVars, meterVars, shapeVars>>

FinalAnswer(i) ==
  /\ chat[i].at = "llm"
  /\ ChatEnds(i, 0)
  /\ UNCHANGED <<accountVars, second, lookupVars, shapeVars>>

UpstreamFails(i) ==
  /\ chat[i] # NoChat
  /\ chat' = [chat EXCEPT ![i] = NoChat]
  /\ UNCHANGED <<accountVars, second, lookupVars, meterVars, shapeVars>>
--------------------------------------------------------------------------------
(* Tool calls of a chat.  The model may ask for the same call twice in a   *)
(* round: it runs once, and the second answer is an event of its own.      *)
Answers(twice) == IF twice THEN 2 ELSE 1
MutToolCached(t) == shaped[t] # NoEntry   \* mutant: entries never expire
ToolCached(t) == shaped[t] # NoEntry /\ shaped[t].till >= second

ToolFromCache(i, twice) ==
  /\ chat[i].at = "llm" /\ ToolCached(chat[i].of)
  /\ NextRound(i, Answers(twice))
  /\ UNCHANGED <<accountVars, second, lookupVars, shapeVars>>

ToolRuns(i, twice) ==
  /\ chat[i].at = "llm" /\ ~ToolCached(chat[i].of)
  /\ chat' = [chat EXCEPT ![i] =
       [@ EXCEPT !.at = "tool", !.twice = twice, !.plan = policy[chat[i].of]]]
  /\ UNCHANGED <<accountVars, second, lookupVars, meterVars, shapeVars>>

\* The result is shaped by the policy read before the tool ran.
StoreShaped(c) ==
  /\ shaped' = [shaped EXCEPT ![c.of] = [plan |-> c.plan, till |-> second + ToolTtl]]
  /\ UNCHANGED <<policy, changedAt, crossed>>

ToolAnswers(i) ==
  /\ chat[i].at = "tool"
  /\ StoreShaped(chat[i])
  /\ NextRound(i, Answers(chat[i].twice))
  /\ UNCHANGED <<accountVars, second, lookupVars>>

\* The model gets an error message; its copy is an event all the same.
ToolFails(i) ==
  /\ chat[i].at = "tool"
  /\ NextRound(i, IF chat[i].twice THEN 1 ELSE 0)
  /\ UNCHANGED <<accountVars, second, lookupVars, shapeVars>>
--------------------------------------------------------------------------------
(* POST /v1/shape, and /v1/tools/{tool}/invoke when the result is cached.  *)
ShapeOnce(i, t) ==
  /\ chat[i] = NoChat /\ GateOpen(t)
  /\ Emit(1) /\ RecordTokens(t, 1, 1)
  /\ UNCHANGED <<accountVars, second, lookupVars, chat, shapeVars>>

InvokeStart(i, t) ==
  /\ chat[i] = NoChat /\ GateOpen(t) /\ ~ToolCached(t)
  /\ chat' = [chat EXCEPT ![i] = Request("invoke", t)]
  /\ UNCHANGED <<accountVars, second, lookupVars, meterVars, shapeVars>>

InvokeEnds(i) ==
  /\ chat[i].at = "invoke"
  /\ StoreShaped(chat[i])
  /\ Emit(1) /\ RecordTokens(chat[i].of, 1, 1)
  /\ chat' = [chat EXCEPT ![i] = NoChat]
  /\ UNCHANGED <<accountVars, second, lookupVars>>

(* PUT /v1/policies/{connector}/{tool}/override; the tool cache is left.   *)
SetOverride(t) ==
  /\ policy[t] < MaxPolicy
  /\ policy' = [policy EXCEPT ![t] = @ + 1]
  /\ changedAt' = [changedAt EXCEPT ![t] = second]
  /\ crossed' = [crossed EXCEPT ![t] = @ \/ \E i \in Chats :
                   chat[i].at \in {"tool", "invoke"} /\ chat[i].of = t]
  /\ UNCHANGED <<accountVars, second, lookupVars, meterVars, chat, shaped>>

SecondPasses ==
  /\ second < LastSecond /\ second' = second + 1
  /\ UNCHANGED <<accountVars, lookupVars, meterVars, chat, shapeVars>>

MonthEnds ==
  /\ month < MaxMonth /\ month' = month + 1
  /\ usage' = [t \in Tenants |-> 0] /\ charged' = [t \in Tenants |-> 0]
  /\ UNCHANGED <<accountVars, second, lookupVars, events, billed, chat, shapeVars>>

LookupNext ==
  \/ \E i \in Lookups : \/ KeyAnswered(i) \/ CacheKey(i) \/ DashboardFails(i)
                        \/ \E k \in KeyIds : AskKey(i, k)
  \/ AccountChanges

CallNext ==
  \/ \E i \in Chats :
       \/ FinalAnswer(i) \/ UpstreamFails(i) \/ ToolAnswers(i) \/ ToolFails(i)
       \/ InvokeEnds(i)
       \/ \E twice \in BOOLEAN : ToolFromCache(i, twice) \/ ToolRuns(i, twice)
       \/ \E t \in Tenants : ChatStart(i, t) \/ ShapeOnce(i, t) \/ InvokeStart(i, t)
  \/ MonthEnds

\* Stripe's side of the dashboard, and its webhooks.
WebhookNext ==
  /\ BillingNext
  /\ heldTill' = [heldTill EXCEPT ![account.key][account.plan] = second]
  /\ UNCHANGED <<second, keyCache, lookup, meterVars, chat, shapeVars>>

ProxyNext ==
  \/ LookupNext \/ CallNext \/ WebhookNext
  \/ \E t \in Tenants : SetOverride(t)
  \/ SecondPasses

ProxySpec == ProxyInit /\ [][ProxyNext]_proxyVars
--------------------------------------------------------------------------------
(* "A key rotation locks the old key out within a minute", and a change of *)
(* plan is as quick: what the proxy takes without asking was true less     *)
(* than one cache lifetime ago, however slow answers are and whichever     *)
(* overtakes the other.  Only a dashboard that cannot be reached lets an   *)
(* older answer through.                                                   *)
KnownKeyIsRecent ==
  \A k \in KeyIds :
    KeyFresh(k) /\ keyCache[k].plan \notin {NoOne, ResolveKey(k)}
      => heldTill[k][keyCache[k].plan] + KeyTtl > second

(* No finished request is free of charge, and no event is charged more     *)
(* often than there were requests open when it happened.                   *)
TokensMetered ==
  /\ \A t \in Tenants : usage[t] >= charged[t]
  /\ billed <= Cardinality(Chats) * events

(* A result shaped by a policy the tenant has since replaced is not used   *)
(* for longer than the cache keeps it, unless its tool was running when    *)
(* the policy changed.                                                     *)
OldShapeIsBrief ==
  \A t \in Tenants :
    ToolCached(t) /\ shaped[t].plan # policy[t]
      => crossed[t] \/ second <= changedAt[t] + ToolTtl

(* The proxy's and the accounts' variables have their types, and what the  *)
(* proxy uses without asking anew was true not long ago: a customer's plan *)
(* and the policy a cached result was shaped by.                           *)
ProxyKnowsRecent == ProxyTypeOK /\ KnownKeyIsRecent /\ OldShapeIsBrief

(* "The slice st.events[before:] is exactly the interceptions this call    *)
(* produced" (api.py): what a chat is charged is what it made.             *)
WindowIsOwn ==
  \A i \in Chats : chat[i].at \in {"llm", "tool"} => Window(chat[i], 0) = chat[i].own
================================================================================
