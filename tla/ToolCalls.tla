-------------------------------- MODULE ToolCalls --------------------------------
(***************************************************************************)
(* POST /v1/invoke of the gateway: the limits of the agent (limits.py,     *)
(* rate_limit.py, cost_caps.py), the quotas of the tenant                  *)
(* (tenant_quotas.py), the tool (registry.py), the result cache (cache.py),*)
(* the call itself and its row in the audit log, which is what the cost    *)
(* caps add up.                                                            *)
(*                                                                         *)
(* Between the reads and writes of a handler others run: each is a step.   *)
(* One tenant, one tool and one set of arguments stand for all, which      *)
(* share no state.  A call costs one unit; a minute is a unit of time.     *)
(***************************************************************************)
EXTENDS Naturals, FiniteSets, FiniteSetsExt

CONSTANTS Agents,       \* agents that identify themselves
          Anonymous,    \* agent_id None
          Invokers,     \* slots for requests in flight
          Defaults,     \* limits of an agent without a row
          Bodies,       \* fields given to PUT /v1/limits
          Quotas,       \* quotas the identity service, or no answer, gives
          Hour, Day,    \* the windows of the cost caps
          CacheFor,     \* cache_ttl_seconds, 0 for no caching
          LastMinute,   \* bound on the clock
          MaxVersions,  \* bound on registrations of the tool
          MaxChanges,   \* bound on changes of limits
          MaxCalls,     \* bound on calls of the backend
          MaxLlm        \* bound on the costs recorded by record-llm

Callers == Agents \cup {Anonymous}
Fields == {"rpm", "burst", "hour", "day"}

ASSUME ToolCallAssumption ==
  /\ Anonymous \notin Agents /\ Defaults \in [Fields -> Nat]
  /\ \A b \in Bodies : DOMAIN b \subseteq Fields /\ b \in [DOMAIN b -> Nat]
  /\ \A q \in Quotas : q \in [{"rpm", "day"} -> Nat]
  /\ {Hour, Day, CacheFor, LastMinute, MaxVersions, MaxChanges,
      MaxCalls, MaxLlm} \subseteq Nat
  /\ LastMinute >= 1 /\ MaxVersions >= 1

VARIABLES minute,    \* clock
          limits,    \* effective limits of each agent: its row or Defaults
          bucket,    \* its token bucket in memory
          invoked,   \* timestamps of the tenant's invocations, in memory
          spent,     \* rows of audit_events that cost: caller, minute, number
          tool,      \* registration of the tool now, 0 if none
          version,   \* registrations so far
          cache,     \* the cache entry
          inv,       \* requests in flight
          passed,    \* history: tokens taken by each agent
          changes,   \* history: changes of limits, and restarts
          called,    \* history: calls of the backend
          llm,       \* history: costs recorded by record-llm
          unbilled,  \* history: calls whose request was lost
          crossed    \* history: a tool deleted while a call of it was in flight

toolVars == <<minute, limits, bucket, invoked, spent, tool, version, cache, inv,
              passed, changes, called, llm, unbilled, crossed>>
history == <<passed, changes, called, llm, unbilled, crossed>>
registered == <<tool, version, cache>>

Minutes == 1..LastMinute
NoBucket == [rpm |-> 0, burst |-> 0, tokens |-> 0, last |-> 0]
NoEntry == [of |-> 0, until |-> 0]
Resting == [at |-> "none"]
Costs == [by : Callers, at : Minutes, n : 1..MaxCalls + MaxLlm]

InvokeStages == {"limits", "bucket", "caps", "hour", "day", "rpm", "cost",
                 "record", "tool", "lookup", "call", "store", "audit"}
AtMost(f, n) == \E b \in Bodies \cup {Defaults} : f \in DOMAIN b /\ n <= b[f]

ToolCallsTypeOK ==
  /\ minute \in Minutes
  /\ \A a \in Agents :
       /\ DOMAIN limits[a] = Fields
       /\ \A f \in Fields : AtMost(f, limits[a][f])
       /\ bucket[a].tokens <= bucket[a].burst /\ bucket[a].last <= minute
  /\ invoked \in [Minutes -> Nat]
  /\ spent \subseteq Costs
  /\ tool \in {0, version} /\ version \in 0..MaxVersions
  /\ cache.of <= version /\ cache.until <= minute + CacheFor
  /\ \A i \in Invokers : inv[i].at \in InvokeStages
                           \cup {"none", "write", "delete", "reset", "clear"}
  /\ called \in 0..MaxCalls /\ llm \in 0..MaxLlm

ToolCallsInit ==
  /\ minute = 1
  /\ limits = [a \in Agents |-> Defaults]
  /\ bucket = [a \in Agents |-> NoBucket]
  /\ invoked = [t \in Minutes |-> 0]
  /\ spent = {}
  /\ tool = 1 /\ version = 1 /\ cache = NoEntry
  /\ inv = [i \in Invokers |-> Resting]
  /\ passed = [a \in Agents |-> 0]
  /\ changes = 0 /\ called = 0 /\ llm = 0 /\ unbilled = 0 /\ crossed = FALSE

At(i, stage) == inv[i].at = stage
Goto(i, stage) == inv' = [inv EXCEPT ![i].at = stage]
Answer(i) == inv' = [inv EXCEPT ![i] = Resting]
SpentBy(a) == {r \in spent : r.by = a}
\* The sum over the rows of a window that ends now.
Within(costs, window) ==
  Cardinality({r \in costs : r.at <= minute /\ r.at + window >= minute})
--------------------------------------------------------------------------------
(* The limits of an agent: assert_within_rate, assert_within_cost_caps.    *)
InvokeStart(i, c) ==
  /\ At(i, "none") /\ called < MaxCalls
  /\ inv' = [inv EXCEPT ![i] = [at |-> IF c = Anonymous THEN "rpm" ELSE "limits", by |-> c]]
  /\ UNCHANGED <<minute, limits, bucket, invoked, spent, registered, history>>

ReadLimits(i) ==
  /\ \/ At(i, "limits") /\ inv' = [inv EXCEPT ![i] =
          [at |-> "bucket", by |-> @.by, limits |-> limits[@.by]]]
     \/ At(i, "caps") /\ inv' = [inv EXCEPT ![i] =
          [at |-> "hour", by |-> @.by, limits |-> limits[@.by]]]
  /\ UNCHANGED <<minute, limits, bucket, invoked, spent, registered, history>>

FreshBucket(l) == [rpm |-> l.rpm, burst |-> l.burst, tokens |-> l.burst, last |-> minute]

\* mutant: a full bucket each time.
MutEnsured(b, l) == FreshBucket(l)

\* _ensure_bucket: another rpm or burst means a fresh, full bucket.
Ensured(b, l) ==
  IF b # NoBucket /\ b.rpm = l.rpm /\ b.burst = l.burst THEN b ELSE FreshBucket(l)

Refilled(b) ==
  [b EXCEPT !.tokens = Min({b.burst, b.tokens + (minute - b.last) * b.rpm}),
            !.last = minute]

TakeToken(i) ==
  LET a == inv[i].by
      b == Refilled(Ensured(bucket[a], inv[i].limits))
  IN  /\ At(i, "bucket")
      /\ IF b.tokens > 0
           THEN /\ bucket' = [bucket EXCEPT ![a] = [b EXCEPT !.tokens = @ - 1]]
                /\ passed' = [passed EXCEPT ![a] = @ + 1]
                /\ inv' = [inv EXCEPT ![i] = [at |-> "caps", by |-> a]]
           ELSE bucket' = [bucket EXCEPT ![a] = b] /\ Answer(i) /\ UNCHANGED passed
      /\ UNCHANGED <<minute, limits, invoked, spent, registered,
                     changes, called, llm, unbilled, crossed>>

Over(used, cap) == cap > 0 /\ used >= cap

\* mutant: the rows at the edge of the window are left out.
MutHourSpent(a) == Within(SpentBy(a), Hour - 1)

HourSpent(a) == Within(SpentBy(a), Hour)

CheckHour(i) ==
  /\ At(i, "hour")
  /\ IF Over(HourSpent(inv[i].by), inv[i].limits.hour)
       THEN Answer(i) ELSE Goto(i, "day")
  /\ UNCHANGED <<minute, limits, bucket, invoked, spent, registered, history>>

CheckDay(i) ==
  /\ At(i, "day")
  /\ IF Over(Within(SpentBy(inv[i].by), Day), inv[i].limits.day)
       THEN Answer(i)
       ELSE inv' = [inv EXCEPT ![i] = [at |-> "rpm", by |-> @.by]]
  /\ UNCHANGED <<minute, limits, bucket, invoked, spent, registered, history>>
--------------------------------------------------------------------------------
(* The quotas of the tenant: check_invoke, record_invoke.                  *)
CheckTenantRpm(i) ==
  /\ At(i, "rpm")
  /\ \E q \in Quotas :
       IF Over(invoked[minute], q.rpm)
         THEN Answer(i)
         ELSE inv' = [inv EXCEPT ![i] = [at |-> "cost", by |-> @.by, day |-> q.day]]
  /\ UNCHANGED <<minute, limits, bucket, invoked, spent, registered, history>>

TenantSpent == Within(spent, Day)

CheckTenantCost(i) ==
  /\ At(i, "cost")
  /\ IF Over(TenantSpent, inv[i].day)
       THEN Answer(i)
       ELSE inv' = [inv EXCEPT ![i] = [at |-> "record", by |-> @.by]]
  /\ UNCHANGED <<minute, limits, bucket, invoked, spent, registered, history>>

RecordInvoke(i) ==
  /\ At(i, "record")
  /\ invoked' = [invoked EXCEPT ![minute] = @ + 1] /\ Goto(i, "tool")
  /\ UNCHANGED <<minute, limits, bucket, spent, registered, history>>
--------------------------------------------------------------------------------
(* The call.  The caller may ask for no caching.                           *)
GetTool(i) ==
  /\ At(i, "tool")
  /\ IF tool = 0 THEN Answer(i)
     ELSE \E cached \in {CacheFor > 0, FALSE} :
            inv' = [inv EXCEPT ![i] =
              [at |-> IF cached THEN "lookup" ELSE "call",
               by |-> @.by, tool |-> tool, cached |-> cached]]
  /\ UNCHANGED <<minute, limits, bucket, invoked, spent, registered, history>>

\* A hit is audited too, at no cost; an expired entry is deleted.
Lookup(i) ==
  /\ At(i, "lookup")
  /\ IF cache # NoEntry /\ cache.until > minute
       THEN Answer(i) /\ UNCHANGED cache
       ELSE Goto(i, "call") /\ cache' = NoEntry
  /\ UNCHANGED <<minute, limits, bucket, invoked, spent, tool, version, history>>

\* proxy.invoke; a failed call skips the cache and is audited with its error.
CallTool(i) ==
  /\ At(i, "call") /\ called < MaxCalls
  /\ called' = called + 1
  /\ \/ inv[i].cached /\ Goto(i, "store")
     \/ Goto(i, "audit")
  /\ UNCHANGED <<minute, limits, bucket, invoked, spent, registered,
                 passed, changes, llm, unbilled, crossed>>

StoreResult(i) ==
  /\ At(i, "store")
  /\ cache' = [of |-> inv[i].tool, until |-> minute + CacheFor]
  /\ Goto(i, "audit")
  /\ UNCHANGED <<minute, limits, bucket, invoked, spent, tool, version, history>>

SpentNow(c) == {r \in SpentBy(c) : r.at = minute}
Billed(c) ==
  spent \cup {[by |-> c, at |-> minute, n |-> Cardinality(SpentNow(c)) + 1]}

AuditCall(i) ==
  /\ At(i, "audit")
  /\ spent' = Billed(inv[i].by) /\ Answer(i)
  /\ UNCHANGED <<minute, limits, bucket, invoked, registered, history>>

\* POST /v1/audit/record-llm: no limit is checked.
RecordLlm(c) ==
  /\ llm < MaxLlm /\ llm' = llm + 1
  /\ spent' = Billed(c)
  /\ UNCHANGED <<minute, limits, bucket, invoked, registered, inv,
                 passed, changes, called, unbilled, crossed>>
--------------------------------------------------------------------------------
(* Registration of the tool.  delete is two statements.                    *)
RegisterTool ==
  /\ tool = 0 /\ version < MaxVersions
  /\ version' = version + 1 /\ tool' = version + 1
  /\ UNCHANGED <<minute, limits, bucket, invoked, spent, cache, inv, history>>

CallsInFlight == {i \in Invokers : inv[i].at \in {"lookup", "call", "store"}}

DeleteTool(i) ==
  /\ At(i, "none") /\ tool # 0
  /\ tool' = 0
  /\ inv' = [inv EXCEPT ![i] = [at |-> "clear"]]
  /\ crossed' = (crossed \/ CallsInFlight # {})
  /\ UNCHANGED <<minute, limits, bucket, invoked, spent, version, cache,
                 passed, changes, called, llm, unbilled>>

\* mutant: the entries stay.
MutCleared == cache

Cleared == NoEntry

\* Also DELETE /v1/cache, and cleanup_expired.
ClearCache(i) ==
  /\ At(i, "clear")
  /\ cache' = Cleared /\ Answer(i)
  /\ UNCHANGED <<minute, limits, bucket, invoked, spent, tool, version, history>>

DropEntry ==
  /\ cache # NoEntry
  /\ cache' = NoEntry
  /\ UNCHANGED <<minute, limits, bucket, invoked, spent, tool, version, inv, history>>
--------------------------------------------------------------------------------
(* set_limits and delete_limits: read the row, write it, drop the bucket.  *)
Given(body, old) == [f \in Fields |-> IF f \in DOMAIN body THEN body[f] ELSE old[f]]

SetLimitsRead(i, a, body) ==
  /\ At(i, "none") /\ changes < MaxChanges
  /\ inv' = [inv EXCEPT ![i] =
       [at |-> "write", by |-> a, limits |-> Given(body, limits[a])]]
  /\ UNCHANGED <<minute, limits, bucket, invoked, spent, registered, history>>

LimitsWrite(i) ==
  /\ At(i, "write") /\ changes < MaxChanges
  /\ limits' = [limits EXCEPT ![inv[i].by] = inv[i].limits]
  /\ changes' = changes + 1
  /\ inv' = [inv EXCEPT ![i] = [at |-> "reset", by |-> @.by]]
  /\ UNCHANGED <<minute, bucket, invoked, spent, registered,
                 passed, called, llm, unbilled, crossed>>

DeleteLimits(i, a) ==
  /\ At(i, "none") /\ limits[a] # Defaults /\ changes < MaxChanges
  /\ inv' = [inv EXCEPT ![i] = [at |-> "write", by |-> a, limits |-> Defaults]]
  /\ UNCHANGED <<minute, limits, bucket, invoked, spent, registered, history>>

ResetBucket(i) ==
  /\ At(i, "reset")
  /\ bucket' = [bucket EXCEPT ![inv[i].by] = NoBucket]
  /\ Answer(i)
  /\ UNCHANGED <<minute, limits, invoked, spent, registered, history>>
--------------------------------------------------------------------------------
\* A client goes away, or a statement or the call fails in an unforeseen way.
InvokeLost(i) ==
  /\ ~At(i, "none")
  /\ unbilled' = unbilled + IF inv[i].at \in {"store", "audit"} THEN 1 ELSE 0
  /\ crossed' = (crossed \/ At(i, "clear"))
  /\ Answer(i)
  /\ UNCHANGED <<minute, limits, bucket, invoked, spent, registered,
                 passed, changes, called, llm>>

\* The gateway restarts: requests, buckets and the tenant's counts are gone.
GatewayRestart ==
  /\ changes < MaxChanges /\ changes' = changes + 1
  /\ bucket' = [a \in Agents |-> NoBucket]
  /\ invoked' = [t \in Minutes |-> 0]
  /\ unbilled' = unbilled + Cardinality({i \in Invokers : inv[i].at \in {"store", "audit"}})
  /\ crossed' = (crossed \/ \E i \in Invokers : At(i, "clear"))
  /\ inv' = [i \in Invokers |-> Resting]
  /\ UNCHANGED <<minute, limits, spent, registered, passed, called, llm>>

MinutePasses ==
  /\ minute < LastMinute
  /\ minute' = minute + 1
  /\ UNCHANGED <<limits, bucket, invoked, spent, registered, inv, history>>

ToolCallsNext ==
  \/ \E i \in Invokers :
       \/ ReadLimits(i) \/ TakeToken(i) \/ CheckHour(i) \/ CheckDay(i)
       \/ CheckTenantRpm(i) \/ CheckTenantCost(i) \/ RecordInvoke(i)
       \/ GetTool(i) \/ Lookup(i) \/ CallTool(i) \/ StoreResult(i) \/ AuditCall(i)
       \/ DeleteTool(i) \/ ClearCache(i) \/ LimitsWrite(i) \/ ResetBucket(i)
       \/ InvokeLost(i) \/ \E c \in Callers : InvokeStart(i, c)
       \/ \E a \in Agents : DeleteLimits(i, a) \/ \E b \in Bodies : SetLimitsRead(i, a, b)
  \/ \E c \in Callers : RecordLlm(c)
  \/ RegisterTool \/ DropEntry \/ GatewayRestart \/ MinutePasses

ToolCallsSpec == ToolCallsInit /\ [][ToolCallsNext]_toolVars
--------------------------------------------------------------------------------
\* The largest value a limit may have had.
Cap(f) == IF changes = 0 THEN Defaults[f]
          ELSE Max({b[f] : b \in {x \in Bodies \cup {Defaults} : f \in DOMAIN x}})
Past(a, stages) == Cardinality({i \in Invokers : inv[i].at \in stages /\ inv[i].by = a})
PastHour == {"day", "rpm", "cost", "record", "tool", "lookup", "call", "store", "audit"}

(* An agent's hourly cap is overshot by what is in flight and no more: its *)
(* checks and the rows they add up are far apart, but what the window      *)
(* holds and what may still be added to it stay below the cap, one call    *)
(* for each request slot and the costs that record-llm adds unchecked.     *)
CostOvershootBounded ==
  \A a \in Agents :
    Within(SpentBy(a), Hour) + Past(a, PastHour)
      <= Cap("hour") - 1 + Cardinality(Invokers) + llm

(* So is the tenant's quota of invocations: between its check and its      *)
(* count stand the reads of the cost.                                      *)
TenantRateBounded ==
  invoked[minute] + Cardinality({i \in Invokers : inv[i].at \in {"cost", "record"}})
    <= Max({q.rpm : q \in Quotas}) - 1 + Cardinality(Invokers)

(* An agent gets burst tokens and then rpm a minute, whatever overlaps.    *)
(* Only a change of its limits, or a restart, gives it more full buckets:  *)
(* one by itself and two for each request that still holds the old limits, *)
(* which builds the old bucket again for the next one to replace.          *)
TokensBounded ==
  \A a \in Agents :
    passed[a] <= Cap("burst") * (1 + changes * (2 + 2 * Cardinality(Invokers)))
                   + Cap("rpm") * (minute - 1)

(* Every call of a backend is in the audit log, will be put there by its   *)
(* request, or was lost with its request: nothing else goes unbilled.      *)
CallsAccounted ==
  called + llm =
    Cardinality(spent) + unbilled
      + Cardinality({i \in Invokers : inv[i].at \in {"store", "audit"}})

(* Nothing is spent past the caps but by what overlaps, and nothing is     *)
(* spent without being counted.                                            *)
OvershootBounded == CostOvershootBounded /\ TenantRateBounded /\ CallsAccounted

(* The cache has a result of an earlier registration of the tool only      *)
(* while the deletion of that one is in progress, if a call was in flight  *)
(* when it was deleted, or if the deletion was lost half-way.              *)
OldResultNeedsRace ==
  cache.of \notin {0, tool} /\ tool # 0 =>
    crossed \/ \E i \in Invokers : At(i, "clear")
================================================================================
