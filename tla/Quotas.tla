--------------------------------- MODULE Quotas ---------------------------------
(***************************************************************************)
(* A tenant's quotas: the row identity keeps (identity quotas.py), the     *)
(* copy each workspace process caches, and the check before a creation     *)
(* (workspace quotas.py).  A check and the creation it allows are          *)
(* transactions of their own, and so are the two halves of a patch.        *)
(* A creation adds one unit of a kind: a workspace, a channel, a workflow, *)
(* or one file's bytes.  Two kinds also grow with no check: a message that *)
(* breaks its schema creates a dead-letter channel, and merging a branch   *)
(* adds the sizes of its files again.  Left out: other tenants, a process  *)
(* without identity, which applies the defaults, and one with              *)
(* quotas_enabled false, which checks nothing.  The gateway caches the     *)
(* same way and counts calls (ToolCalls).                                  *)
(***************************************************************************)
EXTENDS Integers, FiniteSets

CONSTANTS
  Kinds,        \* the fields of a quota
  Unasked,      \* the kinds that also grow with no check
  Limits,       \* the values a field is set to
  Default,      \* default_quotas: each field's value while there is no row
  Admins,       \* patches that may be in flight together
  Replicas,     \* workspace processes over one database
  Makers,       \* creations that may be in flight together
  QuotaTtl,     \* quotas_cache_ttl_seconds
  QuotaTimeout, \* the longest an answer takes: quotas_fetch_timeout_seconds
                \* for each phase of the call
  MaxThings, MaxQuotaTime   \* bounds

ASSUME QuotasAssumption ==
  /\ Limits \subseteq Nat /\ Default \in Limits /\ Unasked \subseteq Kinds
  /\ QuotaTtl \in Nat /\ QuotaTimeout \in Nat \ {0}
  /\ IsFiniteSet(Makers)

VARIABLES
  quotaRow,   \* identity: the tenant_quotas row, or NoRow
  patch,      \* identity: patches in flight, with the row they read
  held,       \* each replica's cache: limits, and when they came
  maker,      \* creations in flight
  things,     \* how many of each kind the tenant has
  quotaTime,
  told,       \* ghost: the highest limit a creation was ever admitted by
  unasked,    \* ghost: what came with no check since a creation was admitted
  ruledAt     \* ghost: when a limit was last the one identity answers

quotaVars ==
  <<quotaRow, patch, held, maker, things, quotaTime, told, unasked, ruledAt>>

NoRow == [none |-> TRUE]
NotHeld == [none |-> TRUE]
NoPatch == [at |-> "none"]
NoMaker == [at |-> "none"]
Quotas == [Kinds -> Limits]

QuotasInit ==
  /\ quotaRow = NoRow
  /\ patch = [a \in Admins |-> NoPatch]
  /\ held = [r \in Replicas |-> NotHeld]
  /\ maker = [i \in Makers |-> NoMaker]
  /\ things = [k \in Kinds |-> 0]
  /\ quotaTime = 0
  /\ told = [k \in Kinds |-> 0] /\ unasked = [k \in Kinds |-> 0]
  /\ ruledAt = [k \in Kinds |-> [l \in Limits |-> -1]]

MakerStates ==
  {NoMaker}
    \cup [at : {"asked"}, kind : Kinds, by : Replicas, when : Nat]
    \cup [at : {"answered"}, kind : Kinds, by : Replicas, when : Nat, quotas : Quotas]
    \cup [at : {"count"}, kind : Kinds, limit : Limits]
    \cup [at : {"create"}, kind : Kinds]

QuotasTypeOK ==
  /\ quotaRow \in {NoRow} \cup Quotas
  /\ patch \in [Admins -> {NoPatch} \cup [at : {"write"}, row : Quotas,
                                          kind : Kinds, limit : Limits]]
  /\ held \in [Replicas -> {NotHeld} \cup [quotas : Quotas, at : Nat]]
  /\ maker \in [Makers -> MakerStates]
  /\ things \in [Kinds -> Nat]
  /\ told \in [Kinds -> Nat] /\ unasked \in [Kinds -> Nat]
  /\ quotaTime \in Nat
  /\ ruledAt \in [Kinds -> [Limits -> {-1} \cup Nat]]
--------------------------------------------------------------------------------
(* Identity: GET, POST and DELETE /v1/tenants/{tenant_id}/quotas.          *)
QuotasNow == IF quotaRow = NoRow THEN [k \in Kinds |-> Default] ELSE quotaRow

\* Every limit in force up to now was so until now.
NewRow(row) ==
  /\ quotaRow' = row
  /\ ruledAt' = [k \in Kinds |-> [ruledAt[k] EXCEPT ![QuotasNow[k]] = quotaTime]]
  /\ UNCHANGED <<held, maker, things, quotaTime, told, unasked>>

\* A patch names the fields it sets; here, one.
PatchReads(a, k, l) ==
  /\ patch[a] = NoPatch
  /\ patch' = [patch EXCEPT ![a] =
       [at |-> "write", row |-> QuotasNow, kind |-> k, limit |-> l]]
  /\ UNCHANGED <<quotaRow, held, maker, things, quotaTime, told, unasked, ruledAt>>

PatchWrites(a) ==
  /\ patch[a].at = "write"
  /\ NewRow([patch[a].row EXCEPT ![patch[a].kind] = patch[a].limit])
  /\ patch' = [patch EXCEPT ![a] = NoPatch]

ResetQuotas ==
  /\ quotaRow # NoRow
  /\ NewRow(NoRow)
  /\ UNCHANGED patch
--------------------------------------------------------------------------------
(* A workspace process: QuotaCache.get, QuotaEnforcer.check_*, and what    *)
(* the route then creates.                                                 *)
MutFresh(r) == held[r] # NotHeld   \* mutant: a cached answer never expires
Fresh(r) == held[r] # NotHeld /\ quotaTime - held[r].at < QuotaTtl

\* Only maker i moves.
Only(i, m) ==
  /\ maker' = [maker EXCEPT ![i] = m]
  /\ UNCHANGED <<quotaRow, patch, quotaTime, ruledAt>>

UseCached(i, r, k) ==
  /\ maker[i] = NoMaker /\ Fresh(r)
  /\ Only(i, [at |-> "count", kind |-> k, limit |-> held[r].quotas[k]])
  /\ UNCHANGED <<held, things, told, unasked>>

AskIdentity(i, r, k) ==
  /\ maker[i] = NoMaker /\ ~Fresh(r)
  /\ Only(i, [at |-> "asked", kind |-> k, by |-> r, when |-> quotaTime])
  /\ UNCHANGED <<held, things, told, unasked>>

IdentityAnswers(i) ==
  /\ maker[i].at = "asked"
  /\ Only(i, [at |-> "answered", kind |-> maker[i].kind, by |-> maker[i].by,
              when |-> maker[i].when, quotas |-> QuotasNow])
  /\ UNCHANGED <<held, things, told, unasked>>

\* The lifetime counts from the answer.
Received(i) ==
  /\ maker[i].at = "answered"
  /\ held' = [held EXCEPT ![maker[i].by] = [quotas |-> maker[i].quotas, at |-> quotaTime]]
  /\ Only(i, [at |-> "count", kind |-> maker[i].kind,
              limit |-> maker[i].quotas[maker[i].kind]])
  /\ UNCHANGED <<things, told, unasked>>

\* No answer in time, or an error: the defaults, which are not cached.
Degraded(i) ==
  /\ maker[i].at \in {"asked", "answered"}
  /\ Only(i, [at |-> "count", kind |-> maker[i].kind, limit |-> Default])
  /\ UNCHANGED <<held, things, told, unasked>>

MutAllows(n, limit) == n <= limit   \* mutant: off by one
Allows(n, limit) == n < limit

Admit(i) ==
  /\ maker[i].at = "count"
  /\ Allows(things[maker[i].kind], maker[i].limit)
  /\ told' = [told EXCEPT ![maker[i].kind] = IF maker[i].limit > @ THEN maker[i].limit ELSE @]
  /\ unasked' = [unasked EXCEPT ![maker[i].kind] = 0]
  /\ Only(i, [at |-> "create", kind |-> maker[i].kind])
  /\ UNCHANGED <<held, things>>

QuotaExceeded(i) ==
  /\ maker[i].at = "count"
  /\ ~Allows(things[maker[i].kind], maker[i].limit)
  /\ Only(i, NoMaker)
  /\ UNCHANGED <<held, things, told, unasked>>

Create(i) ==
  /\ maker[i].at = "create"
  /\ things[maker[i].kind] < MaxThings
  /\ things' = [things EXCEPT ![maker[i].kind] = @ + 1]
  /\ Only(i, NoMaker)
  /\ UNCHANGED <<held, told, unasked>>

\* The request fails after its check, or its client goes away.
NotCreated(i) ==
  /\ maker[i].at = "create"
  /\ Only(i, NoMaker)
  /\ UNCHANGED <<held, things, told, unasked>>

\* With no check: a dead-letter channel beside the channel the message was for,
\* or the files of a branch, which count in their branch and after the merge
\* in the main line too.
GrowUnasked(k, n) ==
  /\ k \in Unasked /\ n <= things[k] /\ things[k] + n <= MaxThings
  /\ things' = [things EXCEPT ![k] = @ + n]
  /\ unasked' = [unasked EXCEPT ![k] = @ + n]
  /\ UNCHANGED <<quotaRow, patch, held, maker, quotaTime, told, ruledAt>>

\* A workspace is deleted, with what is in it.  (Deleting a file adds a
\* tombstone; its earlier versions still count.)
RemoveOne(k) ==
  /\ things[k] > 0
  /\ things' = [things EXCEPT ![k] = @ - 1]
  /\ UNCHANGED <<quotaRow, patch, held, maker, quotaTime, told, unasked, ruledAt>>

ReplicaRestarts(r) ==
  /\ held[r] # NotHeld
  /\ held' = [held EXCEPT ![r] = NotHeld]
  /\ UNCHANGED <<quotaRow, patch, maker, things, quotaTime, told, unasked, ruledAt>>

\* A question that is answered is answered within the timeout.
QuotaTimePasses ==
  /\ quotaTime < MaxQuotaTime
  /\ \A i \in Makers : maker[i].at \in {"asked", "answered"}
                         => quotaTime < maker[i].when + QuotaTimeout
  /\ quotaTime' = quotaTime + 1
  /\ UNCHANGED <<quotaRow, patch, held, maker, things, told, unasked, ruledAt>>

QuotasNext ==
  \/ \E a \in Admins : \/ \E k \in Kinds, l \in Limits : PatchReads(a, k, l)
                       \/ PatchWrites(a)
  \/ ResetQuotas
  \/ \E i \in Makers :
       \/ \E r \in Replicas, k \in Kinds : UseCached(i, r, k) \/ AskIdentity(i, r, k)
       \/ IdentityAnswers(i) \/ Received(i) \/ Degraded(i)
       \/ Admit(i) \/ QuotaExceeded(i) \/ Create(i) \/ NotCreated(i)
  \/ \E k \in Kinds : RemoveOne(k) \/ \E n \in 1..MaxThings : GrowUnasked(k, n)
  \/ \E r \in Replicas : ReplicaRestarts(r)
  \/ QuotaTimePasses

QuotasSpec == QuotasInit /\ [][QuotasNext]_quotaVars
--------------------------------------------------------------------------------
(* Creations that run together may each pass the check before another is   *)
(* counted, and some rows are counted that no check ever saw.  However     *)
(* they interleave, whatever the replicas cached, and also when the limit  *)
(* was lowered meanwhile, a tenant never has more than the highest limit   *)
(* it was admitted by, the creations in flight besides one, and what came  *)
(* with no check since a creation was last admitted.                       *)
QuotaOvershootBounded ==
  \A k \in Kinds : things[k] > 0 =>
    things[k] <= told[k] + Cardinality(Makers) - 1 + unasked[k]

(* "Cached locally for 60s": a limit that identity has replaced is applied *)
(* from the cache no longer than the cache's lifetime and the time one     *)
(* answer takes.                                                           *)
OldLimitIsBrief ==
  \A r \in Replicas, k \in Kinds :
    Fresh(r) /\ held[r].quotas[k] # QuotasNow[k]
      => ruledAt[k][held[r].quotas[k]] + QuotaTtl + QuotaTimeout > quotaTime

(* However creations, patches, merges, dead letters, answers and restarts  *)
(* interleave, a tenant goes over its limit by no more than the other      *)
(* creations in flight and what is never checked, and an old limit is      *)
(* applied briefly.                                                        *)
QuotasHold == QuotaOvershootBounded /\ OldLimitIsBrief

(* "Simultaneous patches don't drop fields" (quotas.py): what a patch is   *)
(* about to write to the fields it does not name is what they hold.        *)
PatchKeepsFields ==
  \A a \in Admins, k \in Kinds :
    patch[a].at = "write" /\ k # patch[a].kind => patch[a].row[k] = QuotasNow[k]
================================================================================
