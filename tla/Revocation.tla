------------------------------- MODULE Revocation -------------------------------
(***************************************************************************)
(* Token revocation: the token table of the identity service (store.py),   *)
(* the set of revoked ids each identity process keeps in memory, the set   *)
(* they share through Redis (coordination.py), and the blocklists that the *)
(* gateway and the workspace fill by polling (revocation_cache.py).        *)
(*                                                                         *)
(* Times are whole seconds, as revoked_at and the cursor are.  A request   *)
(* to revoke is a row of "req": every transaction and every call to Redis  *)
(* is a step of its own.  The identity processes share one database.       *)
(***************************************************************************)
EXTENDS Naturals, FiniteSets, FiniteSetsExt, Sequences, SequencesExt

CONSTANTS Tokens,      \* token ids (jti)
          Nodes,       \* identity processes
          Pollers,     \* gateways and workspaces
          Requests,    \* slots for revoke requests in flight
          Ttls,        \* lifetimes a token can be issued with
          Page,        \* entries one GET /v1/revocations returns
          HasRedis,    \* a coordination backend is configured
          MaxTime,     \* bound on the clock
          MaxRestarts  \* bound on restarts of nodes and pollers

ASSUME RevocationAssumption ==
  /\ Ttls \subseteq Nat \ {0} /\ Ttls # {} /\ IsFiniteSet(Ttls) /\ Page \in Nat \ {0}
  /\ HasRedis \in BOOLEAN
  /\ MaxTime \in Nat \ {0} /\ MaxRestarts \in Nat

VARIABLES time,      \* seconds
          expires,   \* expires_at of each token, 0 before it is issued
          revokedAt, \* revoked_at, 0 for NULL
          stamps,    \* every value revoked_at has had
          cache,     \* _revoked_cache of each node
          shared,    \* the Redis set revoked_jtis and when it expires
          req,       \* revoke requests in flight
          answered,  \* <<node, token>> of every revoke answered 204
          blocked,   \* _revoked of each poller
          cursor,    \* _cursor of each poller
          poll,      \* the poll each poller has in flight
          restarts   \* restarts so far

revVars == <<time, expires, revokedAt, stamps, cache, shared, req, answered,
             blocked, cursor, poll, restarts>>

Times == 1..MaxTime
Never == MaxTime + Max(Ttls) + 1      \* a set without a TTL
Gone == [members |-> {}, until |-> Never]
NoRequest == [at |-> "none"]
NoPoll == [at |-> "none"]

RevocationTypeOK ==
  /\ time \in Times /\ restarts \in 0..MaxRestarts
  /\ expires \in [Tokens -> 0..Never] /\ revokedAt \in [Tokens -> 0..MaxTime]
  /\ \A t \in Tokens : revokedAt[t] # 0 => expires[t] # 0 /\ revokedAt[t] \in stamps[t]
  /\ stamps \in [Tokens -> SUBSET Times]
  /\ cache \in [Nodes -> SUBSET Tokens]
  /\ shared \in [members: SUBSET Tokens, until: 0..Never]
  /\ req \in [Requests -> {NoRequest}
                \cup [at: {"update", "cache", "share", "expire"}, jti: Tokens,
                      node: Nodes, when: Times]]
  /\ answered \subseteq Nodes \X Tokens
  /\ blocked \in [Pollers -> SUBSET Tokens]
  /\ cursor \in [Pollers -> 0..MaxTime]
  /\ poll \in [Pollers -> {NoPoll}
                 \cup [at: {"sent"}]
                 \cup [at: {"read"}, jtis: SUBSET Tokens, next: 0..MaxTime]]

RevocationInit ==
  /\ time = 1 /\ restarts = 0
  /\ expires = [t \in Tokens |-> 0] /\ revokedAt = [t \in Tokens |-> 0]
  /\ stamps = [t \in Tokens |-> {}]
  /\ cache = [n \in Nodes |-> {}]
  /\ shared = Gone
  /\ req = [i \in Requests |-> NoRequest]
  /\ answered = {}
  /\ blocked = [p \in Pollers |-> {}] /\ cursor = [p \in Pollers |-> 0]
  /\ poll = [p \in Pollers |-> NoPoll]

Revoked == {t \in Tokens : revokedAt[t] # 0}
Live(t) == expires[t] > time
--------------------------------------------------------------------------------
IssueToken(t, ttl) ==
  /\ expires[t] = 0
  /\ expires' = [expires EXCEPT ![t] = time + ttl]
  /\ UNCHANGED <<time, revokedAt, stamps, cache, shared, req, answered, blocked,
                 cursor, poll, restarts>>

(* A revoke.  The time is the row's, or now rounded down to the second.    *)
RevokeGet(i, n, t) ==
  /\ req[i] = NoRequest /\ expires[t] # 0
  /\ req' = [req EXCEPT ![i] =
       [at |-> "update", jti |-> t, node |-> n,
        when |-> IF revokedAt[t] # 0 THEN revokedAt[t] ELSE time]]
  /\ UNCHANGED <<time, expires, revokedAt, stamps, cache, shared, answered,
                 blocked, cursor, poll, restarts>>

RevokeCommit(i) ==
  /\ req[i].at = "update"
  /\ revokedAt' = [revokedAt EXCEPT ![req[i].jti] = req[i].when]
  /\ stamps' = [stamps EXCEPT ![req[i].jti] = @ \cup {req[i].when}]
  /\ req' = [req EXCEPT ![i].at = "cache"]
  /\ UNCHANGED <<time, expires, cache, shared, answered, blocked, cursor, poll,
                 restarts>>

Done(i) ==
  /\ req' = [req EXCEPT ![i] = NoRequest]
  /\ answered' = answered \cup {<<req[i].node, req[i].jti>>}

RevokeCache(i) ==
  /\ req[i].at = "cache"
  /\ cache' = [cache EXCEPT ![req[i].node] = @ \cup {req[i].jti}]
  /\ IF HasRedis
       THEN req' = [req EXCEPT ![i].at = "share"] /\ UNCHANGED answered
       ELSE Done(i)
  /\ UNCHANGED <<time, expires, revokedAt, stamps, shared, blocked, cursor,
                 poll, restarts>>

\* SADD leaves the TTL of an existing set alone.
RevokeShare(i) ==
  /\ req[i].at = "share"
  /\ shared' = [shared EXCEPT !.members = @ \cup {req[i].jti}]
  /\ req' = [req EXCEPT ![i].at = "expire"]
  /\ UNCHANGED <<time, expires, revokedAt, stamps, cache, answered, blocked,
                 cursor, poll, restarts>>

\* EXPIRE sets the TTL of the whole set, to what this token has left.
RevokeExpire(i) ==
  LET left == Max({1, expires[req[i].jti] - time} \cap Nat)
  IN  /\ req[i].at = "expire"
      /\ shared' = IF shared.members = {} THEN Gone
                   ELSE [shared EXCEPT !.until = time + left]
      /\ Done(i)
      /\ UNCHANGED <<time, expires, revokedAt, stamps, cache, blocked, cursor,
                     poll, restarts>>

\* A call to Redis that raises is logged, and the revoke answers 204.
RevokeShareFails(i) ==
  /\ req[i].at \in {"share", "expire"}
  /\ Done(i)
  /\ UNCHANGED <<time, expires, revokedAt, stamps, cache, shared, blocked,
                 cursor, poll, restarts>>

\* A verify that misses the cache asks Redis, and keeps a hit.
VerifyShared(n, t) ==
  /\ Live(t) /\ t \notin cache[n]
  /\ HasRedis /\ t \in shared.members
  /\ cache' = [cache EXCEPT ![n] = @ \cup {t}]
  /\ UNCHANGED <<time, expires, revokedAt, stamps, shared, req, answered,
                 blocked, cursor, poll, restarts>>

\* mutant: the process starts with an empty cache that is never filled.
MutRestart(n) ==
  /\ restarts < MaxRestarts
  /\ restarts' = restarts + 1
  /\ cache' = [cache EXCEPT ![n] = {}]
  /\ req' = [i \in Requests |-> IF req[i] # NoRequest /\ req[i].node = n
                                THEN NoRequest ELSE req[i]]
  /\ UNCHANGED <<time, expires, revokedAt, stamps, shared, answered, blocked,
                 cursor, poll>>

\* A process that starts loads the revoked rows before it serves.
Restart(n) ==
  /\ restarts < MaxRestarts
  /\ restarts' = restarts + 1
  /\ cache' = [cache EXCEPT ![n] = Revoked]
  /\ req' = [i \in Requests |-> IF req[i] # NoRequest /\ req[i].node = n
                                THEN NoRequest ELSE req[i]]
  /\ UNCHANGED <<time, expires, revokedAt, stamps, shared, answered, blocked,
                 cursor, poll>>
--------------------------------------------------------------------------------
(* The pollers.                                                            *)
\* mutant: the row fetched to see whether there are more is always dropped.
MutPages(since) ==
  LET newer == {t \in Revoked : revokedAt[t] > since}
      n == Min({Page, Cardinality(newer) - 1})
  IN  IF newer = {} THEN {{}}
      ELSE {S \in kSubset(n, newer) :
              \A t \in S, u \in newer \ S : revokedAt[t] <= revokedAt[u]}

\* The entries after "since", oldest first: ties in any order.
Pages(since) ==
  LET newer == {t \in Revoked : revokedAt[t] > since}
      n == Min({Page, Cardinality(newer)})
  IN  {S \in kSubset(n, newer) :
         \A t \in S, u \in newer \ S : revokedAt[t] <= revokedAt[u]}

MutNextSince(S, since) == time   \* mutant: a poll that shows nothing moves on
NextSince(S, since) ==
  IF S = {} THEN since ELSE Max({revokedAt[t] : t \in S})

PollSend(p) ==
  /\ poll[p] = NoPoll
  /\ poll' = [poll EXCEPT ![p] = [at |-> "sent"]]
  /\ UNCHANGED <<time, expires, revokedAt, stamps, cache, shared, req, answered,
                 blocked, cursor, restarts>>

\* list_revocations reads the rows; has_more is ignored by the pollers.
PollRead(p) ==
  /\ poll[p].at = "sent"
  /\ \E S \in Pages(cursor[p]) :
       poll' = [poll EXCEPT ![p] = [at |-> "read", jtis |-> S,
                                    next |-> NextSince(S, cursor[p])]]
  /\ UNCHANGED <<time, expires, revokedAt, stamps, cache, shared, req, answered,
                 blocked, cursor, restarts>>

PollApply(p) ==
  /\ poll[p].at = "read"
  /\ blocked' = [blocked EXCEPT ![p] = @ \cup poll[p].jtis]
  /\ cursor' = [cursor EXCEPT ![p] = poll[p].next]
  /\ poll' = [poll EXCEPT ![p] = NoPoll]
  /\ UNCHANGED <<time, expires, revokedAt, stamps, cache, shared, req, answered,
                 restarts>>

\* A poll that fails leaves the set and the cursor as they were.
PollFails(p) ==
  /\ poll[p] # NoPoll
  /\ poll' = [poll EXCEPT ![p] = NoPoll]
  /\ UNCHANGED <<time, expires, revokedAt, stamps, cache, shared, req, answered,
                 blocked, cursor, restarts>>

RestartPoller(p) ==
  /\ restarts < MaxRestarts
  /\ restarts' = restarts + 1
  /\ blocked' = [blocked EXCEPT ![p] = {}]
  /\ cursor' = [cursor EXCEPT ![p] = 0]
  /\ poll' = [poll EXCEPT ![p] = NoPoll]
  /\ UNCHANGED <<time, expires, revokedAt, stamps, cache, shared, req,
                 answered>>

\* Redis deletes the whole set when its TTL is over.
RevocationTick ==
  /\ time < MaxTime
  /\ time' = time + 1
  /\ shared' = IF shared.until <= time' THEN Gone ELSE shared
  /\ UNCHANGED <<expires, revokedAt, stamps, cache, req, answered, blocked,
                 cursor, poll, restarts>>

RevocationNext ==
  \/ \E t \in Tokens, ttl \in Ttls : IssueToken(t, ttl)
  \/ \E i \in Requests, n \in Nodes, t \in Tokens : RevokeGet(i, n, t)
  \/ \E i \in Requests : \/ RevokeCommit(i) \/ RevokeCache(i)
                         \/ RevokeShare(i) \/ RevokeExpire(i)
                         \/ RevokeShareFails(i)
  \/ \E n \in Nodes, t \in Tokens : VerifyShared(n, t)
  \/ \E n \in Nodes : Restart(n)
  \/ \E p \in Pollers : \/ PollSend(p) \/ PollRead(p) \/ PollApply(p)
                        \/ PollFails(p) \/ RestartPoller(p)
  \/ RevocationTick

RevocationSpec == RevocationInit /\ [][RevocationNext]_revVars
--------------------------------------------------------------------------------
(* A revoke that was answered holds at the process that answered it, over  *)
(* restarts of that process: the row is committed before the cache learns  *)
(* of it, and a process that starts reads every committed row.             *)
RevokedStaysRejected ==
  \A n \in Nodes, t \in Tokens : <<n, t>> \in answered => t \in cache[n]

(* A poller's cursor never runs ahead of what it has been shown: with the  *)
(* cursor at second s, the poller holds a token whose row said s, even if  *)
(* a racing request has stamped it anew since, earlier or later.           *)
CursorIsBacked ==
  \A p \in Pollers :
    cursor[p] # 0 => \E t \in blocked[p] : cursor[p] \in stamps[t]

(* Processes and pollers hold revocations there are, up to their cursors.  *)
RevocationSound == RevocationTypeOK /\ CursorIsBacked

(* The newest revocation reaches every gateway and workspace, whatever     *)
(* polls fail and whoever restarts, if no other one was ever stamped with  *)
(* its second or a later one: the rows are read oldest first, so the       *)
(* cursor cannot pass it unseen.                                           *)
NewestStamp(t) ==
  /\ t \in Revoked
  /\ \A u \in Tokens : \A s \in stamps[u] : s < revokedAt[t] \/ (u = t /\ s = revokedAt[t])
LatestArrives ==
  \A t \in Tokens, p \in Pollers : <>[]NewestStamp(t) => []<>(t \in blocked[p])

(* What the poll's documentation promises ("a token revoked on the EU      *)
(* primary lands on every replica within the poll interval", "acts as a    *)
(* forward cursor"): no poller's cursor passes a revocation it was not     *)
(* shown.  Two revocations of one second, or one whose commit comes after  *)
(* a later stamp has been read, are passed.                                *)
PollMissesNothing ==
  \A p \in Pollers, t \in Revoked : revokedAt[t] <= cursor[p] => t \in blocked[p]
================================================================================
