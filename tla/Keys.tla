---------------------------------- MODULE Keys ----------------------------------
(***************************************************************************)
(* Signing keys of the identity service (keys.py): rotation, forced        *)
(* expiry, the signing of tokens (jwt_io.py), and the key cache of the     *)
(* services that verify them (JWKSCache in jwt_auth.py).                   *)
(*                                                                         *)
(* A key is named by its place in the table.  Several identity processes   *)
(* may serve one database; each runs the rotation loop of api.py, and      *)
(* rotates in its start-up as well, before it serves.  A request in flight *)
(* is a row of "op".                                                       *)
(***************************************************************************)
EXTENDS Naturals, Sequences, FiniteSets, FiniteSetsExt, SequencesExt

CONSTANTS Servers,      \* identity processes
          Verifiers,    \* gateways and workspaces
          Ops,          \* slots for key operations in flight
          Rotation,     \* identity_key_rotation_days
          Interval,     \* sleep of the rotation loop
          MaxTtl,       \* identity_jwt_max_ttl_seconds
          JwksMax,      \* identity_jwks_max_keys
          CacheTtl,     \* ttl_seconds of a verifier's cache
          CallTime,     \* bound on the time a store or a fetch takes
          MaxClock,      \* bound on the clock
          MaxForced,    \* bound on forced rotations and expiries
          MaxCrashes    \* bound on crashes of identity processes

\* A token signed just before the loop looks must not outlive its key.
ASSUME KeysAssumption ==
  /\ {Rotation, Interval, MaxTtl, JwksMax, CacheTtl} \subseteq Nat \ {0}
  /\ {CallTime, MaxForced, MaxCrashes} \subseteq Nat /\ MaxClock \in Nat \ {0}
  /\ MaxTtl + Interval + CallTime < Rotation

VARIABLES now,     \* clock
          keys,    \* table signing_keys, in the order of insertion
          wake,    \* when the rotation loop of each server looks, 0 if down
          op,      \* operations in flight
          tokens,  \* tokens signed: key and expiry
          jwks,    \* each verifier's cache: its keys and when it fetched them
          fetch,   \* the fetch each verifier has in flight
          forced,  \* forced rotations and expiries so far
          crashes  \* crashes so far

keyVars == <<now, keys, wake, op, tokens, jwks, fetch, forced, crashes>>

Kids == 1..Len(keys)
NoOp == [at |-> "none"]
NoFetch == [at |-> "none"]
Horizon == MaxClock + 2 * Rotation

KeysTypeOK ==
  /\ now \in 1..MaxClock
  /\ keys \in Seq([created: 0..MaxClock, expires: 0..Horizon,
                   active: BOOLEAN, pulled: BOOLEAN])
  /\ wake \in [Servers -> 0..MaxClock + Interval]
  /\ op \in [Ops -> {NoOp}
               \cup [at: {"store"}, server: Servers, created: 1..MaxClock, loop: BOOLEAN]
               \cup [at: {"expire"}, server: Servers, kid: Kids]
               \cup [at: {"sign"}, server: Servers, kid: Kids, exp: 0..Horizon]]
  /\ tokens \subseteq [kid: Kids, exp: 0..Horizon]
  /\ jwks \in [Verifiers -> [kids: SUBSET Kids, at: 0..MaxClock]]
  /\ fetch \in [Verifiers -> {NoFetch} \cup [at: {"sent"}, since: 0..MaxClock]
                  \cup [at: {"read"}, since: 0..MaxClock, kids: SUBSET Kids]]
  /\ forced \in 0..MaxForced /\ crashes \in 0..MaxCrashes

Up(s) == wake[s] # 0

Row(created) == [created |-> created, expires |-> created + 2 * Rotation,
                 active |-> TRUE, pulled |-> FALSE]

\* _generate_and_store: demote every key and insert the new one, one commit.
Stored(ks, created) ==
  Append([k \in DOMAIN ks |-> [ks[k] EXCEPT !.active = FALSE]], Row(created))

Valid(k) == keys[k].expires > now
ActiveKids == {k \in Kids : keys[k].active}
Newest(S) ==
  CHOOSE k \in S : \A j \in S : \/ keys[j].created < keys[k].created
                                \/ keys[j].created = keys[k].created /\ j <= k

Due(ks, k) == ks[k].created + Rotation <= now

KeysInit ==
  /\ now = 1
  /\ keys = <<Row(1)>>
  /\ wake = [s \in Servers |-> 1 + Interval]
  /\ op = [o \in Ops |-> NoOp]
  /\ tokens = {}
  /\ jwks = [v \in Verifiers |-> [kids |-> {}, at |-> 0]]
  /\ fetch = [v \in Verifiers |-> NoFetch]
  /\ forced = 0 /\ crashes = 0
--------------------------------------------------------------------------------
(* Rotation.  The loop reads the active key and, if it is due, generates a *)
(* new one and stores it later.                                            *)
StartStore(o, s, byLoop) ==
  /\ op[o] = NoOp
  /\ op' = [op EXCEPT ![o] =
       [at |-> "store", server |-> s, created |-> now, loop |-> byLoop]]

LoopStores(o, s) == op[o].at = "store" /\ op[o].loop /\ op[o].server = s
Looks(s) == Up(s) /\ wake[s] <= now /\ \A o \in Ops : ~LoopStores(o, s)

LoopRotates(s, o) ==
  /\ Looks(s)
  /\ ActiveKids # {} /\ Due(keys, Newest(ActiveKids))
  /\ StartStore(o, s, TRUE)
  /\ UNCHANGED <<now, keys, wake, tokens, jwks, fetch, forced, crashes>>

LoopLeaves(s) ==
  /\ Looks(s)
  /\ ActiveKids # {} => ~Due(keys, Newest(ActiveKids))
  /\ wake' = [wake EXCEPT ![s] = now + Interval]
  /\ UNCHANGED <<now, keys, op, tokens, jwks, fetch, forced, crashes>>

ForceRotate(s, o) ==
  /\ Up(s) /\ forced < MaxForced
  /\ StartStore(o, s, FALSE)
  /\ forced' = forced + 1
  /\ UNCHANGED <<now, keys, wake, tokens, jwks, fetch, crashes>>

Store(o) ==
  /\ op[o].at = "store"
  /\ keys' = Stored(keys, op[o].created)
  /\ wake' = [s \in Servers |-> IF LoopStores(o, s) THEN now + Interval ELSE wake[s]]
  /\ op' = [op EXCEPT ![o] = NoOp]
  /\ UNCHANGED <<now, tokens, jwks, fetch, forced, crashes>>

(* Forced expiry: the row is read first, and updated in a transaction.     *)
ExpireGet(s, o, k) ==
  /\ Up(s) /\ forced < MaxForced /\ op[o] = NoOp /\ k \in Kids
  /\ op' = [op EXCEPT ![o] = [at |-> "expire", server |-> s, kid |-> k]]
  /\ forced' = forced + 1
  /\ UNCHANGED <<now, keys, wake, tokens, jwks, fetch, crashes>>

Expire(o) ==
  /\ op[o].at = "expire"
  /\ keys' = [keys EXCEPT ![op[o].kid].active = FALSE,
                          ![op[o].kid].expires = now,
                          ![op[o].kid].pulled = TRUE]
  /\ op' = [op EXCEPT ![o] = NoOp]
  /\ UNCHANGED <<now, wake, tokens, jwks, fetch, forced, crashes>>

(* Issue: the key that is active when it is looked up signs, even if it is *)
(* retired before the signature.                                           *)

Lifetimes == 1..MaxTtl
Signers == {k \in ActiveKids : Valid(k)}

IssueRead(s, o, ttl) ==
  /\ Up(s) /\ op[o] = NoOp /\ Signers # {}
  /\ op' = [op EXCEPT ![o] = [at |-> "sign", server |-> s, kid |-> Newest(Signers),
                              exp |-> now + ttl]]
  /\ UNCHANGED <<now, keys, wake, tokens, jwks, fetch, forced, crashes>>

Sign(o) ==
  /\ op[o].at = "sign"
  /\ tokens' = tokens \cup {[kid |-> op[o].kid, exp |-> op[o].exp]}
  /\ op' = [op EXCEPT ![o] = NoOp]
  /\ UNCHANGED <<now, keys, wake, jwks, fetch, forced, crashes>>

Crash(s) ==
  /\ Up(s) /\ crashes < MaxCrashes
  /\ crashes' = crashes + 1
  /\ wake' = [wake EXCEPT ![s] = 0]
  /\ op' = [o \in Ops |-> IF op[o] # NoOp /\ op[o].server = s THEN NoOp ELSE op[o]]
  /\ UNCHANGED <<now, keys, tokens, jwks, fetch, forced>>

\* KeyStore.init: a key when no valid one is active, or a rotation if due.
Start(s) ==
  /\ ~Up(s)
  /\ keys' = IF Signers = {} \/ Due(keys, Newest(Signers))
             THEN Stored(keys, now) ELSE keys
  /\ wake' = [wake EXCEPT ![s] = now + Interval]
  /\ UNCHANGED <<now, op, tokens, jwks, fetch, forced, crashes>>
--------------------------------------------------------------------------------
(* A verifier.                                                             *)
\* mutant: only the key that signs is published.
MutJwks == {k \in ActiveKids : Valid(k)}

\* list_jwks_keys: the newest keys that have not expired.
Jwks == {k \in Kids :
           /\ Valid(k)
           /\ Cardinality({j \in Kids : /\ Valid(j) /\ j # k
                                        /\ Newest({j, k}) = j}) < JwksMax}

\* mutant: a cache that was filled once is never stale.
MutStale(v) == jwks[v].at = 0

Stale(v) == jwks[v].at = 0 \/ now - jwks[v].at >= CacheTtl
Usable(v, k) == ~Stale(v) /\ k \in jwks[v].kids

\* get(kid): a stale cache, or one that lacks the kid, is fetched anew.
FetchSend(v, k) ==
  /\ fetch[v] = NoFetch /\ ~Usable(v, k)
  /\ fetch' = [fetch EXCEPT ![v] = [at |-> "sent", since |-> now]]
  /\ UNCHANGED <<now, keys, wake, op, tokens, jwks, forced, crashes>>

FetchRead(v) ==
  /\ fetch[v].at = "sent"
  /\ \E s \in Servers : Up(s)
  /\ fetch' = [fetch EXCEPT ![v] = [at |-> "read", since |-> @.since, kids |-> Jwks]]
  /\ UNCHANGED <<now, keys, wake, op, tokens, jwks, forced, crashes>>

FetchFails(v) ==
  /\ fetch[v] # NoFetch
  /\ fetch' = [fetch EXCEPT ![v] = NoFetch]
  /\ UNCHANGED <<now, keys, wake, op, tokens, jwks, forced, crashes>>

\* The cache is dated when the answer has been parsed.
FetchDone(v) ==
  /\ fetch[v].at = "read"
  /\ jwks' = [jwks EXCEPT ![v] = [kids |-> fetch[v].kids, at |-> now]]
  /\ fetch' = [fetch EXCEPT ![v] = NoFetch]
  /\ UNCHANGED <<now, keys, wake, op, tokens, forced, crashes>>

\* A loop that is due looks before time goes on; a store is done, and a
\* fetch is done or given up, within CallTime.
KeysTick ==
  /\ now < MaxClock
  /\ \A s \in Servers : ~Looks(s)
  /\ \A o \in Ops : op[o].at = "store" => now - op[o].created < CallTime
  /\ \A v \in Verifiers : fetch[v] # NoFetch => now - fetch[v].since < CallTime
  /\ now' = now + 1
  /\ UNCHANGED <<keys, wake, op, tokens, jwks, fetch, forced, crashes>>

KeysNext ==
  \/ \E s \in Servers, o \in Ops : LoopRotates(s, o) \/ ForceRotate(s, o)
  \/ \E s \in Servers : LoopLeaves(s) \/ Crash(s) \/ Start(s)
  \/ \E o \in Ops : Store(o) \/ Expire(o) \/ Sign(o)
  \/ \E s \in Servers, o \in Ops, k \in Kids : ExpireGet(s, o, k)
  \/ \E s \in Servers, o \in Ops, ttl \in Lifetimes : IssueRead(s, o, ttl)
  \/ \E v \in Verifiers, k \in Kids : FetchSend(v, k)
  \/ \E v \in Verifiers : FetchRead(v) \/ FetchFails(v) \/ FetchDone(v)
  \/ KeysTick

KeysSpec == KeysInit /\ [][KeysNext]_keyVars
--------------------------------------------------------------------------------
(* One key signs: however rotations, expiries and restarts of several      *)
(* processes interleave, no two rows are active at a time.                 *)
OneActiveKey == Cardinality(ActiveKids) <= 1

(* A token is good until its own exp: the identity service keeps accepting *)
(* the key that signed it at least that long, though the key may have been *)
(* near the end of its rotation window and been retired since, unless an   *)
(* operator pulled the key.                                                *)
KeyOutlivesTokens ==
  \A t \in tokens : keys[t.kid].pulled \/ keys[t.kid].expires >= t.exp

(* While a process serves, there is a key to sign with: rotation looks     *)
(* often enough that the active key never expires under it.  Only an       *)
(* operator who pulls the active key breaks this.                          *)
SignerReady ==
  (\E s \in Servers : Up(s)) => Signers # {} \/ \E k \in Kids : keys[k].pulled

(* A verifier stops trusting a key soon after it has expired or been       *)
(* pulled: within one cache lifetime and one fetch, although the cache is  *)
(* dated by the arrival of the answer and not by what the answer saw.      *)
PulledKeyIsForgotten ==
  \A v \in Verifiers, k \in Kids :
    Usable(v, k) => keys[k].expires + CacheTtl + CallTime > now

(* Rotation keeps one signer, the keys of live tokens and nothing older.   *)
RotationSound ==
  /\ KeysTypeOK /\ OneActiveKey /\ KeyOutlivesTokens
  /\ SignerReady /\ PulledKeyIsForgotten

(* What keys.py says of a retired key ("its public PEM keeps verifying     *)
(* tokens issued before rotation until its expires_at passes"), at the     *)
(* verifiers: the published set holds the key of every live token, as long *)
(* as it has a place for every key that has not expired.  (More rotations  *)
(* in a token's life than the set has places push it out.)                 *)
LiveTokenPublished ==
  Cardinality({k \in Kids : Valid(k)}) <= JwksMax =>
    \A t \in tokens : t.exp > now /\ ~keys[t.kid].pulled => t.kid \in Jwks
================================================================================
