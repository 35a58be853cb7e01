--------------------------- MODULE IdentityProofs ---------------------------
(***************************************************************************)
(* Proofs about the parts of the identity service and of the proxy that    *)
(* asks it, for every set of servers, verifiers, tenants, calls and rows   *)
(* and for every lifetime: signing keys, accounts and their plans, the     *)
(* proxy's meter and caches, erasure, revocation and quotas.               *)
(***************************************************************************)
EXTENDS Identity, NatExtrema, SequenceTheorems, FiniteSetTheorems

--------------------------------------------------------------------------------
(***************************************************************************)
(* Keys.  One key is active, each server looks at the table again before   *)
(* the next rotation is due, and an operator's pulled key is the only one  *)
(* that goes before its tokens do.                                         *)
(***************************************************************************)

KeyRows == [created : Nat, expires : Nat, active : BOOLEAN, pulled : BOOLEAN]
StoreOps == [at : {"store"}, server : Servers, created : Nat, loop : BOOLEAN]
ExpireOps == [at : {"expire"}, server : Servers, kid : Nat]
SignOps == [at : {"sign"}, server : Servers, kid : Nat, exp : Nat]
KeyOps == {NoOp} \cup StoreOps \cup ExpireOps \cup SignOps
Sent == [at : {"sent"}, since : Nat]
Read == [at : {"read"}, since : Nat, kids : SUBSET Nat]
Fetches == {NoFetch} \cup Sent \cup Read
Caches == [kids : SUBSET Nat, at : Nat]

KeyTableTyped == now \in Nat /\ keys \in Seq(KeyRows)
WakeTyped == wake \in [Servers -> Nat]
OpsTyped == op \in [Ops -> KeyOps]
TokensTyped == tokens \subseteq [kid : Nat, exp : Nat]
JwksTyped == jwks \in [Verifiers -> Caches]
FetchTyped == fetch \in [Verifiers -> Fetches]

LEMMA KeyConstants ==
  /\ Rotation \in Nat /\ Interval \in Nat /\ MaxTtl \in Nat /\ CacheTtl \in Nat
  /\ CallTime \in Nat /\ JwksMax \in Nat /\ JwksMax > 0
  /\ Rotation > 0 /\ Interval > 0 /\ CacheTtl > 0
  /\ MaxTtl + Interval + CallTime < Rotation
<1>1. {Rotation, Interval, MaxTtl, JwksMax, CacheTtl} \subseteq Nat \ {0}
  BY KeysAssumption
<1>2. {CallTime, MaxForced, MaxCrashes} \subseteq Nat
  BY KeysAssumption
<1>3. MaxTtl + Interval + CallTime < Rotation
  BY KeysAssumption
<1> QED BY <1>1, <1>2, <1>3

LEMMA OpHas ==
  /\ NoOp.at = "none"
  /\ \A x \in StoreOps : x.at = "store" /\ x.server \in Servers /\ x.created \in Nat
                         /\ x.loop \in BOOLEAN
  /\ \A x \in ExpireOps : x.at = "expire" /\ x.server \in Servers /\ x.kid \in Nat
  /\ \A x \in SignOps : x.at = "sign" /\ x.server \in Servers /\ x.kid \in Nat /\ x.exp \in Nat
<1>1. NoOp.at = "none"
  BY DEF NoOp
<1>2. \A x \in StoreOps : x.at = "store" /\ x.server \in Servers /\ x.created \in Nat
                          /\ x.loop \in BOOLEAN
  BY DEF StoreOps
<1>3. \A x \in ExpireOps : x.at = "expire" /\ x.server \in Servers /\ x.kid \in Nat
  BY DEF ExpireOps
<1>4. \A x \in SignOps : x.at = "sign" /\ x.server \in Servers /\ x.kid \in Nat /\ x.exp \in Nat
  BY DEF SignOps
<1> QED BY <1>1, <1>2, <1>3, <1>4

LEMMA FetchHas ==
  /\ NoFetch.at = "none"
  /\ \A x \in Sent : x.at = "sent" /\ x.since \in Nat
  /\ \A x \in Read : x.at = "read" /\ x.since \in Nat /\ x.kids \in SUBSET Nat
<1>1. NoFetch.at = "none"
  BY DEF NoFetch
<1>2. \A x \in Sent : x.at = "sent" /\ x.since \in Nat
  BY DEF Sent
<1>3. \A x \in Read : x.at = "read" /\ x.since \in Nat /\ x.kids \in SUBSET Nat
  BY DEF Read
<1> QED BY <1>1, <1>2, <1>3

LEMMA RowHas ==
  ASSUME NEW c \in Nat
  PROVE  /\ Row(c) \in KeyRows
         /\ Row(c).created = c /\ Row(c).expires = c + 2 * Rotation
         /\ Row(c).active = TRUE /\ Row(c).pulled = FALSE
<1>1. c + 2 * Rotation \in Nat
  BY KeyConstants
<1> QED BY <1>1 DEF Row, KeyRows

LEMMA KeyHas ==
  ASSUME KeyTableTyped, NEW k \in Kids
  PROVE  /\ keys[k] \in KeyRows /\ k \in Nat
         /\ keys[k].created \in Nat /\ keys[k].expires \in Nat
         /\ keys[k].active \in BOOLEAN /\ keys[k].pulled \in BOOLEAN
<1>1. keys[k] \in KeyRows /\ k \in Nat
  BY LenProperties, ElementOfSeq DEF KeyTableTyped, Kids
<1> QED BY <1>1 DEF KeyRows

(* A key that is stored is the last one, and the only one active.          *)
LEMMA StoredIs ==
  ASSUME KeyTableTyped, NEW c \in Nat, keys' = Stored(keys, c)
  PROVE  /\ keys' \in Seq(KeyRows) /\ Len(keys') = Len(keys) + 1
         /\ Kids' = Kids \cup {Len(keys) + 1} /\ Len(keys) \in Nat
         /\ keys'[Len(keys) + 1] = Row(c)
         /\ \A k \in Kids : /\ keys'[k].created = keys[k].created
                            /\ keys'[k].expires = keys[k].expires
                            /\ keys'[k].pulled = keys[k].pulled
                            /\ keys'[k].active = FALSE
<1> DEFINE old == [k \in DOMAIN keys |-> [keys[k] EXCEPT !.active = FALSE]]
<1>1. /\ keys \in Seq(KeyRows) /\ Len(keys) \in Nat /\ DOMAIN keys = 1..Len(keys)
      /\ \A k \in 1..Len(keys) : keys[k] \in KeyRows
  BY LenProperties, ElementOfSeq DEF KeyTableTyped
<1>2. \A k \in 1..Len(keys) : [keys[k] EXCEPT !.active = FALSE] \in KeyRows
  BY <1>1 DEF KeyRows
<1>3. old \in Seq(KeyRows) /\ Len(old) = Len(keys)
  BY <1>1, <1>2
<1>4. \A k \in 1..Len(keys) : old[k] = [keys[k] EXCEPT !.active = FALSE]
  BY <1>1
<1>5. keys' = Append(old, Row(c)) /\ Row(c) \in KeyRows
  BY RowHas DEF Stored
<1> HIDE DEF old
<1>6. /\ keys' \in Seq(KeyRows) /\ Len(keys') = Len(keys) + 1
      /\ keys'[Len(keys) + 1] = Row(c)
      /\ \A k \in 1..Len(keys) : keys'[k] = old[k]
  BY <1>1, <1>3, <1>5, AppendProperties
<1>7. Kids' = Kids \cup {Len(keys) + 1}
  BY <1>1, <1>6 DEF Kids
<1>8. ASSUME NEW k \in Kids
      PROVE  /\ keys'[k].created = keys[k].created /\ keys'[k].expires = keys[k].expires
             /\ keys'[k].pulled = keys[k].pulled /\ keys'[k].active = FALSE
  <2>1. keys'[k] = [keys[k] EXCEPT !.active = FALSE] /\ keys[k] \in KeyRows
    BY <1>1, <1>4, <1>6 DEF Kids
  <2> QED BY <2>1 DEF KeyRows
<1> QED BY <1>1, <1>6, <1>7, <1>8

LEMMA NewestOfOne ==
  ASSUME KeyTableTyped, NEW S, NEW k \in Kids, S = {k}
  PROVE  Newest(S) = k
<1>1. \A j \in S : \/ keys[j].created < keys[k].created
                   \/ keys[j].created = keys[k].created /\ j <= k
  BY KeyHas
<1> QED BY <1>1 DEF Newest

(* A token, or a signature to come, is good while its key is.              *)
Good(t) == t.kid \in Kids /\ (keys[t.kid].pulled \/ keys[t.kid].expires >= t.exp)

OneActive == \A j, k \in Kids : keys[j].active /\ keys[k].active => j = k
RowSpan == \A k \in Kids :
  /\ keys[k].created <= now
  /\ keys[k].pulled \/ keys[k].expires = keys[k].created + 2 * Rotation
SomeKey == \E k \in Kids : keys[k].active \/ keys[k].pulled

OpsFresh == \A o \in Ops :
  /\ op[o].at = "store" => op[o].created <= now /\ now <= op[o].created + CallTime
  /\ op[o].at = "expire" => op[o].kid \in Kids
  /\ op[o].at = "sign" => Good(op[o])

(* A loop looks when it is due or has a key to store, and what it found    *)
(* last was not due: the active key is never older than a rotation and one *)
(* sleep of any loop that runs.                                            *)
LoopsLook == \A s \in Servers :
  /\ wake[s] <= now + Interval
  /\ \A o \in Ops : LoopStores(o, s) => op[o].created <= wake[s]
  /\ Up(s) => /\ now <= wake[s] \/ \E o \in Ops : LoopStores(o, s)
              /\ \A k \in Kids : keys[k].active =>
                   wake[s] <= keys[k].created + Rotation + Interval

TokensGood == \A t \in tokens : Good(t)

FetchesFresh == \A v \in Verifiers :
  /\ fetch[v].at \in {"sent", "read"} =>
       fetch[v].since <= now /\ now <= fetch[v].since + CallTime
  /\ fetch[v].at = "read" =>
       \A k \in fetch[v].kids : k \in Kids /\ keys[k].expires >= fetch[v].since

CachesFresh == \A v \in Verifiers :
  /\ jwks[v].at <= now
  /\ \A k \in jwks[v].kids : k \in Kids /\ keys[k].expires + CallTime >= jwks[v].at

KeyTypes == KeyTableTyped /\ WakeTyped /\ OpsTyped /\ TokensTyped /\ JwksTyped /\ FetchTyped
KeyInv == /\ KeyTypes /\ OneActive /\ RowSpan /\ SomeKey /\ OpsFresh /\ LoopsLook
          /\ TokensGood /\ FetchesFresh /\ CachesFresh

LEMMA KeyStart == KeysInit => KeyInv
<1> SUFFICES ASSUME KeysInit PROVE KeyInv
  OBVIOUS
<1>1. KeyTableTyped /\ Kids = {1} /\ keys[1] = Row(1) /\ now = 1
  <2>1. Row(1) \in KeyRows
    BY RowHas
  <2>2. keys = <<Row(1)>> /\ now = 1
    BY DEF KeysInit
  <2>3. keys \in Seq(KeyRows) /\ Len(keys) = 1 /\ keys[1] = Row(1)
    <3> DEFINE first == Row(1)
    <3>1. first \in KeyRows /\ keys = <<first>>
      BY <2>1, <2>2
    <3> HIDE DEF first
    <3>2. keys \in Seq(KeyRows) /\ Len(keys) = 1 /\ keys[1] = first
      BY <3>1
    <3> QED BY <3>2 DEF first
  <2> QED BY <2>2, <2>3 DEF KeyTableTyped, Kids
<1>2. KeyTypes
  <2>1. WakeTyped
    BY KeyConstants DEF KeysInit, WakeTyped
  <2>2. OpsTyped /\ TokensTyped
    BY DEF KeysInit, OpsTyped, TokensTyped, KeyOps
  <2>3. JwksTyped
    BY DEF KeysInit, JwksTyped, Caches
  <2>4. FetchTyped
    BY DEF KeysInit, FetchTyped, Fetches
  <2> QED BY <1>1, <2>1, <2>2, <2>3, <2>4 DEF KeyTypes
<1>3. OneActive /\ RowSpan /\ SomeKey
  <2>1. /\ keys[1].created = 1 /\ keys[1].expires = 1 + 2 * Rotation
        /\ keys[1].active = TRUE /\ 1 \in Kids
    BY <1>1, RowHas
  <2>2. OneActive
    BY <1>1 DEF OneActive
  <2>3. RowSpan
    BY <1>1, <2>1 DEF RowSpan
  <2>4. SomeKey
    BY <2>1 DEF SomeKey
  <2> QED BY <2>2, <2>3, <2>4
<1>4. \A o \in Ops : op[o].at = "none"
  BY OpHas DEF KeysInit
<1>5. \A v \in Verifiers : fetch[v].at = "none" /\ jwks[v].at = 0 /\ jwks[v].kids = {}
  BY FetchHas DEF KeysInit
<1>6. OpsFresh /\ TokensGood /\ FetchesFresh /\ CachesFresh
  BY <1>1, <1>4, <1>5 DEF KeysInit, OpsFresh, TokensGood, FetchesFresh, CachesFresh
<1>7. LoopsLook
  <2>1. \A s \in Servers : wake[s] = 1 + Interval
    BY DEF KeysInit
  <2>2. keys[1].created = 1
    BY <1>1, RowHas
  <2> QED BY <1>1, <1>4, <2>1, <2>2, KeyConstants DEF LoopsLook, LoopStores
<1> QED BY <1>2, <1>3, <1>6, <1>7 DEF KeyInv

(* What no step does to a key that is there: it keeps its place and its    *)
(* age, and expires earlier only when an operator pulls it.                *)
Grows ==
  /\ Kids \subseteq Kids'
  /\ \A k \in Kids :
       /\ keys'[k].created = keys[k].created
       /\ keys[k].pulled => keys'[k].pulled
       /\ \/ keys'[k].expires = keys[k].expires
          \/ keys'[k].pulled /\ keys'[k].expires = now

LEMMA GoodStays ==
  ASSUME Grows, NEW t, Good(t)
  PROVE  t.kid \in Kids' /\ (keys'[t.kid].pulled \/ keys'[t.kid].expires >= t.exp)
BY DEF Grows, Good

LEMMA ReadersFresh ==
  ASSUME KeyInv, Grows, UNCHANGED now
  PROVE  /\ UNCHANGED tokens => TokensGood'
         /\ UNCHANGED fetch => FetchesFresh'
         /\ UNCHANGED jwks => CachesFresh'
<1>1. ASSUME UNCHANGED tokens PROVE TokensGood'
  BY <1>1, GoodStays DEF KeyInv, TokensGood, Good
<1>2. ASSUME UNCHANGED fetch PROVE FetchesFresh'
  <2> SUFFICES ASSUME NEW v \in Verifiers, fetch[v].at = "read", NEW k \in fetch[v].kids
               PROVE  k \in Kids' /\ keys'[k].expires >= fetch[v].since
    BY <1>2 DEF KeyInv, FetchesFresh
  <2>1. /\ k \in Kids /\ keys[k].expires >= fetch[v].since
        /\ fetch[v].since <= now
    BY DEF KeyInv, FetchesFresh
  <2>2. fetch[v].since \in Nat /\ now \in Nat
    BY FetchHas DEF KeyInv, KeyTypes, FetchTyped, Fetches, KeyTableTyped
  <2> QED BY <2>1, <2>2 DEF Grows
<1>3. ASSUME UNCHANGED jwks PROVE CachesFresh'
  <2>1. \A v \in Verifiers : jwks'[v].at <= now'
    BY <1>3 DEF KeyInv, CachesFresh
  <2>2. ASSUME NEW v \in Verifiers, NEW k \in jwks[v].kids
        PROVE  k \in Kids' /\ keys'[k].expires + CallTime >= jwks[v].at
    <3>1. /\ k \in Kids /\ keys[k].expires + CallTime >= jwks[v].at
          /\ jwks[v].at <= now
      BY DEF KeyInv, CachesFresh
    <3>2. jwks[v].at \in Nat /\ now \in Nat /\ CallTime \in Nat
      BY KeyConstants DEF KeyInv, KeyTypes, JwksTyped, Caches, KeyTableTyped
    <3> QED BY <3>1, <3>2 DEF Grows
  <2> QED BY <1>3, <2>1, <2>2 DEF CachesFresh
<1> QED BY <1>1, <1>2, <1>3

LEMMA StoreKeeps ==
  ASSUME KeyInv, NEW c \in Nat, c <= now, keys' = Stored(keys, c), UNCHANGED now
  PROVE  /\ KeyTableTyped' /\ Grows /\ OneActive' /\ RowSpan' /\ SomeKey'
         /\ \A k \in Kids' : keys'[k].active => keys'[k].created = c
<1>1. KeyTableTyped
  BY DEF KeyInv, KeyTypes
<1> DEFINE n == Len(keys) + 1
<1>2. /\ keys' \in Seq(KeyRows) /\ Kids' = Kids \cup {n} /\ n \notin Kids
      /\ keys'[n].created = c /\ keys'[n].expires = c + 2 * Rotation
      /\ keys'[n].active = TRUE /\ keys'[n].pulled = FALSE
      /\ \A k \in Kids : /\ keys'[k].created = keys[k].created
                         /\ keys'[k].expires = keys[k].expires
                         /\ keys'[k].pulled = keys[k].pulled
                         /\ keys'[k].active = FALSE
  <2>1. n \notin Kids
    BY <1>1, StoredIs DEF Kids
  <2> QED BY <1>1, <2>1, StoredIs, RowHas
<1> HIDE DEF n
<1>3. KeyTableTyped' /\ Grows
  BY <1>1, <1>2 DEF KeyTableTyped, Grows
<1>4. OneActive' /\ SomeKey' /\ \A k \in Kids' : keys'[k].active => keys'[k].created = c
  BY <1>2 DEF OneActive, SomeKey
<1>5. RowSpan'
  BY <1>2 DEF KeyInv, RowSpan
<1> QED BY <1>3, <1>4, <1>5

LEMMA NobodyExpires ==
  ASSUME KeyTableTyped, UNCHANGED <<now, keys>>
  PROVE  Grows /\ KeyTableTyped'
BY DEF Grows, KeyTableTyped, Kids

(* A key that is pulled.                                                   *)
LEMMA ExpireKeeps ==
  ASSUME KeyInv, NEW i \in Kids, UNCHANGED now,
         keys' = [keys EXCEPT ![i].active = FALSE, ![i].expires = now, ![i].pulled = TRUE]
  PROVE  /\ KeyTableTyped' /\ Grows /\ OneActive' /\ RowSpan' /\ SomeKey'
         /\ Kids' = Kids
         /\ \A k \in Kids : keys'[k].active =>
              keys[k].active /\ keys'[k].created = keys[k].created
<1>1. KeyTableTyped /\ keys[i] \in KeyRows /\ now \in Nat
  BY KeyHas DEF KeyInv, KeyTypes, KeyTableTyped
<1>2. keys \in Seq(KeyRows) /\ DOMAIN keys = Kids /\ Kids = 1..Len(keys) /\ Len(keys) \in Nat
  BY <1>1, LenProperties DEF KeyTableTyped, Kids
<1> DEFINE q == [keys[i] EXCEPT !.active = FALSE, !.expires = now, !.pulled = TRUE]
<1>3. /\ q \in KeyRows /\ q.active = FALSE /\ q.expires = now /\ q.pulled = TRUE
      /\ q.created = keys[i].created
  BY <1>1 DEF KeyRows
<1>4. keys' = [keys EXCEPT ![i] = q]
  BY <1>1, <1>2 DEF KeyRows
<1> HIDE DEF q
<1>5. keys' \in Seq(KeyRows) /\ Len(keys') = Len(keys)
  <2>1. i \in 1..Len(keys)
    BY DEF Kids
  <2>2. /\ [keys EXCEPT ![i] = q] \in Seq(KeyRows)
        /\ Len([keys EXCEPT ![i] = q]) = Len(keys)
    BY <1>2, <1>3, <2>1, ExceptSeq, Zenon
  <2> QED BY <1>4, <2>2, Zenon
<1>6. /\ Kids' = Kids
      /\ \A k \in Kids : keys'[k] = IF k = i THEN q ELSE keys[k]
  BY <1>2, <1>4, <1>5 DEF Kids
<1>7. KeyTableTyped' /\ Grows
  BY <1>1, <1>3, <1>5, <1>6 DEF KeyTableTyped, Grows
<1>8. OneActive' /\ SomeKey'
  <2>1. \A k \in Kids : keys'[k].active => k # i /\ keys'[k] = keys[k]
    BY <1>3, <1>6
  <2>2. OneActive'
    BY <1>6, <2>1 DEF KeyInv, OneActive
  <2>3. SomeKey'
    BY <1>3, <1>6 DEF SomeKey
  <2> QED BY <2>2, <2>3
<1>9. RowSpan'
  <2> SUFFICES ASSUME NEW k \in Kids
               PROVE  /\ keys'[k].created <= now
                      /\ keys'[k].pulled \/ keys'[k].expires = keys'[k].created + 2 * Rotation
    BY <1>6 DEF RowSpan
  <2>1. CASE k = i
    BY <1>3, <1>6, <2>1 DEF KeyInv, RowSpan
  <2>2. CASE k # i
    BY <1>6, <2>2 DEF KeyInv, RowSpan
  <2> QED BY <2>1, <2>2
<1> QED BY <1>3, <1>6, <1>7, <1>8, <1>9

LEMMA OpPut ==
  ASSUME OpsTyped, NEW o \in Ops, NEW q \in KeyOps, op' = [op EXCEPT ![o] = q]
  PROVE  OpsTyped' /\ \A x \in Ops : op'[x] = IF x = o THEN q ELSE op[x]
BY DEF OpsTyped

LEMMA OpIs ==
  ASSUME OpsTyped, NEW o \in Ops
  PROVE  /\ op[o].at = "store" => op[o] \in StoreOps
         /\ op[o].at = "expire" => op[o] \in ExpireOps
         /\ op[o].at = "sign" => op[o] \in SignOps
         /\ op[o] = NoOp \/ op[o].at \in {"store", "expire", "sign"}
<1>1. op[o] \in KeyOps
  BY DEF OpsTyped
<1> QED BY <1>1, OpHas DEF KeyOps

LEMMA FetchIs ==
  ASSUME FetchTyped, NEW v \in Verifiers
  PROVE  /\ fetch[v].at = "sent" => fetch[v] \in Sent
         /\ fetch[v].at = "read" => fetch[v] \in Read
         /\ fetch[v] = NoFetch \/ fetch[v].at \in {"sent", "read"}
<1>1. fetch[v] \in Fetches
  BY DEF FetchTyped
<1> QED BY <1>1, FetchHas DEF Fetches

(* Steps that leave the loops and the clock alone.                         *)
LEMMA LoopsSame ==
  ASSUME KeyInv, UNCHANGED <<now, wake>>,
         \A k \in Kids' : keys'[k].active =>
           k \in Kids /\ keys[k].active /\ keys'[k].created = keys[k].created,
         \A s \in Servers : \A x \in Ops :
           /\ LoopStores(x, s)' <=> LoopStores(x, s)
           /\ LoopStores(x, s) => op'[x].created = op[x].created
  PROVE  LoopsLook'
<1> SUFFICES ASSUME NEW s \in Servers
             PROVE  /\ wake[s] <= now + Interval
                    /\ \A o \in Ops : LoopStores(o, s)' => op'[o].created <= wake[s]
                    /\ Up(s) => /\ now <= wake[s] \/ \E o \in Ops : LoopStores(o, s)'
                                /\ \A k \in Kids' : keys'[k].active =>
                                     wake[s] <= keys'[k].created + Rotation + Interval
  BY DEF LoopsLook, Up
<1> QED BY DEF KeyInv, LoopsLook

(* A step on operations that are no stores of a loop.                      *)
LEMMA OpMoves ==
  ASSUME KeyInv, NEW o \in Ops, NEW q \in KeyOps, op' = [op EXCEPT ![o] = q],
         UNCHANGED <<now, keys, wake, tokens, jwks, fetch>>,
         \A s \in Servers : ~LoopStores(o, s),
         q.at = "store" => q.created = now /\ ~q.loop,
         q.at = "expire" => q.kid \in Kids,
         q.at = "sign" => Good(q)
  PROVE  KeyInv'
<1>1. OpsTyped' /\ \A x \in Ops : op'[x] = IF x = o THEN q ELSE op[x]
  BY OpPut DEF KeyInv, KeyTypes
<1>2. Grows /\ KeyTableTyped'
  BY NobodyExpires DEF KeyInv, KeyTypes
<1>3. KeyTypes'
  BY <1>1, <1>2 DEF KeyInv, KeyTypes, WakeTyped, TokensTyped, JwksTyped, FetchTyped
<1>4. OneActive' /\ RowSpan' /\ SomeKey'
  BY DEF KeyInv, OneActive, RowSpan, SomeKey, Kids
<1>5. TokensGood' /\ FetchesFresh' /\ CachesFresh'
  BY <1>2, ReadersFresh
<1>6. OpsFresh'
  <2> SUFFICES ASSUME NEW x \in Ops
               PROVE  /\ op'[x].at = "store" => /\ op'[x].created <= now
                                                /\ now <= op'[x].created + CallTime
                      /\ op'[x].at = "expire" => op'[x].kid \in Kids
                      /\ op'[x].at = "sign" => Good(op'[x])
    BY DEF OpsFresh, Good, Kids
  <2>1. CASE x = o
    <3>1. now <= now + CallTime /\ now <= now
      BY KeyConstants DEF KeyInv, KeyTypes, KeyTableTyped
    <3> QED BY <1>1, <2>1, <3>1
  <2>2. CASE x # o
    BY <1>1, <2>2 DEF KeyInv, OpsFresh
  <2> QED BY <2>1, <2>2
<1>7. LoopsLook'
  <2>1. \A s \in Servers : \A x \in Ops :
          /\ LoopStores(x, s)' <=> LoopStores(x, s)
          /\ LoopStores(x, s) => op'[x].created = op[x].created
    <3> SUFFICES ASSUME NEW s \in Servers, NEW x \in Ops
                 PROVE  /\ LoopStores(x, s)' <=> LoopStores(x, s)
                        /\ LoopStores(x, s) => op'[x].created = op[x].created
      OBVIOUS
    <3>1. CASE x = o
      <4>1. ~LoopStores(x, s)'
        BY <1>1, <3>1 DEF LoopStores
      <4> QED BY <3>1, <4>1
    <3>2. CASE x # o
      BY <1>1, <3>2 DEF LoopStores
    <3> QED BY <3>1, <3>2
  <2>2. \A k \in Kids' : keys'[k].active =>
          k \in Kids /\ keys[k].active /\ keys'[k].created = keys[k].created
    BY DEF Kids
  <2> QED BY <2>1, <2>2, LoopsSame
<1> QED BY <1>3, <1>4, <1>5, <1>6, <1>7 DEF KeyInv

(* While a process is up, the active key has enough life left to sign.     *)
LEMMA SignerHasLife ==
  ASSUME KeyInv, NEW s \in Servers, Up(s), NEW k \in Kids, keys[k].active, ~keys[k].pulled
  PROVE  now + MaxTtl < keys[k].expires
<1>1. /\ now \in Nat /\ wake[s] \in Nat
      /\ keys[k].created \in Nat /\ keys[k].expires \in Nat
  BY KeyHas DEF KeyInv, KeyTypes, KeyTableTyped, WakeTyped
<1>2. wake[s] <= keys[k].created + Rotation + Interval
  BY DEF KeyInv, LoopsLook
<1>3. now <= wake[s] + CallTime
  <2>1. CASE now <= wake[s]
    BY <1>1, <2>1, KeyConstants
  <2>2. CASE \E o \in Ops : LoopStores(o, s)
    <3>1. PICK o \in Ops : LoopStores(o, s)
      BY <2>2
    <3>2. op[o].created <= wake[s] /\ now <= op[o].created + CallTime
      BY <3>1 DEF KeyInv, LoopsLook, OpsFresh, LoopStores
    <3>3. op[o].created \in Nat
      BY <3>1, OpIs, OpHas DEF KeyInv, KeyTypes, LoopStores
    <3> QED BY <1>1, <3>2, <3>3, KeyConstants
  <2> QED BY <2>1, <2>2 DEF KeyInv, LoopsLook
<1>4. keys[k].expires = keys[k].created + 2 * Rotation
  BY DEF KeyInv, RowSpan
<1> QED BY <1>1, <1>2, <1>3, <1>4, KeyConstants

(* What a fetch in flight leaves alone.                                    *)
LEMMA FetchPut ==
  ASSUME FetchTyped, NEW v \in Verifiers, NEW q \in Fetches, fetch' = [fetch EXCEPT ![v] = q]
  PROVE  FetchTyped' /\ \A x \in Verifiers : fetch'[x] = IF x = v THEN q ELSE fetch[x]
BY DEF FetchTyped

LEMMA FetchMoves ==
  ASSUME KeyInv, NEW v \in Verifiers, NEW q \in Fetches, fetch' = [fetch EXCEPT ![v] = q],
         UNCHANGED <<now, keys, wake, op, tokens>>, JwksTyped', CachesFresh',
         q.at \in {"sent", "read"} => q.since <= now /\ now <= q.since + CallTime,
         q.at = "read" => \A k \in q.kids : k \in Kids /\ keys[k].expires >= q.since
  PROVE  KeyInv'
<1>1. FetchTyped' /\ \A x \in Verifiers : fetch'[x] = IF x = v THEN q ELSE fetch[x]
  BY FetchPut DEF KeyInv, KeyTypes
<1>2. FetchesFresh'
  <2> SUFFICES ASSUME NEW x \in Verifiers
               PROVE  /\ fetch'[x].at \in {"sent", "read"} =>
                           fetch'[x].since <= now /\ now <= fetch'[x].since + CallTime
                      /\ fetch'[x].at = "read" =>
                           \A k \in fetch'[x].kids :
                             k \in Kids /\ keys[k].expires >= fetch'[x].since
    BY DEF FetchesFresh, Kids
  <2>1. CASE x = v
    BY <1>1, <2>1
  <2>2. CASE x # v
    BY <1>1, <2>2 DEF KeyInv, FetchesFresh
  <2> QED BY <2>1, <2>2
<1>3. KeyTypes'
  BY <1>1 DEF KeyInv, KeyTypes, KeyTableTyped, WakeTyped, OpsTyped, TokensTyped
<1>4. OneActive' /\ RowSpan' /\ SomeKey'
  BY DEF KeyInv, OneActive, RowSpan, SomeKey, Kids
<1>5. OpsFresh' /\ TokensGood'
  BY DEF KeyInv, OpsFresh, TokensGood, Good, Kids
<1>6. LoopsLook'
  BY DEF KeyInv, LoopsLook, LoopStores, Up, Kids
<1> QED BY <1>1, <1>2, <1>3, <1>4, <1>5, <1>6 DEF KeyInv

(* Time that goes on: no loop is late, no call takes too long.             *)
LEMMA TickKeeps ==
  ASSUME KeyInv, KeysTick
  PROVE  KeyInv'
<1>1. /\ \A s \in Servers : ~Looks(s)
      /\ \A o \in Ops : op[o].at = "store" => now - op[o].created < CallTime
      /\ \A v \in Verifiers : fetch[v] # NoFetch => now - fetch[v].since < CallTime
      /\ now' = now + 1
      /\ UNCHANGED <<keys, wake, op, tokens, jwks, fetch>>
  BY DEF KeysTick
<1>2. /\ KeyTableTyped /\ WakeTyped /\ OpsTyped /\ JwksTyped /\ FetchTyped /\ now \in Nat
      /\ OpsFresh /\ LoopsLook /\ FetchesFresh /\ CachesFresh /\ RowSpan
  BY DEF KeyInv, KeyTypes, KeyTableTyped
<1>3. Kids' = Kids
  BY <1>1 DEF Kids
<1>4. KeyTypes'
  BY <1>1 DEF KeyInv, KeyTypes, KeyTableTyped, WakeTyped, OpsTyped, TokensTyped, JwksTyped, FetchTyped
<1>5. OneActive' /\ SomeKey' /\ TokensGood'
  BY <1>1, <1>3 DEF KeyInv, OneActive, SomeKey, TokensGood, Good
<1>6. RowSpan'
  <2>1. \A k \in Kids : keys[k].created \in Nat
    BY <1>2, KeyHas
  <2> QED BY <1>1, <1>2, <1>3, <2>1 DEF RowSpan
<1>7. OpsFresh'
  <2> SUFFICES ASSUME NEW o \in Ops
               PROVE  /\ op[o].at = "store" => /\ op[o].created <= now + 1
                                               /\ now + 1 <= op[o].created + CallTime
                      /\ op[o].at = "expire" => op[o].kid \in Kids
                      /\ op[o].at = "sign" => Good(op[o])
    BY <1>1, <1>3 DEF OpsFresh, Good
  <2>1. ASSUME op[o].at = "store"
        PROVE  op[o].created <= now + 1 /\ now + 1 <= op[o].created + CallTime
    <3>1. op[o].created \in Nat /\ op[o].created <= now /\ now - op[o].created < CallTime
      BY <1>1, <1>2, <2>1, OpIs, OpHas DEF OpsFresh
    <3> QED BY <1>2, <3>1, KeyConstants
  <2> QED BY <1>2, <2>1 DEF OpsFresh
<1>8. LoopsLook'
  <2> SUFFICES ASSUME NEW s \in Servers
               PROVE  /\ wake[s] <= now + 1 + Interval
                      /\ \A o \in Ops : LoopStores(o, s) => op[o].created <= wake[s]
                      /\ Up(s) => /\ now + 1 <= wake[s] \/ \E o \in Ops : LoopStores(o, s)
                                  /\ \A k \in Kids : keys[k].active =>
                                       wake[s] <= keys[k].created + Rotation + Interval
    BY <1>1, <1>3 DEF LoopsLook, LoopStores, Up
  <2>1. wake[s] \in Nat
    BY <1>2 DEF WakeTyped
  <2>2. Up(s) => now + 1 <= wake[s] \/ \E o \in Ops : LoopStores(o, s)
    BY <1>1, <1>2, <2>1 DEF Looks
  <2>3. wake[s] <= now + Interval
    BY <1>2 DEF LoopsLook
  <2>4. wake[s] <= now + 1 + Interval
    BY <1>2, <2>1, <2>3, KeyConstants
  <2> QED BY <1>2, <2>2, <2>4 DEF LoopsLook
<1>9. FetchesFresh'
  <2> SUFFICES ASSUME NEW v \in Verifiers
               PROVE  /\ fetch[v].at \in {"sent", "read"} =>
                           fetch[v].since <= now + 1 /\ now + 1 <= fetch[v].since + CallTime
                      /\ fetch[v].at = "read" =>
                           \A k \in fetch[v].kids :
                             k \in Kids /\ keys[k].expires >= fetch[v].since
    BY <1>1, <1>3 DEF FetchesFresh
  <2>1. ASSUME fetch[v].at \in {"sent", "read"}
        PROVE  fetch[v].since <= now + 1 /\ now + 1 <= fetch[v].since + CallTime
    <3>1. fetch[v].since \in Nat /\ fetch[v] # NoFetch /\ fetch[v].since <= now
      BY <1>2, <2>1, FetchIs, FetchHas DEF FetchesFresh
    <3>2. now - fetch[v].since < CallTime
      BY <1>1, <3>1
    <3> QED BY <1>2, <3>1, <3>2, KeyConstants
  <2> QED BY <1>2, <2>1 DEF FetchesFresh
<1>10. CachesFresh'
  <2>1. \A v \in Verifiers : jwks[v].at \in Nat
    BY <1>2 DEF JwksTyped, Caches
  <2>2. \A v \in Verifiers : jwks[v].at <= now + 1
    BY <1>2, <2>1 DEF CachesFresh
  <2> QED BY <1>1, <1>2, <1>3, <2>2 DEF CachesFresh
<1> QED BY <1>4, <1>5, <1>6, <1>7, <1>8, <1>9, <1>10 DEF KeyInv

LEMMA KeyStep == KeyInv /\ [KeysNext]_keyVars => KeyInv'
<1> SUFFICES ASSUME KeyInv, [KeysNext]_keyVars PROVE KeyInv'
  OBVIOUS
<1>0. /\ KeyTableTyped /\ WakeTyped /\ OpsTyped /\ TokensTyped /\ JwksTyped /\ FetchTyped
      /\ now \in Nat /\ OneActive /\ RowSpan /\ SomeKey /\ OpsFresh /\ LoopsLook
      /\ TokensGood /\ FetchesFresh /\ CachesFresh
  BY DEF KeyInv, KeyTypes, KeyTableTyped
<1>1. ASSUME NEW S, S \subseteq ActiveKids, S # {}
      PROVE  Newest(S) \in ActiveKids /\ S = {Newest(S)} /\ ActiveKids = {Newest(S)}
  <2>1. PICK k \in S : k \in Kids /\ keys[k].active
    BY <1>1 DEF ActiveKids
  <2>2. S = {k} /\ ActiveKids = {k}
    BY <1>0, <1>1, <2>1 DEF ActiveKids, OneActive
  <2> QED BY <1>0, <2>1, <2>2, NewestOfOne
<1>2. ASSUME UNCHANGED <<now, keys>>
      PROVE  /\ Grows /\ KeyTableTyped' /\ OneActive' /\ RowSpan' /\ SomeKey'
             /\ UNCHANGED tokens => TokensGood'
             /\ UNCHANGED fetch => FetchesFresh'
             /\ UNCHANGED jwks => CachesFresh'
             /\ UNCHANGED op => OpsFresh'
             /\ UNCHANGED <<op, wake>> => LoopsLook'
  <2>1. Grows /\ KeyTableTyped'
    BY <1>0, <1>2, NobodyExpires
  <2>2. OneActive' /\ RowSpan' /\ SomeKey'
    BY <1>0, <1>2 DEF OneActive, RowSpan, SomeKey, Kids
  <2>3. UNCHANGED op => OpsFresh'
    BY <1>0, <1>2 DEF OpsFresh, Good, Kids
  <2>4. UNCHANGED <<op, wake>> => LoopsLook'
    BY <1>0, <1>2 DEF LoopsLook, LoopStores, Up, Kids
  <2> QED BY <1>2, <2>1, <2>2, <2>3, <2>4, ReadersFresh
<1>3. ASSUME UNCHANGED wake PROVE WakeTyped'
  BY <1>0, <1>3 DEF WakeTyped
<1>4. ASSUME UNCHANGED op PROVE OpsTyped'
  BY <1>0, <1>4 DEF OpsTyped
<1>5. ASSUME UNCHANGED tokens PROVE TokensTyped'
  BY <1>0, <1>5 DEF TokensTyped
<1>6. ASSUME UNCHANGED jwks PROVE JwksTyped'
  BY <1>0, <1>6 DEF JwksTyped
<1>7. ASSUME UNCHANGED fetch PROVE FetchTyped'
  BY <1>0, <1>7 DEF FetchTyped
<1>8. ASSUME NEW o \in Ops, op[o] = NoOp PROVE \A s \in Servers : ~LoopStores(o, s)
  BY <1>8, OpHas DEF LoopStores
<1>9. ASSUME NEW s \in Servers, NEW o \in Ops, NEW byLoop \in BOOLEAN
      PROVE  LET q == [at |-> "store", server |-> s, created |-> now, loop |-> byLoop]
             IN  /\ q \in KeyOps /\ q.at = "store" /\ q.server = s
                 /\ q.created = now /\ q.loop = byLoop
  BY <1>0 DEF KeyOps, StoreOps
<1>10. ASSUME NEW s \in Servers, NEW o \in Ops, ForceRotate(s, o) PROVE KeyInv'
  <2> DEFINE q == [at |-> "store", server |-> s, created |-> now, loop |-> FALSE]
  <2>1. /\ op[o] = NoOp /\ op' = [op EXCEPT ![o] = q]
        /\ UNCHANGED <<now, keys, wake, tokens, jwks, fetch>>
    BY <1>10 DEF ForceRotate, StartStore
  <2>2. q \in KeyOps /\ q.at = "store" /\ q.created = now /\ q.loop = FALSE
    BY <1>9
  <2> HIDE DEF q
  <2> QED BY <1>8, <2>1, <2>2, OpMoves
<1>11. ASSUME NEW s \in Servers, NEW o \in Ops, NEW k \in Kids, ExpireGet(s, o, k)
       PROVE  KeyInv'
  <2> DEFINE q == [at |-> "expire", server |-> s, kid |-> k]
  <2>1. /\ op[o] = NoOp /\ op' = [op EXCEPT ![o] = q]
        /\ UNCHANGED <<now, keys, wake, tokens, jwks, fetch>>
    BY <1>11 DEF ExpireGet
  <2>2. q \in KeyOps /\ q.at = "expire" /\ q.kid = k
    BY <1>0, KeyHas DEF KeyOps, ExpireOps
  <2> HIDE DEF q
  <2> QED BY <1>8, <2>1, <2>2, OpMoves
<1>12. ASSUME NEW s \in Servers, NEW o \in Ops, NEW ttl \in Lifetimes, IssueRead(s, o, ttl)
       PROVE  KeyInv'
  <2> DEFINE k == Newest(Signers)
             q == [at |-> "sign", server |-> s, kid |-> k, exp |-> now + ttl]
  <2>1. /\ Up(s) /\ op[o] = NoOp /\ Signers # {} /\ op' = [op EXCEPT ![o] = q]
        /\ UNCHANGED <<now, keys, wake, tokens, jwks, fetch>>
    BY <1>12 DEF IssueRead
  <2>2. k \in Kids /\ keys[k].active
    <3>1. Signers \subseteq ActiveKids
      BY DEF Signers
    <3>2. k \in ActiveKids
      BY <1>1, <2>1, <3>1
    <3> QED BY <3>2 DEF ActiveKids
  <2> HIDE DEF k
  <2>3. ttl \in Nat /\ ttl <= MaxTtl
    BY KeyConstants DEF Lifetimes
  <2>4. q \in KeyOps /\ q.at = "sign" /\ q.kid = k /\ q.exp = now + ttl
    <3>1. k \in Nat /\ now + ttl \in Nat
      BY <1>0, <2>2, <2>3, KeyHas
    <3> QED BY <3>1 DEF KeyOps, SignOps
  <2>5. keys[k].pulled \/ keys[k].expires >= now + ttl
    <3>1. keys[k].pulled \/ now + MaxTtl < keys[k].expires
      BY <2>1, <2>2, SignerHasLife
    <3>2. keys[k].expires \in Nat
      BY <1>0, <2>2, KeyHas
    <3> QED BY <1>0, <2>3, <3>1, <3>2, KeyConstants
  <2>6. Good(q)
    BY <2>2, <2>4, <2>5 DEF Good
  <2> HIDE DEF q
  <2> QED BY <1>8, <2>1, <2>4, <2>6, OpMoves
<1>13. ASSUME NEW s \in Servers, NEW o \in Ops, LoopRotates(s, o) PROVE KeyInv'
  <2> DEFINE q == [at |-> "store", server |-> s, created |-> now, loop |-> TRUE]
  <2>1. /\ Looks(s) /\ op[o] = NoOp /\ op' = [op EXCEPT ![o] = q]
        /\ UNCHANGED <<now, keys, wake, tokens, jwks, fetch>>
    BY <1>13 DEF LoopRotates, StartStore
  <2>2. /\ q \in KeyOps /\ q.at = "store" /\ q.server = s
        /\ q.created = now /\ q.loop = TRUE
    BY <1>9
  <2> HIDE DEF q
  <2>3. OpsTyped' /\ \A x \in Ops : op'[x] = IF x = o THEN q ELSE op[x]
    BY <1>0, <2>1, <2>2, OpPut
  <2>4. OpsFresh'
    <3> SUFFICES ASSUME NEW x \in Ops
                 PROVE  /\ op'[x].at = "store" => /\ op'[x].created <= now
                                                  /\ now <= op'[x].created + CallTime
                        /\ op'[x].at = "expire" => op'[x].kid \in Kids
                        /\ op'[x].at = "sign" => Good(op'[x])
      BY <2>1 DEF OpsFresh, Good, Kids
    <3>1. CASE x = o
      <4>1. now <= now + CallTime /\ now <= now
        BY <1>0, KeyConstants
      <4> QED BY <2>2, <2>3, <3>1, <4>1
    <3>2. CASE x # o
      BY <1>0, <2>3, <3>2 DEF OpsFresh
    <3> QED BY <3>1, <3>2
  <2>5. LoopsLook'
    <3> SUFFICES ASSUME NEW u \in Servers
                 PROVE  /\ wake[u] <= now + Interval
                        /\ \A x \in Ops : LoopStores(x, u)' => op'[x].created <= wake[u]
                        /\ Up(u) => /\ now <= wake[u] \/ \E x \in Ops : LoopStores(x, u)'
                                    /\ \A k \in Kids : keys[k].active =>
                                         wake[u] <= keys[k].created + Rotation + Interval
      BY <2>1 DEF LoopsLook, Up, Kids
    <3>1. ASSUME NEW x \in Ops PROVE LoopStores(x, u)' => op'[x].created <= wake[u]
      <4>1. CASE x = o
        <5>1. LoopStores(o, u)' => u = s
          BY <2>2, <2>3 DEF LoopStores
        <5>2. now <= wake[s]
          BY <1>0, <2>1 DEF Looks, LoopsLook
        <5> QED BY <2>2, <2>3, <4>1, <5>1, <5>2
      <4>2. CASE x # o
        BY <1>0, <2>3, <4>2 DEF LoopStores, LoopsLook
      <4> QED BY <4>1, <4>2
    <3>2. \A x \in Ops : LoopStores(x, u) => LoopStores(x, u)'
      <4>1. \A x \in Ops : x # o => (LoopStores(x, u)' <=> LoopStores(x, u))
        BY <2>3 DEF LoopStores
      <4> QED BY <1>8, <2>1, <4>1
    <3> QED BY <1>0, <3>1, <3>2 DEF LoopsLook
  <2> QED BY <1>0, <1>2, <1>3, <1>5, <1>6, <1>7, <2>1, <2>3, <2>4, <2>5 DEF KeyInv, KeyTypes
<1>14. ASSUME NEW s \in Servers, LoopLeaves(s) PROVE KeyInv'
  <2>1. /\ Looks(s)
        /\ ActiveKids # {} => ~Due(keys, Newest(ActiveKids))
        /\ wake' = [wake EXCEPT ![s] = now + Interval]
        /\ UNCHANGED <<now, keys, op, tokens, jwks, fetch>>
    BY <1>14 DEF LoopLeaves
  <2>2. now + Interval \in Nat /\ now <= now + Interval /\ now + Interval # 0
    BY <1>0, KeyConstants
  <2>3. WakeTyped' /\ \A u \in Servers : wake'[u] = IF u = s THEN now + Interval ELSE wake[u]
    BY <1>0, <2>1, <2>2 DEF WakeTyped
  <2>4. \A k \in Kids : keys[k].active => now + Interval <= keys[k].created + Rotation + Interval
    <3> SUFFICES ASSUME NEW k \in Kids, keys[k].active
                 PROVE  now + Interval <= keys[k].created + Rotation + Interval
      OBVIOUS
    <3>1. k \in ActiveKids
      BY DEF ActiveKids
    <3>2. k = Newest(ActiveKids)
      BY <1>1, <3>1
    <3>3. ~(keys[k].created + Rotation <= now)
      BY <2>1, <3>1, <3>2 DEF Due
    <3> QED BY <1>0, <3>3, KeyHas, KeyConstants
  <2>5. LoopsLook'
    <3> SUFFICES ASSUME NEW u \in Servers
                 PROVE  /\ wake'[u] <= now + Interval
                        /\ \A x \in Ops : LoopStores(x, u) => op[x].created <= wake'[u]
                        /\ Up(u)' => /\ now <= wake'[u] \/ \E x \in Ops : LoopStores(x, u)
                                     /\ \A k \in Kids : keys[k].active =>
                                          wake'[u] <= keys[k].created + Rotation + Interval
      BY <2>1 DEF LoopsLook, Kids, LoopStores
    <3>1. CASE u = s
      <4>1. \A x \in Ops : ~LoopStores(x, u)
        BY <2>1, <3>1 DEF Looks
      <4> QED BY <2>2, <2>3, <2>4, <3>1, <4>1
    <3>2. CASE u # s
      <4>1. wake'[u] = wake[u]
        BY <2>3, <3>2
      <4> QED BY <1>0, <4>1 DEF LoopsLook, Up
    <3> QED BY <3>1, <3>2
  <2> QED BY <1>0, <1>2, <1>4, <1>5, <1>6, <1>7, <2>1, <2>3, <2>5 DEF KeyInv, KeyTypes
<1>15. ASSUME NEW o \in Ops, Store(o) PROVE KeyInv'
  <2> DEFINE c == op[o].created
  <2>1. /\ op[o].at = "store" /\ keys' = Stored(keys, c)
        /\ wake' = [s \in Servers |-> IF LoopStores(o, s) THEN now + Interval ELSE wake[s]]
        /\ op' = [op EXCEPT ![o] = NoOp]
        /\ UNCHANGED <<now, tokens, jwks, fetch>>
    BY <1>15 DEF Store
  <2>2. c \in Nat /\ c <= now /\ now <= c + CallTime
    BY <1>0, <2>1, OpIs, OpHas DEF OpsFresh
  <2> HIDE DEF c
  <2>3. /\ KeyTableTyped' /\ Grows /\ OneActive' /\ RowSpan' /\ SomeKey'
        /\ \A k \in Kids' : keys'[k].active => keys'[k].created = c
    BY <2>1, <2>2, StoreKeeps
  <2>4. now + Interval \in Nat /\ now <= now + Interval
    BY <1>0, KeyConstants
  <2>5. /\ WakeTyped'
        /\ \A s \in Servers : wake'[s] = IF LoopStores(o, s) THEN now + Interval ELSE wake[s]
    BY <1>0, <2>1, <2>4 DEF WakeTyped
  <2>6. OpsTyped' /\ \A x \in Ops : op'[x] = IF x = o THEN NoOp ELSE op[x]
    <3>1. NoOp \in KeyOps
      BY DEF KeyOps
    <3> QED BY <1>0, <2>1, <3>1, OpPut
  <2>7. OpsFresh'
    <3> SUFFICES ASSUME NEW x \in Ops
                 PROVE  /\ op'[x].at = "store" => /\ op'[x].created <= now
                                                  /\ now <= op'[x].created + CallTime
                        /\ op'[x].at = "expire" => op'[x].kid \in Kids'
                        /\ op'[x].at = "sign" =>
                            /\ op'[x].kid \in Kids'
                            /\ keys'[op'[x].kid].pulled \/ keys'[op'[x].kid].expires >= op'[x].exp
      BY <2>1 DEF OpsFresh, Good
    <3>1. CASE x = o
      BY <2>6, <3>1, OpHas
    <3>2. CASE x # o
      <4>1. op'[x] = op[x]
        BY <2>6, <3>2
      <4>2. op[x].at = "sign" =>
              /\ op[x].kid \in Kids'
              /\ keys'[op[x].kid].pulled \/ keys'[op[x].kid].expires >= op[x].exp
        BY <1>0, <2>3, GoodStays DEF OpsFresh
      <4>3. op[x].at = "expire" => op[x].kid \in Kids'
        BY <1>0, <2>3 DEF OpsFresh, Grows
      <4> QED BY <1>0, <4>1, <4>2, <4>3 DEF OpsFresh
    <3> QED BY <3>1, <3>2
  <2>8. LoopsLook'
    <3> SUFFICES ASSUME NEW u \in Servers
                 PROVE  /\ wake'[u] <= now + Interval
                        /\ \A x \in Ops : LoopStores(x, u)' => op'[x].created <= wake'[u]
                        /\ Up(u)' => /\ now <= wake'[u] \/ \E x \in Ops : LoopStores(x, u)'
                                     /\ \A k \in Kids' : keys'[k].active =>
                                          wake'[u] <= keys'[k].created + Rotation + Interval
      BY <2>1 DEF LoopsLook
    <3>1. wake[u] \in Nat /\ wake[u] <= now + Interval /\ wake'[u] \in Nat
      BY <1>0, <2>5 DEF LoopsLook, WakeTyped
    <3>2. wake'[u] <= now + Interval
      BY <2>4, <2>5, <3>1
    <3>3. \A k \in Kids' : keys'[k].active => wake'[u] <= keys'[k].created + Rotation + Interval
      <4>1. wake'[u] <= c + Rotation + Interval
        BY <1>0, <2>2, <3>1, <3>2, KeyConstants
      <4> QED BY <2>3, <4>1
    <3>4. \A x \in Ops : LoopStores(x, u)' <=> LoopStores(x, u) /\ x # o
      <4>1. ~LoopStores(o, u)'
        BY <2>6, OpHas DEF LoopStores
      <4>2. \A x \in Ops : x # o => (LoopStores(x, u)' <=> LoopStores(x, u))
        BY <2>6 DEF LoopStores
      <4> QED BY <4>1, <4>2
    <3>5. CASE LoopStores(o, u)
      <4>1. wake'[u] = now + Interval
        BY <2>5, <3>5
      <4>2. ASSUME NEW x \in Ops, LoopStores(x, u)' PROVE op'[x].created <= wake'[u]
        <5>1. op[x].created <= now /\ op[x].created \in Nat /\ op'[x] = op[x]
          BY <1>0, <2>6, <3>4, <4>2, OpIs, OpHas DEF OpsFresh, LoopStores
        <5> QED BY <1>0, <2>4, <4>1, <5>1
      <4> QED BY <2>4, <3>2, <3>3, <4>1, <4>2
    <3>6. CASE ~LoopStores(o, u)
      <4>1. wake'[u] = wake[u]
        BY <2>5, <3>6
      <4>2. \A x \in Ops : LoopStores(x, u)' => op'[x].created <= wake'[u]
        BY <1>0, <2>6, <3>4, <4>1 DEF LoopsLook
      <4>3. Up(u)' => now <= wake'[u] \/ \E x \in Ops : LoopStores(x, u)'
        BY <1>0, <3>4, <3>6, <4>1 DEF LoopsLook, Up
      <4> QED BY <3>2, <3>3, <4>2, <4>3
    <3> QED BY <3>5, <3>6
  <2>9. TokensGood' /\ FetchesFresh' /\ CachesFresh'
    BY <2>1, <2>3, ReadersFresh
  <2> QED BY <1>5, <1>6, <1>7, <2>1, <2>3, <2>5, <2>6, <2>7, <2>8, <2>9 DEF KeyInv, KeyTypes
<1>16. ASSUME NEW o \in Ops, Expire(o) PROVE KeyInv'
  <2> DEFINE i == op[o].kid
  <2>1. /\ op[o].at = "expire" /\ op' = [op EXCEPT ![o] = NoOp]
        /\ keys' = [keys EXCEPT ![i].active = FALSE, ![i].expires = now, ![i].pulled = TRUE]
        /\ UNCHANGED <<now, wake, tokens, jwks, fetch>>
    BY <1>16 DEF Expire
  <2>2. i \in Kids
    BY <1>0, <2>1 DEF OpsFresh
  <2> HIDE DEF i
  <2>3. /\ KeyTableTyped' /\ Grows /\ OneActive' /\ RowSpan' /\ SomeKey' /\ Kids' = Kids
        /\ \A k \in Kids : keys'[k].active =>
             keys[k].active /\ keys'[k].created = keys[k].created
    BY <2>1, <2>2, ExpireKeeps
  <2>4. OpsTyped' /\ \A x \in Ops : op'[x] = IF x = o THEN NoOp ELSE op[x]
    <3>1. NoOp \in KeyOps
      BY DEF KeyOps
    <3> QED BY <1>0, <2>1, <3>1, OpPut
  <2>5. OpsFresh'
    <3> SUFFICES ASSUME NEW x \in Ops
                 PROVE  /\ op'[x].at = "store" => /\ op'[x].created <= now
                                                  /\ now <= op'[x].created + CallTime
                        /\ op'[x].at = "expire" => op'[x].kid \in Kids'
                        /\ op'[x].at = "sign" =>
                            /\ op'[x].kid \in Kids'
                            /\ keys'[op'[x].kid].pulled \/ keys'[op'[x].kid].expires >= op'[x].exp
      BY <2>1 DEF OpsFresh, Good
    <3>1. CASE x = o
      BY <2>4, <3>1, OpHas
    <3>2. CASE x # o
      <4>1. op'[x] = op[x]
        BY <2>4, <3>2
      <4>2. op[x].at = "sign" =>
              /\ op[x].kid \in Kids'
              /\ keys'[op[x].kid].pulled \/ keys'[op[x].kid].expires >= op[x].exp
        BY <1>0, <2>3, GoodStays DEF OpsFresh
      <4>3. op[x].at = "expire" => op[x].kid \in Kids'
        BY <1>0, <2>3 DEF OpsFresh, Grows
      <4> QED BY <1>0, <4>1, <4>2, <4>3 DEF OpsFresh
    <3> QED BY <3>1, <3>2
  <2>6. LoopsLook'
    <3>1. \A s \in Servers : \A x \in Ops :
            /\ LoopStores(x, s)' <=> LoopStores(x, s)
            /\ LoopStores(x, s) => op'[x].created = op[x].created
      BY <2>1, <2>4, OpHas DEF LoopStores
    <3> QED BY <2>1, <2>3, <3>1, LoopsSame
  <2>7. TokensGood' /\ FetchesFresh' /\ CachesFresh'
    BY <2>1, <2>3, ReadersFresh
  <2> QED BY <1>3, <1>5, <1>6, <1>7, <2>1, <2>3, <2>4, <2>5, <2>6, <2>7 DEF KeyInv, KeyTypes
<1>17. ASSUME NEW o \in Ops, Sign(o) PROVE KeyInv'
  <2> DEFINE t == [kid |-> op[o].kid, exp |-> op[o].exp]
  <2>1. /\ op[o].at = "sign" /\ op' = [op EXCEPT ![o] = NoOp] /\ tokens' = tokens \cup {t}
        /\ UNCHANGED <<now, keys, wake, jwks, fetch>>
    BY <1>17 DEF Sign
  <2>2. op[o].kid \in Nat /\ op[o].exp \in Nat /\ Good(op[o])
    BY <1>0, <2>1, OpIs, OpHas DEF OpsFresh
  <2>3. t \in [kid : Nat, exp : Nat] /\ Good(t)
    BY <2>2 DEF Good
  <2> HIDE DEF t
  <2>4. OpsTyped' /\ \A x \in Ops : op'[x] = IF x = o THEN NoOp ELSE op[x]
    <3>1. NoOp \in KeyOps
      BY DEF KeyOps
    <3> QED BY <1>0, <2>1, <3>1, OpPut
  <2>5. OpsFresh'
    <3> SUFFICES ASSUME NEW x \in Ops
                 PROVE  /\ op'[x].at = "store" => /\ op'[x].created <= now
                                                  /\ now <= op'[x].created + CallTime
                        /\ op'[x].at = "expire" => op'[x].kid \in Kids
                        /\ op'[x].at = "sign" => Good(op'[x])
      BY <2>1 DEF OpsFresh, Good, Kids
    <3>1. CASE x = o
      BY <2>4, <3>1, OpHas
    <3>2. CASE x # o
      BY <1>0, <2>4, <3>2 DEF OpsFresh
    <3> QED BY <3>1, <3>2
  <2>6. LoopsLook'
    <3>1. \A s \in Servers : \A x \in Ops :
            /\ LoopStores(x, s)' <=> LoopStores(x, s)
            /\ LoopStores(x, s) => op'[x].created = op[x].created
      BY <2>1, <2>4, OpHas DEF LoopStores
    <3>2. \A k \in Kids' : keys'[k].active =>
            k \in Kids /\ keys[k].active /\ keys'[k].created = keys[k].created
      BY <2>1 DEF Kids
    <3> QED BY <2>1, <3>1, <3>2, LoopsSame
  <2>7. TokensTyped' /\ TokensGood'
    <3>1. TokensTyped'
      BY <1>0, <2>1, <2>3 DEF TokensTyped
    <3>2. \A x \in tokens' : Good(x)
      BY <1>0, <2>1, <2>3 DEF TokensGood
    <3> QED BY <2>1, <3>1, <3>2 DEF TokensGood, Good, Kids
  <2> QED BY <1>2, <1>3, <1>6, <1>7, <2>1, <2>4, <2>5, <2>6, <2>7 DEF KeyInv, KeyTypes
<1>18. ASSUME NEW s \in Servers, Crash(s) PROVE KeyInv'
  <2>1. /\ wake' = [wake EXCEPT ![s] = 0]
        /\ op' = [o \in Ops |-> IF op[o] # NoOp /\ op[o].server = s THEN NoOp ELSE op[o]]
        /\ UNCHANGED <<now, keys, tokens, jwks, fetch>>
    BY <1>18 DEF Crash
  <2>2. WakeTyped' /\ \A u \in Servers : wake'[u] = IF u = s THEN 0 ELSE wake[u]
    BY <1>0, <2>1 DEF WakeTyped
  <2>3. \A x \in Ops : \/ op'[x] = NoOp /\ op[x].server = s
                       \/ op'[x] = op[x] /\ (op[x] # NoOp => op[x].server # s)
    BY <2>1
  <2>4. OpsTyped'
    <3>1. \A x \in Ops : op'[x] \in KeyOps
      BY <1>0, <2>3 DEF OpsTyped, KeyOps
    <3> QED BY <2>1, <3>1 DEF OpsTyped
  <2>5. OpsFresh'
    <3> SUFFICES ASSUME NEW x \in Ops
                 PROVE  /\ op'[x].at = "store" => /\ op'[x].created <= now
                                                  /\ now <= op'[x].created + CallTime
                        /\ op'[x].at = "expire" => op'[x].kid \in Kids
                        /\ op'[x].at = "sign" => Good(op'[x])
      BY <2>1 DEF OpsFresh, Good, Kids
    <3>1. CASE op'[x] = NoOp
      BY <3>1, OpHas
    <3>2. CASE op'[x] = op[x]
      BY <1>0, <3>2 DEF OpsFresh
    <3> QED BY <2>3, <3>1, <3>2
  <2>6. LoopsLook'
    <3> SUFFICES ASSUME NEW u \in Servers
                 PROVE  /\ wake'[u] <= now + Interval
                        /\ \A x \in Ops : LoopStores(x, u)' => op'[x].created <= wake'[u]
                        /\ Up(u)' => /\ now <= wake'[u] \/ \E x \in Ops : LoopStores(x, u)'
                                     /\ \A k \in Kids : keys[k].active =>
                                          wake'[u] <= keys[k].created + Rotation + Interval
      BY <2>1 DEF LoopsLook, Kids
    <3>1. CASE u = s
      <4>1. \A x \in Ops : ~LoopStores(x, u)'
        BY <2>3, <3>1, OpHas DEF LoopStores
      <4>2. wake'[u] = 0 /\ 0 <= now + Interval
        BY <1>0, <2>2, <3>1, KeyConstants
      <4> QED BY <4>1, <4>2 DEF Up
    <3>2. CASE u # s
      <4>1. wake'[u] = wake[u]
        BY <2>2, <3>2
      <4>2. \A x \in Ops : /\ LoopStores(x, u)' <=> LoopStores(x, u)
                           /\ LoopStores(x, u) => op'[x] = op[x]
        BY <2>3, <3>2, OpHas DEF LoopStores
      <4> QED BY <1>0, <4>1, <4>2 DEF LoopsLook, Up
    <3> QED BY <3>1, <3>2
  <2> QED BY <1>2, <1>5, <1>6, <1>7, <2>1, <2>2, <2>4, <2>5, <2>6 DEF KeyInv, KeyTypes
<1>19. ASSUME NEW s \in Servers, Start(s) PROVE KeyInv'
  <2>1. /\ \/ keys' = Stored(keys, now)
           \/ Signers # {} /\ ~Due(keys, Newest(Signers)) /\ UNCHANGED keys
        /\ wake' = [wake EXCEPT ![s] = now + Interval]
        /\ UNCHANGED <<now, op, tokens, jwks, fetch>>
    BY <1>19 DEF Start
  <2>2. now + Interval \in Nat /\ now <= now + Interval /\ now <= now
    BY <1>0, KeyConstants
  <2>3. WakeTyped' /\ \A u \in Servers : wake'[u] = IF u = s THEN now + Interval ELSE wake[u]
    BY <1>0, <2>1, <2>2 DEF WakeTyped
  <2>4. /\ KeyTableTyped' /\ Grows /\ OneActive' /\ RowSpan' /\ SomeKey'
        /\ \A k \in Kids' : keys'[k].active =>
             /\ now < keys'[k].created + Rotation
             /\ UNCHANGED keys \/ keys'[k].created = now
    <3>1. CASE keys' = Stored(keys, now)
      <4>1. now < now + Rotation
        BY <1>0, KeyConstants
      <4> QED BY <1>0, <2>1, <2>2, <3>1, <4>1, StoreKeeps
    <3>2. CASE Signers # {} /\ ~Due(keys, Newest(Signers)) /\ UNCHANGED keys
      <4>1. Kids' = Kids
        BY <3>2 DEF Kids
      <4>2. ASSUME NEW k \in Kids, keys[k].active PROVE now < keys[k].created + Rotation
        <5>1. Signers \subseteq ActiveKids /\ k \in ActiveKids
          BY <4>2 DEF Signers, ActiveKids
        <5>2. k = Newest(Signers)
          BY <1>1, <3>2, <5>1
        <5>3. ~(keys[k].created + Rotation <= now)
          BY <3>2, <5>2 DEF Due
        <5> QED BY <1>0, <5>3, KeyHas, KeyConstants
      <4> QED BY <1>2, <2>1, <3>2, <4>1, <4>2
    <3> QED BY <2>1, <3>1, <3>2
  <2>5. OpsFresh'
    <3> SUFFICES ASSUME NEW x \in Ops
                 PROVE  /\ op[x].at = "store" => /\ op[x].created <= now
                                                 /\ now <= op[x].created + CallTime
                        /\ op[x].at = "expire" => op[x].kid \in Kids'
                        /\ op[x].at = "sign" =>
                            /\ op[x].kid \in Kids'
                            /\ keys'[op[x].kid].pulled \/ keys'[op[x].kid].expires >= op[x].exp
      BY <2>1 DEF OpsFresh, Good
    <3>1. op[x].at = "sign" =>
            /\ op[x].kid \in Kids'
            /\ keys'[op[x].kid].pulled \/ keys'[op[x].kid].expires >= op[x].exp
      BY <1>0, <2>4, GoodStays DEF OpsFresh
    <3>2. op[x].at = "expire" => op[x].kid \in Kids'
      BY <1>0, <2>4 DEF OpsFresh, Grows
    <3> QED BY <1>0, <3>1, <3>2 DEF OpsFresh
  <2>6. LoopsLook'
    <3> SUFFICES ASSUME NEW u \in Servers
                 PROVE  /\ wake'[u] <= now + Interval
                        /\ \A x \in Ops : LoopStores(x, u) => op[x].created <= wake'[u]
                        /\ Up(u)' => /\ now <= wake'[u] \/ \E x \in Ops : LoopStores(x, u)
                                     /\ \A k \in Kids' : keys'[k].active =>
                                          wake'[u] <= keys'[k].created + Rotation + Interval
      BY <2>1 DEF LoopsLook, LoopStores
    <3>1. ASSUME NEW k \in Kids', keys'[k].active, wake'[u] = now + Interval
          PROVE  wake'[u] <= keys'[k].created + Rotation + Interval
      <4>1. now < keys'[k].created + Rotation
        BY <2>4, <3>1
      <4>2. keys'[k].created \in Nat
        <5>1. keys' \in Seq(KeyRows) /\ k \in 1..Len(keys')
          BY <2>4 DEF KeyTableTyped, Kids
        <5>2. keys'[k] \in KeyRows
          BY <5>1, ElementOfSeq, LenProperties
        <5> QED BY <5>2 DEF KeyRows
      <4> QED BY <1>0, <3>1, <4>1, <4>2, KeyConstants
    <3>2. CASE u = s
      <4>1. \A x \in Ops : LoopStores(x, u) => op[x].created <= now + Interval
        <5> SUFFICES ASSUME NEW x \in Ops, LoopStores(x, u)
                     PROVE  op[x].created <= now + Interval
          OBVIOUS
        <5>1. op[x].created <= now /\ op[x].created \in Nat
          BY <1>0, OpIs, OpHas DEF OpsFresh, LoopStores
        <5> QED BY <1>0, <2>2, <5>1, KeyConstants
      <4> QED BY <2>2, <2>3, <3>1, <3>2, <4>1
    <3>3. CASE u # s
      <4>1. wake'[u] = wake[u] /\ wake[u] \in Nat /\ wake[u] <= now + Interval
        BY <1>0, <2>3, <3>3 DEF WakeTyped, LoopsLook
      <4>2. Up(u)' => \A k \in Kids' : keys'[k].active =>
              wake[u] <= keys'[k].created + Rotation + Interval
        <5> SUFFICES ASSUME Up(u)', NEW k \in Kids', keys'[k].active
                     PROVE  wake[u] <= keys'[k].created + Rotation + Interval
          OBVIOUS
        <5>1. CASE UNCHANGED keys
          BY <1>0, <4>1, <5>1 DEF LoopsLook, Up, Kids
        <5>2. CASE keys'[k].created = now
          BY <1>0, <4>1, <5>2, KeyConstants
        <5> QED BY <2>4, <5>1, <5>2
      <4> QED BY <1>0, <4>1, <4>2 DEF LoopsLook, Up
    <3> QED BY <3>2, <3>3
  <2>7. TokensGood' /\ FetchesFresh' /\ CachesFresh'
    BY <2>1, <2>4, ReadersFresh
  <2> QED BY <1>4, <1>5, <1>6, <1>7, <2>1, <2>3, <2>4, <2>5, <2>6, <2>7 DEF KeyInv, KeyTypes
<1>20. ASSUME NEW v \in Verifiers, NEW k \in Kids, FetchSend(v, k) PROVE KeyInv'
  <2> DEFINE q == [at |-> "sent", since |-> now]
  <2>1. /\ fetch' = [fetch EXCEPT ![v] = q]
        /\ UNCHANGED <<now, keys, wake, op, tokens, jwks>>
    BY <1>20 DEF FetchSend
  <2>2. q \in Fetches /\ q.at = "sent" /\ q.since = now
    BY <1>0 DEF Fetches, Sent
  <2> HIDE DEF q
  <2>3. now <= now /\ now <= now + CallTime
    BY <1>0, KeyConstants
  <2> QED BY <1>2, <1>6, <2>1, <2>2, <2>3, FetchMoves
<1>21. ASSUME NEW v \in Verifiers, FetchRead(v) PROVE KeyInv'
  <2> DEFINE q == [at |-> "read", since |-> fetch[v].since, kids |-> Jwks]
  <2>1. /\ fetch[v].at = "sent" /\ fetch' = [fetch EXCEPT ![v] = q]
        /\ UNCHANGED <<now, keys, wake, op, tokens, jwks>>
    BY <1>0, <1>21 DEF FetchRead, FetchTyped
  <2>2. fetch[v].since \in Nat /\ fetch[v].since <= now /\ now <= fetch[v].since + CallTime
    BY <1>0, <2>1, FetchIs, FetchHas DEF FetchesFresh
  <2>3. ASSUME NEW k \in Jwks PROVE k \in Kids /\ k \in Nat /\ keys[k].expires >= fetch[v].since
    <3>1. k \in Kids /\ keys[k].expires > now
      BY DEF Jwks, Valid
    <3>2. k \in Nat /\ keys[k].expires \in Nat
      BY <1>0, <3>1, KeyHas
    <3> QED BY <1>0, <2>2, <3>1, <3>2
  <2>4. /\ q \in Fetches /\ q.at = "read" /\ q.since = fetch[v].since /\ q.kids = Jwks
    <3>1. Jwks \in SUBSET Nat
      BY <2>3
    <3> QED BY <2>2, <3>1 DEF Fetches, Read
  <2> HIDE DEF q
  <2> QED BY <1>2, <1>6, <2>1, <2>2, <2>3, <2>4, FetchMoves
<1>22. ASSUME NEW v \in Verifiers, FetchFails(v) PROVE KeyInv'
  <2>1. /\ fetch' = [fetch EXCEPT ![v] = NoFetch]
        /\ UNCHANGED <<now, keys, wake, op, tokens, jwks>>
    BY <1>22 DEF FetchFails
  <2>2. NoFetch \in Fetches /\ NoFetch.at = "none"
    BY FetchHas DEF Fetches
  <2> QED BY <1>2, <1>6, <2>1, <2>2, FetchMoves
<1>23. ASSUME NEW v \in Verifiers, FetchDone(v) PROVE KeyInv'
  <2> DEFINE q == [kids |-> fetch[v].kids, at |-> now]
  <2>1. /\ fetch[v].at = "read" /\ jwks' = [jwks EXCEPT ![v] = q]
        /\ fetch' = [fetch EXCEPT ![v] = NoFetch]
        /\ UNCHANGED <<now, keys, wake, op, tokens>>
    BY <1>23 DEF FetchDone
  <2>2. NoFetch \in Fetches /\ NoFetch.at = "none"
    BY FetchHas DEF Fetches
  <2>3. /\ fetch[v].kids \in SUBSET Nat /\ fetch[v].since \in Nat
        /\ now <= fetch[v].since + CallTime
        /\ \A k \in fetch[v].kids : k \in Kids /\ keys[k].expires >= fetch[v].since
    BY <1>0, <2>1, FetchIs, FetchHas DEF FetchesFresh
  <2>4. q \in Caches /\ q.kids = fetch[v].kids /\ q.at = now
    BY <1>0, <2>3 DEF Caches
  <2> HIDE DEF q
  <2>5. JwksTyped' /\ \A x \in Verifiers : jwks'[x] = IF x = v THEN q ELSE jwks[x]
    BY <1>0, <2>1, <2>4 DEF JwksTyped
  <2>6. CachesFresh'
    <3> SUFFICES ASSUME NEW x \in Verifiers
                 PROVE  /\ jwks'[x].at <= now
                        /\ \A k \in jwks'[x].kids :
                             k \in Kids /\ keys[k].expires + CallTime >= jwks'[x].at
      BY <2>1 DEF CachesFresh, Kids
    <3>1. CASE x = v
      <4>1. ASSUME NEW k \in q.kids PROVE k \in Kids /\ keys[k].expires + CallTime >= now
        <5>1. k \in Kids /\ keys[k].expires >= fetch[v].since /\ keys[k].expires \in Nat
          BY <1>0, <2>3, <2>4, <4>1, KeyHas
        <5> QED BY <1>0, <2>3, <5>1, KeyConstants
      <4>2. now <= now
        BY <1>0
      <4> QED BY <2>4, <2>5, <3>1, <4>1, <4>2
    <3>2. CASE x # v
      BY <1>0, <2>5, <3>2 DEF CachesFresh
    <3> QED BY <3>1, <3>2
  <2> QED BY <2>1, <2>2, <2>5, <2>6, FetchMoves
<1>24. CASE UNCHANGED keyVars
  <2>1. UNCHANGED <<now, keys, wake, op, tokens, jwks, fetch>>
    BY <1>24 DEF keyVars
  <2> QED BY <1>2, <1>3, <1>4, <1>5, <1>6, <1>7, <2>1 DEF KeyInv, KeyTypes
<1>25. CASE KeysNext
  BY <1>10, <1>11, <1>12, <1>13, <1>14, <1>15, <1>16, <1>17, <1>18, <1>19, <1>20, <1>21,
     <1>22, <1>23, <1>25, TickKeeps DEF KeysNext
<1> QED BY <1>24, <1>25

(* What the proofs below rest on: the shape of the keys and of the calls, *)
(* and when each server looks at the table again.                          *)
THEOREM RotationHolds == KeysSpec => []KeyInv
<1>1. KeysInit => KeyInv
  BY KeyStart
<1>2. KeyInv /\ [KeysNext]_keyVars => KeyInv'
  BY KeyStep
<1> QED BY <1>1, <1>2, PTL DEF KeysSpec

(* One key signs: two rotations that raced do not leave two active keys.   *)
THEOREM OneKeySigns == KeysSpec => []OneActiveKey
<1>1. KeyInv => OneActiveKey
  <2> SUFFICES ASSUME KeyInv PROVE Cardinality(ActiveKids) <= 1
    BY DEF OneActiveKey
  <2>1. CASE ActiveKids = {}
    BY <2>1, FS_EmptySet
  <2>2. CASE ActiveKids # {}
    <3>1. PICK k \in ActiveKids : TRUE
      BY <2>2
    <3>2. ActiveKids = {k}
      BY <3>1 DEF ActiveKids, KeyInv, OneActive
    <3> QED BY <3>2, FS_Singleton
  <2> QED BY <2>1, <2>2
<1> QED BY <1>1, RotationHolds, PTL

(* A token is never older than the key that signed it, unless an operator  *)
(* pulled that key.                                                        *)
THEOREM TokensLiveOut == KeysSpec => []KeyOutlivesTokens
<1>1. KeyInv => KeyOutlivesTokens
  BY DEF KeyInv, TokensGood, Good, KeyOutlivesTokens
<1> QED BY <1>1, RotationHolds, PTL

(* While a process serves there is a key to sign with.                     *)
THEOREM AlwaysASigner == KeysSpec => []SignerReady
<1>1. KeyInv => SignerReady
  <2> SUFFICES ASSUME KeyInv, NEW s \in Servers, Up(s), \A k \in Kids : ~keys[k].pulled
               PROVE  Signers # {}
    BY DEF SignerReady
  <2>1. PICK k \in Kids : keys[k].active
    BY DEF KeyInv, SomeKey
  <2>2. now + MaxTtl < keys[k].expires
    BY <2>1, SignerHasLife
  <2>3. now \in Nat /\ keys[k].expires \in Nat
    BY KeyHas DEF KeyInv, KeyTypes, KeyTableTyped
  <2>4. keys[k].expires > now
    BY <2>2, <2>3, KeyConstants
  <2> QED BY <2>1, <2>4 DEF Signers, ActiveKids, Valid
<1> QED BY <1>1, RotationHolds, PTL

(* A verifier trusts a key at most one cache lifetime and one fetch after  *)
(* it expired or was pulled.                                               *)
THEOREM PulledKeysAreForgotten == KeysSpec => []PulledKeyIsForgotten
<1>1. KeyInv => PulledKeyIsForgotten
  <2> SUFFICES ASSUME KeyInv, NEW v \in Verifiers, NEW k \in Kids, Usable(v, k)
               PROVE  keys[k].expires + CacheTtl + CallTime > now
    BY DEF PulledKeyIsForgotten
  <2>1. now \in Nat /\ jwks[v].at \in Nat /\ keys[k].expires \in Nat
    BY KeyHas DEF KeyInv, KeyTypes, KeyTableTyped, JwksTyped, Caches
  <2>2. ~(now - jwks[v].at >= CacheTtl) /\ k \in jwks[v].kids
    BY DEF Usable, Stale
  <2>3. keys[k].expires + CallTime >= jwks[v].at
    BY <2>2 DEF KeyInv, CachesFresh
  <2> QED BY <2>1, <2>2, <2>3, KeyConstants
<1> QED BY <1>1, RotationHolds, PTL

(* What bounds the clock bounds every expiry: a key lives two rotations    *)
(* from its making, and a token no longer than its key may.                *)
KeyBounds ==
  /\ now \in 1..MaxClock
  /\ \A k \in Kids : keys[k].expires <= Horizon
  /\ \A o \in Ops : /\ op[o].at = "store" => op[o].created >= 1
                    /\ op[o].at = "sign" => op[o].exp <= Horizon
  /\ \A t \in tokens : t.exp <= Horizon
  /\ forced \in 0..MaxForced /\ crashes \in 0..MaxCrashes

LEMMA HorizonIs ==
  /\ MaxClock \in Nat /\ MaxClock > 0 /\ MaxForced \in Nat /\ MaxCrashes \in Nat
  /\ Horizon \in Nat
  /\ \A t \in Nat : t <= MaxClock => t + 2 * Rotation <= Horizon /\ t + MaxTtl <= Horizon
                                     /\ t <= Horizon
<1>1. {CallTime, MaxForced, MaxCrashes} \subseteq Nat /\ MaxClock \in Nat \ {0}
  BY KeysAssumption
<1>2. Horizon = MaxClock + 2 * Rotation /\ MaxTtl < Rotation
  BY <1>1, KeyConstants DEF Horizon
<1> QED BY <1>1, <1>2, KeyConstants

LEMMA RowInBounds ==
  ASSUME NEW c \in Nat, c <= MaxClock
  PROVE  Row(c).expires <= Horizon
<1>1. c + 2 * Rotation <= Horizon
  BY HorizonIs
<1>2. Row(c).expires = c + 2 * Rotation
  BY RowHas
<1> QED BY <1>1, <1>2

LEMMA KeyBoundsStart == KeysInit => KeyBounds
<1> SUFFICES ASSUME KeysInit PROVE KeyBounds
  OBVIOUS
<1> DEFINE first == Row(1)
<1>1. keys = <<first>> /\ now = 1 /\ tokens = {} /\ forced = 0 /\ crashes = 0
  BY DEF KeysInit
<1>2. first.expires <= Horizon
  <2>1. 1 \in Nat /\ 1 <= MaxClock
    BY HorizonIs
  <2> QED BY <2>1, RowInBounds
<1> HIDE DEF first
<1>3. \A k \in Kids : keys[k] = first
  BY <1>1 DEF Kids
<1>4. \A o \in Ops : op[o].at = "none"
  BY OpHas DEF KeysInit
<1> QED BY <1>1, <1>2, <1>3, <1>4, HorizonIs DEF KeyBounds

(* Steps that bring one operation about, and neither a key nor a token.    *)
LEMMA OpBounds ==
  ASSUME KeyInv, KeyBounds, UNCHANGED <<now, keys, tokens>>,
         forced' \in 0..MaxForced, crashes' \in 0..MaxCrashes,
         \A o \in Ops : \/ op'[o] = op[o] \/ op'[o] = NoOp
                        \/ op'[o].at = "store" /\ op'[o].created = now
                        \/ op'[o].at = "expire"
                        \/ op'[o].at = "sign" /\ op'[o].exp <= Horizon
  PROVE  KeyBounds'
<1>1. \A o \in Ops : /\ op'[o].at = "store" => op'[o].created >= 1
                     /\ op'[o].at = "sign" => op'[o].exp <= Horizon
  BY OpHas, HorizonIs DEF KeyBounds
<1> QED BY <1>1 DEF KeyBounds, Kids

LEMMA KeyBoundsNext ==
  ASSUME KeyInv, KeyBounds, [KeysNext]_keyVars
  PROVE  KeyBounds'
<1>0. /\ KeyTableTyped /\ OpsTyped /\ OpsFresh /\ now \in Nat /\ now >= 1 /\ now <= MaxClock
      /\ MaxClock \in Nat /\ forced \in Nat /\ crashes \in Nat
      /\ forced \in 0..MaxForced /\ crashes \in 0..MaxCrashes
  BY HorizonIs DEF KeyInv, KeyTypes, KeyTableTyped, KeyBounds
<1>1. ASSUME NEW s \in Servers, NEW o \in Ops, LoopRotates(s, o) \/ ForceRotate(s, o)
      PROVE  KeyBounds'
  <2>1. PICK byLoop \in BOOLEAN : StartStore(o, s, byLoop)
    BY <1>1 DEF LoopRotates, ForceRotate
  <2> DEFINE q == [at |-> "store", server |-> s, created |-> now, loop |-> byLoop]
  <2>2. op' = [op EXCEPT ![o] = q] /\ q.at = "store" /\ q.created = now
    BY <2>1 DEF StartStore
  <2> HIDE DEF q
  <2>3. \A x \in Ops : op'[x] = op[x] \/ op'[x] = q
    BY <1>0, <2>2 DEF OpsTyped
  <2>4. UNCHANGED <<now, keys, tokens, crashes>>
    BY <1>1 DEF LoopRotates, ForceRotate
  <2>5. forced' \in 0..MaxForced
    <3>1. forced' = forced \/ (forced < MaxForced /\ forced' = forced + 1)
      BY <1>1 DEF LoopRotates, ForceRotate
    <3> QED BY <1>0, <3>1, HorizonIs
  <2> QED BY <1>0, <2>2, <2>3, <2>4, <2>5, OpBounds
<1>2. ASSUME NEW s \in Servers, LoopLeaves(s) PROVE KeyBounds'
  BY <1>2, OpBounds DEF LoopLeaves, KeyBounds
<1>3. ASSUME NEW s \in Servers, Crash(s) PROVE KeyBounds'
  <2>1. \A x \in Ops : op'[x] = op[x] \/ op'[x] = NoOp
    BY <1>3 DEF Crash
  <2>2. UNCHANGED <<now, keys, tokens, forced>> /\ crashes' \in 0..MaxCrashes
    BY <1>0, <1>3, HorizonIs DEF Crash
  <2> QED BY <2>1, <2>2, OpBounds DEF KeyBounds
<1>4. ASSUME NEW c \in Nat, c <= now, keys' = Stored(keys, c)
      PROVE  \A k \in Kids' : keys'[k].expires <= Horizon
  <2>1. Row(c).expires <= Horizon
    <3>1. c <= MaxClock
      BY <1>0, <1>4
    <3> QED BY <3>1, RowInBounds
  <2>2. /\ Kids' = Kids \cup {Len(keys) + 1} /\ keys'[Len(keys) + 1] = Row(c)
        /\ \A k \in Kids : keys'[k].expires = keys[k].expires
    BY <1>0, <1>4, StoredIs
  <2> QED BY <2>1, <2>2 DEF KeyBounds
<1>5. ASSUME NEW s \in Servers, Start(s) PROVE KeyBounds'
  <2>1. \A k \in Kids' : keys'[k].expires <= Horizon
    <3>1. keys' = Stored(keys, now) \/ keys' = keys
      BY <1>5 DEF Start
    <3>2. CASE keys' = keys
      BY <3>2 DEF KeyBounds, Kids
    <3>3. CASE keys' = Stored(keys, now)
      <4>1. now <= now
        BY <1>0
      <4> QED BY <1>0, <1>4, <3>3, <4>1
    <3> QED BY <3>1, <3>2, <3>3
  <2> QED BY <1>5, <2>1 DEF Start, KeyBounds
<1>6. ASSUME NEW o \in Ops, Store(o) PROVE KeyBounds'
  <2>1. /\ op[o].at = "store" /\ keys' = Stored(keys, op[o].created)
        /\ op' = [op EXCEPT ![o] = NoOp] /\ UNCHANGED <<now, tokens, forced, crashes>>
    BY <1>6 DEF Store
  <2>2. op[o].created \in Nat /\ op[o].created <= now
    BY <1>0, <2>1, OpIs, OpHas DEF OpsFresh
  <2>3. \A k \in Kids' : keys'[k].expires <= Horizon
    BY <1>4, <2>1, <2>2
  <2>4. \A x \in Ops : op'[x] = op[x] \/ op'[x].at = "none"
    BY <1>0, <2>1, OpHas DEF OpsTyped
  <2> QED BY <2>1, <2>3, <2>4 DEF KeyBounds
<1>7. ASSUME NEW o \in Ops, Expire(o) PROVE KeyBounds'
  <2> DEFINE i == op[o].kid
  <2>1. /\ op[o].at = "expire" /\ op' = [op EXCEPT ![o] = NoOp]
        /\ keys' = [keys EXCEPT ![i].active = FALSE, ![i].expires = now, ![i].pulled = TRUE]
        /\ UNCHANGED <<now, tokens, forced, crashes>>
    BY <1>7 DEF Expire
  <2>2. i \in Kids
    BY <1>0, <2>1 DEF OpsFresh
  <2> HIDE DEF i
  <2>3. Grows /\ Kids' = Kids
    BY <2>1, <2>2, ExpireKeeps
  <2>4. \A k \in Kids' : keys'[k].expires <= Horizon
    BY <1>0, <2>3, HorizonIs DEF Grows, KeyBounds
  <2>5. \A x \in Ops : op'[x] = op[x] \/ op'[x].at = "none"
    BY <1>0, <2>1, OpHas DEF OpsTyped
  <2> QED BY <2>1, <2>4, <2>5 DEF KeyBounds
<1>8. ASSUME NEW o \in Ops, Sign(o) PROVE KeyBounds'
  <2> DEFINE t == [kid |-> op[o].kid, exp |-> op[o].exp]
  <2>1. /\ op[o].at = "sign" /\ op' = [op EXCEPT ![o] = NoOp] /\ tokens' = tokens \cup {t}
        /\ UNCHANGED <<now, keys, forced, crashes>>
    BY <1>8 DEF Sign
  <2>2. t.exp <= Horizon
    BY <2>1 DEF KeyBounds
  <2> HIDE DEF t
  <2>3. \A x \in Ops : op'[x] = op[x] \/ op'[x].at = "none"
    BY <1>0, <2>1, OpHas DEF OpsTyped
  <2> QED BY <2>1, <2>2, <2>3 DEF KeyBounds, Kids
<1>9. ASSUME NEW s \in Servers, NEW o \in Ops, NEW k \in Kids, ExpireGet(s, o, k)
      PROVE  KeyBounds'
  <2> DEFINE q == [at |-> "expire", server |-> s, kid |-> k]
  <2>1. op' = [op EXCEPT ![o] = q] /\ q.at = "expire"
    BY <1>9 DEF ExpireGet
  <2> HIDE DEF q
  <2>2. \A x \in Ops : op'[x] = op[x] \/ op'[x] = q
    BY <1>0, <2>1 DEF OpsTyped
  <2>3. UNCHANGED <<now, keys, tokens, crashes>> /\ forced' \in 0..MaxForced
    BY <1>0, <1>9, HorizonIs DEF ExpireGet
  <2> QED BY <2>1, <2>2, <2>3, OpBounds DEF KeyBounds
<1>10. ASSUME NEW s \in Servers, NEW o \in Ops, NEW ttl \in Lifetimes, IssueRead(s, o, ttl)
       PROVE  KeyBounds'
  <2> DEFINE q == [at |-> "sign", server |-> s, kid |-> Newest(Signers), exp |-> now + ttl]
  <2>1. /\ op' = [op EXCEPT ![o] = q] /\ q.at = "sign" /\ q.exp = now + ttl
        /\ UNCHANGED <<now, keys, tokens, forced, crashes>>
    BY <1>10 DEF IssueRead
  <2> HIDE DEF q
  <2>2. now + ttl <= Horizon
    <3>1. ttl \in Nat /\ ttl <= MaxTtl /\ now + MaxTtl <= Horizon
      BY <1>0, KeyConstants, HorizonIs DEF Lifetimes
    <3> QED BY <1>0, <3>1, KeyConstants, HorizonIs
  <2>3. \A x \in Ops : op'[x] = op[x] \/ op'[x] = q
    BY <1>0, <2>1 DEF OpsTyped
  <2> QED BY <2>1, <2>2, <2>3, OpBounds DEF KeyBounds
<1>11. CASE KeysTick
  <2>1. now' \in 1..MaxClock /\ UNCHANGED <<keys, op, tokens, forced, crashes>>
    BY <1>0, <1>11, HorizonIs DEF KeysTick
  <2> QED BY <2>1 DEF KeyBounds, Kids
<1>12. CASE UNCHANGED <<now, keys, op, tokens, forced, crashes>>
  BY <1>12 DEF KeyBounds, Kids
<1>13. ASSUME NEW v \in Verifiers, FetchRead(v) \/ FetchFails(v) \/ FetchDone(v)
       PROVE  KeyBounds'
  BY <1>12, <1>13 DEF FetchRead, FetchFails, FetchDone
<1>14. ASSUME NEW v \in Verifiers, NEW k \in Kids, FetchSend(v, k)
       PROVE  KeyBounds'
  BY <1>12, <1>14 DEF FetchSend
<1>15. CASE UNCHANGED keyVars
  BY <1>12, <1>15 DEF keyVars
<1>16. CASE KeysNext
  BY <1>1, <1>2, <1>3, <1>5, <1>6, <1>7, <1>8, <1>9, <1>10, <1>11, <1>13, <1>14, <1>16
     DEF KeysNext
<1> QED BY <1>15, <1>16

LEMMA KeysTyped == KeyInv /\ KeyBounds => KeysTypeOK
<1> SUFFICES ASSUME KeyInv, KeyBounds PROVE KeysTypeOK
  OBVIOUS
<1>0. /\ KeyTableTyped /\ WakeTyped /\ OpsTyped /\ TokensTyped /\ JwksTyped /\ FetchTyped
      /\ now \in Nat /\ RowSpan /\ OpsFresh /\ LoopsLook /\ TokensGood
      /\ FetchesFresh /\ CachesFresh /\ now \in 1..MaxClock /\ now <= MaxClock
  BY HorizonIs DEF KeyInv, KeyTypes, KeyTableTyped, KeyBounds
<1>1. keys \in Seq([created: 0..MaxClock, expires: 0..Horizon,
                    active: BOOLEAN, pulled: BOOLEAN])
  <2> DEFINE R == [created: 0..MaxClock, expires: 0..Horizon, active: BOOLEAN, pulled: BOOLEAN]
  <2>1. ASSUME NEW k \in 1..Len(keys) PROVE keys[k] \in R
    <3>1. k \in Kids
      BY DEF Kids
    <3>2. /\ keys[k] \in KeyRows /\ keys[k].created \in Nat /\ keys[k].expires \in Nat
          /\ keys[k].created <= now /\ keys[k].expires <= Horizon
      BY <1>0, <3>1, KeyHas DEF RowSpan, KeyBounds
    <3>3. keys[k].created \in 0..MaxClock /\ keys[k].expires \in 0..Horizon
      BY <1>0, <3>2, HorizonIs
    <3> QED BY <3>2, <3>3 DEF KeyRows
  <2>2. keys \in Seq(KeyRows)
    BY <1>0 DEF KeyTableTyped
  <2> HIDE DEF R
  <2>3. keys \in Seq(R)
    BY <2>1, <2>2, LenProperties, IsASeq
  <2> QED BY <2>3 DEF R
<1>2. wake \in [Servers -> 0..MaxClock + Interval]
  <2>1. \A s \in Servers : wake[s] \in Nat /\ wake[s] <= now + Interval
    BY <1>0 DEF WakeTyped, LoopsLook
  <2>2. \A s \in Servers : wake[s] \in 0..MaxClock + Interval
    BY <1>0, <2>1, KeyConstants, HorizonIs
  <2> QED BY <1>0, <2>2 DEF WakeTyped
<1>3. op \in [Ops -> {NoOp}
               \cup [at: {"store"}, server: Servers, created: 1..MaxClock, loop: BOOLEAN]
               \cup [at: {"expire"}, server: Servers, kid: Kids]
               \cup [at: {"sign"}, server: Servers, kid: Kids, exp: 0..Horizon]]
  <2> SUFFICES ASSUME NEW o \in Ops
               PROVE op[o] \in {NoOp}
                 \cup [at: {"store"}, server: Servers, created: 1..MaxClock, loop: BOOLEAN]
                 \cup [at: {"expire"}, server: Servers, kid: Kids]
                 \cup [at: {"sign"}, server: Servers, kid: Kids, exp: 0..Horizon]
    BY <1>0 DEF OpsTyped
  <2>1. CASE op[o].at = "store"
    <3>1. op[o] \in StoreOps /\ op[o].created \in Nat
      BY <1>0, <2>1, OpIs, OpHas
    <3>2. op[o].created \in 1..MaxClock
      BY <1>0, <2>1, <3>1, HorizonIs DEF OpsFresh, KeyBounds
    <3> QED BY <3>1, <3>2 DEF StoreOps
  <2>2. CASE op[o].at = "expire"
    <3>1. op[o] \in ExpireOps /\ op[o].kid \in Kids
      BY <1>0, <2>2, OpIs DEF OpsFresh
    <3> QED BY <3>1 DEF ExpireOps
  <2>3. CASE op[o].at = "sign"
    <3>1. op[o] \in SignOps /\ op[o].exp \in Nat /\ op[o].kid \in Kids
      BY <1>0, <2>3, OpIs, OpHas DEF OpsFresh, Good
    <3>2. op[o].exp \in 0..Horizon
      BY <2>3, <3>1, HorizonIs DEF KeyBounds
    <3> QED BY <3>1, <3>2 DEF SignOps
  <2> QED BY <1>0, <2>1, <2>2, <2>3, OpIs
<1>4. tokens \subseteq [kid: Kids, exp: 0..Horizon]
  <2> SUFFICES ASSUME NEW t \in tokens PROVE t \in [kid: Kids, exp: 0..Horizon]
    OBVIOUS
  <2>1. t \in [kid : Nat, exp : Nat] /\ t.kid \in Kids
    BY <1>0 DEF TokensTyped, TokensGood, Good
  <2>2. t.exp \in 0..Horizon
    BY <2>1, HorizonIs DEF KeyBounds
  <2> QED BY <2>1, <2>2
<1>5. jwks \in [Verifiers -> [kids: SUBSET Kids, at: 0..MaxClock]]
  <2> SUFFICES ASSUME NEW v \in Verifiers
               PROVE  jwks[v] \in [kids: SUBSET Kids, at: 0..MaxClock]
    BY <1>0 DEF JwksTyped
  <2>1. jwks[v] \in Caches /\ jwks[v].at \in Nat /\ jwks[v].at <= now
    BY <1>0 DEF JwksTyped, Caches, CachesFresh
  <2>2. jwks[v].kids \subseteq Kids /\ jwks[v].at \in 0..MaxClock
    BY <1>0, <2>1, HorizonIs DEF CachesFresh
  <2> QED BY <2>1, <2>2 DEF Caches
<1>6. fetch \in [Verifiers -> {NoFetch} \cup [at: {"sent"}, since: 0..MaxClock]
                   \cup [at: {"read"}, since: 0..MaxClock, kids: SUBSET Kids]]
  <2> SUFFICES ASSUME NEW v \in Verifiers
               PROVE  fetch[v] \in {NoFetch} \cup [at: {"sent"}, since: 0..MaxClock]
                        \cup [at: {"read"}, since: 0..MaxClock, kids: SUBSET Kids]
    BY <1>0 DEF FetchTyped
  <2>1. ASSUME fetch[v].at \in {"sent", "read"} PROVE fetch[v].since \in 0..MaxClock
    <3>1. fetch[v].since \in Nat /\ fetch[v].since <= now
      BY <1>0, <2>1, FetchIs, FetchHas DEF FetchesFresh
    <3> QED BY <1>0, <3>1, HorizonIs
  <2>2. CASE fetch[v].at = "sent"
    BY <1>0, <2>1, <2>2, FetchIs DEF Sent
  <2>3. CASE fetch[v].at = "read"
    <3>1. fetch[v] \in Read /\ fetch[v].kids \subseteq Kids
      BY <1>0, <2>3, FetchIs DEF FetchesFresh
    <3> QED BY <2>1, <2>3, <3>1 DEF Read
  <2> QED BY <1>0, <2>2, <2>3, FetchIs
<1> QED BY <1>0, <1>1, <1>2, <1>3, <1>4, <1>5, <1>6 DEF KeysTypeOK, KeyBounds

(* Rotation is sound (KeyStore, its loop and the verifiers' caches): the   *)
(* types, with every key, token and cache dated and named as it can be,    *)
(* one signer while a process serves, no token older than its key, and no  *)
(* pulled key trusted past one cache lifetime and one fetch.               *)
THEOREM RotationIsSound == KeysSpec => []RotationSound
<1>1. KeysInit => KeyInv /\ KeyBounds
  BY KeyStart, KeyBoundsStart
<1>2. KeyInv /\ KeyBounds /\ [KeysNext]_keyVars => KeyInv' /\ KeyBounds'
  BY KeyStep, KeyBoundsNext
<1>3. KeyInv /\ KeyBounds => KeysTypeOK
  BY KeysTyped
<1>4. KeysSpec => []KeysTypeOK
  BY <1>1, <1>2, <1>3, PTL DEF KeysSpec
<1> QED BY <1>4, OneKeySigns, TokensLiveOut, AlwaysASigner, PulledKeysAreForgotten, PTL
        DEF RotationSound

(* The verifiers can check every live token whose key nobody pulled, as    *)
(* long as the published set has a place for each key that has not         *)
(* expired: more rotations in a token's life push its key out.             *)
THEOREM LiveTokensVerify ==
  KeysSpec => []LiveTokenPublished
<1>1. ASSUME KeyInv PROVE LiveTokenPublished
  <2> SUFFICES ASSUME Cardinality({k \in Kids : Valid(k)}) <= JwksMax,
                      NEW t \in tokens, t.exp > now, ~keys[t.kid].pulled
               PROVE  t.kid \in Jwks
    BY DEF LiveTokenPublished
  <2> DEFINE k == t.kid
             V == {j \in Kids : Valid(j)}
             P == {j \in Kids : Valid(j) /\ j # k /\ Newest({j, k}) = j}
  <2>1. k \in Kids /\ keys[k].expires >= t.exp
    BY <1>1 DEF KeyInv, TokensGood, Good
  <2>2. /\ KeyTableTyped /\ now \in Nat /\ t.exp \in Nat /\ keys[k].expires \in Nat
    BY <1>1, <2>1, KeyHas DEF KeyInv, KeyTypes, KeyTableTyped, TokensTyped
  <2>3. k \in V
    BY <2>1, <2>2 DEF Valid
  <2>4. IsFiniteSet(V) /\ V \in SUBSET Kids
    <3>1. Len(keys) \in Nat
      BY <2>2, LenProperties DEF KeyTableTyped
    <3>2. IsFiniteSet(Kids)
      BY <3>1, FS_Interval DEF Kids
    <3> QED BY <3>2, FS_Subset
  <2>5. Cardinality(V \ {k}) = Cardinality(V) - 1 /\ Cardinality(V) \in Nat
    BY <2>3, <2>4, FS_RemoveElement, FS_CardinalityType
  <2>6. Cardinality(P) <= Cardinality(V \ {k}) /\ Cardinality(P) \in Nat
    <3>1. IsFiniteSet(V \ {k})
      BY <2>4, FS_Subset
    <3>2. P \subseteq V \ {k}
      OBVIOUS
    <3> QED BY <3>1, <3>2, FS_Subset, FS_CardinalityType
  <2>7. Cardinality(P) < JwksMax
    <3>1. Cardinality(V) <= JwksMax
      OBVIOUS
    <3> HIDE DEF P, V
    <3> QED BY <2>5, <2>6, <3>1, KeyConstants
  <2> QED BY <2>1, <2>3, <2>7 DEF Jwks
<1> QED BY <1>1, RotationHolds, PTL

--------------------------------------------------------------------------------
(***************************************************************************)
(* Accounts.  The event that makes the newest customer ours, or tells the  *)
(* status of its subscription, is still to come or was applied last.       *)
(***************************************************************************)

LEMMA EventHas ==
  /\ NoHook.at = "none"
  /\ \A e \in Events : /\ e.n \in Nat /\ e.cus \in Customers /\ e.plan \in Paid
                       /\ e.type \in {"completed", "active", "unpaid", "deleted"}
  /\ \A x \in HookStates : x # NoHook =>
       /\ x.at \in {"attach", "lookup", "plan"} /\ x.event \in Events
       /\ x = [at |-> x.at, event |-> x.event]
<1>1. NoHook.at = "none"
  BY DEF NoHook
<1>2. \A e \in Events : /\ e.n \in Nat /\ e.cus \in Customers /\ e.plan \in Paid
                        /\ e.type \in {"completed", "active", "unpaid", "deleted"}
  <2>1. MaxStripe \in Nat
    BY AccountsAssumption
  <2> QED BY <2>1 DEF Events
<1>3. \A x \in HookStates : x # NoHook =>
        /\ x.at \in {"attach", "lookup", "plan"} /\ x.event \in Events
        /\ x = [at |-> x.at, event |-> x.event]
  BY DEF HookStates
<1> QED BY <1>1, <1>2, <1>3

\* The parts of AccountsTypeOK.
AccountTyped ==
  /\ billing \in {"stripe", "simulated"}
  /\ account \in [plan : Plans, key : KeyIds, customer : Customers \cup {NoOne}]
StripeTyped ==
  /\ subs \in [Customers -> Subs] /\ outbox \subseteq Events /\ created \in 0..MaxStripe
  /\ newest \in Customers \cup {NoOne}
HooksTyped == hooks \in [Hooks -> HookStates] /\ ordered \in BOOLEAN

LEMMA AccountTypes ==
  /\ AccountsTypeOK <=> AccountTyped /\ StripeTyped /\ HooksTyped
  /\ AccountsTypeOK' <=> AccountTyped' /\ StripeTyped' /\ HooksTyped'
BY DEF AccountsTypeOK, AccountTyped, StripeTyped, HooksTyped

(* Stripe owes events of what it was told to bill for, numbered in order;  *)
(* a customer's first event is that of the checkout.                       *)
StripeOwes ==
  /\ \A e \in outbox : e.n <= created /\ subs[e.cus] # NoSub
  /\ \A e, f \in outbox :
       /\ e.n = f.n => e = f
       /\ e.cus = f.cus /\ e.type = "completed" => e.n <= f.n
  /\ newest # NoOne => billing = "stripe" /\ subs[newest] # NoSub

\* One handler at a time, on the oldest event, which it knows to be ours.
HandledInTurn ==
  /\ \A g, h \in Hooks : hooks[g] # NoHook /\ hooks[h] # NoHook => g = h
  /\ \A h \in Hooks : hooks[h] # NoHook =>
       /\ hooks[h].event \in outbox /\ Oldest(hooks[h].event)
       /\ hooks[h].at = "lookup" => hooks[h].event.type # "completed"
       /\ hooks[h].at = "attach" => hooks[h].event.type = "completed"
       /\ hooks[h].at = "plan" => account.customer = hooks[h].event.cus

\* The event that makes the newest customer ours is to come or was the last one
\* of its kind.
NewestAttached ==
  \/ /\ account.customer = newest
     /\ \A e \in outbox : e.type # "completed"
  \/ \E e \in outbox : /\ e.type = "completed" /\ e.cus = newest
                       /\ \A f \in outbox : f.type = "completed" => f.n <= e.n

\* The last word on the newest customer's subscription is to come or is known.
NewestTold ==
  \/ /\ \A e \in outbox : e.cus # newest
     /\ account.plan # "free" <=> subs[newest].status = "active"
  \/ \E e \in outbox : /\ e.cus = newest
                       /\ \A f \in outbox : f.cus = newest => f.n <= e.n
                       /\ PlanFor(e) # "free" <=> subs[newest].status = "active"

PlanInv ==
  /\ AccountsTypeOK /\ StripeOwes
  /\ ordered => HandledInTurn
  /\ ordered /\ newest # NoOne => NewestAttached /\ NewestTold

LEMMA PlanOf ==
  ASSUME NEW e \in Events
  PROVE  PlanFor(e) \in Plans /\ (PlanFor(e) # "free" <=> e.type \in {"completed", "active"})
<1>1. e.plan \in Paid /\ e.plan # "free"
  BY EventHas, AccountsAssumption
<1> QED BY <1>1, EventHas DEF PlanFor, Plans

LEMMA PlanStart == AccountsInit => PlanInv
<1> SUFFICES ASSUME AccountsInit PROVE PlanInv
  OBVIOUS
<1>1. 1 \in KeyIds /\ 0 \in 0..MaxStripe
  BY AccountsAssumption DEF KeyIds
<1>2. AccountTyped
  BY <1>1 DEF AccountsInit, AccountTyped, Plans
<1>3. StripeTyped
  BY <1>1 DEF AccountsInit, StripeTyped, Subs
<1>4. HooksTyped
  BY DEF AccountsInit, HooksTyped, HookStates
<1>5. StripeOwes
  BY DEF AccountsInit, StripeOwes
<1>6. HandledInTurn
  BY DEF AccountsInit, HandledInTurn
<1> QED BY <1>2, <1>3, <1>4, <1>5, <1>6, AccountTypes DEF AccountsInit, PlanInv

(* An event more.                                                          *)
LEMMA OweIs ==
  ASSUME PlanInv, NEW type \in {"completed", "active", "unpaid", "deleted"},
         NEW c \in Customers, NEW p \in Paid, Owe(type, c, p)
  PROVE  /\ billing = "stripe" /\ UNCHANGED <<billing, account, hooks, ordered>>
         /\ created \in Nat /\ created' = created + 1 /\ created' \in 0..MaxStripe
         /\ \E e \in Events : /\ e.n = created + 1 /\ e.cus = c /\ e.type = type
                              /\ outbox' = outbox \cup {e} /\ outbox' \subseteq Events
                              /\ \A f \in outbox : f.n < e.n
<1>1. /\ billing = "stripe" /\ created < MaxStripe /\ created' = created + 1
      /\ outbox' = outbox \cup {[n |-> created + 1, cus |-> c, plan |-> p, type |-> type]}
      /\ UNCHANGED <<billing, account, hooks, ordered>>
  BY DEF Owe
<1>2. created \in 0..MaxStripe /\ outbox \subseteq Events /\ MaxStripe \in Nat
  BY AccountTypes, AccountsAssumption DEF PlanInv, StripeTyped
<1>3. created \in Nat /\ created + 1 \in 1..MaxStripe /\ created' \in 0..MaxStripe
  BY <1>1, <1>2
<1> DEFINE e == [n |-> created + 1, cus |-> c, plan |-> p, type |-> type]
<1>4. e \in Events /\ e.n = created + 1 /\ e.cus = c /\ e.type = type
  BY <1>3 DEF Events
<1> HIDE DEF e
<1>5. \A f \in outbox : f.n < created + 1
  BY <1>2, <1>3, EventHas DEF PlanInv, StripeOwes
<1>6. outbox' = outbox \cup {e}
  BY <1>1 DEF e
<1> QED BY <1>1, <1>2, <1>3, <1>4, <1>5, <1>6

LEMMA OweKeeps ==
  ASSUME PlanInv, NEW e \in Events, e.n = created + 1, created \in Nat, created' = created + 1,
         outbox' = outbox \cup {e}, \A f \in outbox : f.n < e.n,
         UNCHANGED <<account, hooks, ordered>>,
         subs' \in [Customers -> Subs], subs'[e.cus] # NoSub,
         \A c \in Customers : subs[c] # NoSub => subs'[c] # NoSub,
         e.type = "completed" => subs[e.cus] = NoSub,
         newest' # NoOne => billing' = "stripe" /\ subs'[newest'] # NoSub
  PROVE  StripeOwes' /\ (ordered => HandledInTurn')
<1>1. outbox \subseteq Events
  BY AccountTypes DEF PlanInv, StripeTyped
<1>2. \A f \in outbox' : f.n <= created' /\ subs'[f.cus] # NoSub
  <2>1. \A f \in outbox : f.n <= created /\ subs[f.cus] # NoSub /\ f.cus \in Customers /\ f.n \in Nat
    BY <1>1, EventHas DEF PlanInv, StripeOwes
  <2> QED BY <2>1
<1>3. \A f, g \in outbox' : /\ f.n = g.n => f = g
                            /\ f.cus = g.cus /\ f.type = "completed" => f.n <= g.n
  <2> SUFFICES ASSUME NEW f \in outbox', NEW g \in outbox'
               PROVE  /\ f.n = g.n => f = g
                      /\ f.cus = g.cus /\ f.type = "completed" => f.n <= g.n
    OBVIOUS
  <2>1. f.n \in Nat /\ g.n \in Nat /\ e.n \in Nat
    BY <1>1, EventHas
  <2>2. CASE f \in outbox /\ g \in outbox
    BY <2>2 DEF PlanInv, StripeOwes
  <2>3. CASE f = e /\ g = e
    BY <2>1, <2>3
  <2>4. CASE f = e /\ g \in outbox
    BY <2>1, <2>4 DEF PlanInv, StripeOwes
  <2>5. CASE f \in outbox /\ g = e
    BY <2>1, <2>5
  <2> QED BY <2>2, <2>3, <2>4, <2>5
<1>4. StripeOwes'
  BY <1>2, <1>3 DEF StripeOwes
<1>5. ASSUME ordered PROVE HandledInTurn'
  <2>1. HandledInTurn
    BY <1>5 DEF PlanInv
  <2>2. ASSUME NEW h \in Hooks, hooks[h] # NoHook
        PROVE  \A f \in outbox' : hooks[h].event.n <= f.n
    <3>1. hooks[h].event \in outbox /\ \A f \in outbox : hooks[h].event.n <= f.n
      BY <2>1, <2>2 DEF HandledInTurn, Oldest
    <3>2. hooks[h].event.n < e.n /\ hooks[h].event.n \in Nat /\ e.n \in Nat
      BY <1>1, <3>1, EventHas
    <3> QED BY <3>1, <3>2
  <2> QED BY <2>1, <2>2 DEF HandledInTurn, Oldest
<1> QED BY <1>4, <1>5

(* What a step of a handler keeps: what Stripe owes.                       *)
LEMMA HandlerKeeps ==
  ASSUME PlanInv, UNCHANGED <<billing, subs, created, newest>>, outbox' \subseteq outbox
  PROVE  StripeTyped' /\ StripeOwes'
<1>1. StripeTyped'
  BY AccountTypes DEF PlanInv, StripeTyped
<1>2. StripeOwes'
  BY DEF PlanInv, StripeOwes
<1> QED BY <1>1, <1>2

(* No event was answered: what is to come is still to come.                *)
LEMMA NothingAnswered ==
  ASSUME PlanInv, ordered, newest # NoOne,
         UNCHANGED <<subs, outbox, newest>>, account'.plan = account.plan,
         UNCHANGED account \/ \E h \in Hooks : hooks[h].at = "attach"
  PROVE  NewestAttached' /\ NewestTold'
<1>1. NewestAttached /\ NewestTold /\ HandledInTurn
  BY DEF PlanInv
<1>2. NewestTold'
  BY <1>1 DEF NewestTold, PlanFor
<1>3. NewestAttached'
  <2>1. CASE UNCHANGED account
    BY <1>1, <2>1 DEF NewestAttached
  <2>2. CASE \E h \in Hooks : hooks[h].at = "attach"
    <3>1. \E e \in outbox : e.type = "completed"
      BY <1>1, <2>2, EventHas DEF HandledInTurn
    <3> QED BY <1>1, <3>1 DEF NewestAttached
  <2> QED BY <2>1, <2>2
<1> QED BY <1>2, <1>3

LEMMA HookPut ==
  ASSUME HooksTyped, NEW h \in Hooks, NEW q \in HookStates, hooks' = [hooks EXCEPT ![h] = q],
         ordered' \in BOOLEAN
  PROVE  HooksTyped' /\ \A g \in Hooks : hooks'[g] = IF g = h THEN q ELSE hooks[g]
BY DEF HooksTyped

LEMMA HookIs ==
  ASSUME HooksTyped, NEW h \in Hooks, hooks[h].at # "none"
  PROVE  /\ hooks[h] # NoHook /\ hooks[h] \in HookStates
         /\ hooks[h].at \in {"attach", "lookup", "plan"} /\ hooks[h].event \in Events
         /\ hooks[h] = [at |-> hooks[h].at, event |-> hooks[h].event]
<1>1. hooks[h] \in HookStates
  BY DEF HooksTyped
<1> QED BY <1>1, EventHas

(* A handler that goes on, and one that is cut short.                      *)
LEMMA HandlerGoesOn ==
  ASSUME PlanInv, NEW h \in Hooks, NEW q \in HookStates, hooks' = [hooks EXCEPT ![h] = q],
         UNCHANGED <<billing, subs, outbox, created, newest, ordered>>,
         hooks[h] # NoHook, account'.plan = account.plan, AccountTyped',
         UNCHANGED account \/ hooks[h].at = "attach",
         q # NoHook => q.at = "plan" /\ q.event = hooks[h].event
                       /\ account'.customer = q.event.cus
  PROVE  PlanInv'
<1>1. HooksTyped' /\ \A g \in Hooks : hooks'[g] = IF g = h THEN q ELSE hooks[g]
  BY HookPut, AccountTypes DEF PlanInv, HooksTyped
<1>2. StripeTyped' /\ StripeOwes'
  BY HandlerKeeps
<1>3. ASSUME ordered PROVE HandledInTurn'
  <2>1. HandledInTurn
    BY <1>3 DEF PlanInv
  <2>2. \A g \in Hooks : g # h => hooks[g] = NoHook
    BY <2>1 DEF HandledInTurn
  <2> QED BY <1>1, <2>1, <2>2 DEF HandledInTurn, Oldest
<1>4. ASSUME ordered, newest # NoOne PROVE NewestAttached' /\ NewestTold'
  BY <1>4, NothingAnswered
<1> QED BY <1>1, <1>2, <1>3, <1>4, AccountTypes DEF PlanInv

(* The last handler that is in flight ends, with an event told to the      *)
(* account or with one of a customer that is not ours.                     *)
LEMMA HandlerEnds ==
  ASSUME PlanInv, NEW h \in Hooks, hooks[h] # NoHook, Answered(h), AccountTyped',
         account'.customer = account.customer, UNCHANGED billing,
         \/ /\ hooks[h].at = "plan" /\ account'.plan = PlanFor(hooks[h].event)
         \/ /\ hooks[h].at = "lookup" /\ account'.plan = account.plan
            /\ account.customer # hooks[h].event.cus
  PROVE  PlanInv'
<1>1. /\ hooks' = [hooks EXCEPT ![h] = NoHook]
      /\ outbox' = outbox \ {hooks[h].event} \/ UNCHANGED outbox
      /\ UNCHANGED <<billing, subs, created, newest, ordered>>
  BY DEF Answered
<1>2. NoHook \in HookStates
  BY DEF HookStates
<1>3. HooksTyped' /\ \A g \in Hooks : hooks'[g] = IF g = h THEN NoHook ELSE hooks[g]
  BY <1>1, <1>2, HookPut, AccountTypes DEF PlanInv, HooksTyped
<1>4. StripeTyped' /\ StripeOwes'
  BY <1>1, HandlerKeeps
<1>5. ASSUME ordered PROVE HandledInTurn'
  <2>1. \A g \in Hooks : hooks'[g] = NoHook
    BY <1>3, <1>5 DEF PlanInv, HandledInTurn
  <2> QED BY <2>1 DEF HandledInTurn
<1>6. ASSUME ordered, newest # NoOne PROVE NewestAttached' /\ NewestTold'
  <2> DEFINE e == hooks[h].event
  <2>1. /\ e \in outbox /\ \A f \in outbox : e.n <= f.n
        /\ hooks[h].at = "plan" => account.customer = e.cus
        /\ hooks[h].at = "lookup" => e.type # "completed"
        /\ hooks[h].at \in {"attach", "lookup", "plan"}
    BY <1>6, EventHas, AccountTypes DEF PlanInv, HandledInTurn, Oldest, HooksTyped
  <2>2. NewestAttached /\ NewestTold /\ StripeOwes /\ outbox \subseteq Events /\ e \in Events
    BY <1>6, <2>1, AccountTypes DEF PlanInv, StripeTyped
  <2>3. \A f \in outbox : f.n \in Nat
    BY <2>2, EventHas
  <2>4. \A f \in outbox : f.n <= e.n => f = e
    BY <2>1, <2>2, <2>3 DEF StripeOwes
  <2> HIDE DEF e
  <2>5. outbox' = outbox \ {e} \/ UNCHANGED outbox
    BY <1>1 DEF e
  \* Who is not ours is not the newest customer.
  <2>6. ASSUME e.cus = newest PROVE hooks[h].at = "plan"
    <3>1. CASE account.customer = newest
      BY <2>1, <2>6, <3>1 DEF e
    <3>2. CASE \E f \in outbox : f.type = "completed" /\ f.cus = newest
      <4>1. PICK f \in outbox : f.type = "completed" /\ f.cus = newest
        BY <3>2
      <4>2. f.n <= e.n
        BY <2>1, <2>2, <2>6, <4>1 DEF StripeOwes
      <4> QED BY <2>1, <2>4, <4>1, <4>2 DEF e
    <3> QED BY <2>2, <3>1, <3>2 DEF NewestAttached
  <2>7. NewestAttached'
    <3>1. CASE account.customer = newest /\ \A f \in outbox : f.type # "completed"
      BY <1>1, <2>5, <3>1 DEF NewestAttached
    <3>2. CASE \E f \in outbox : /\ f.type = "completed" /\ f.cus = newest
                                 /\ \A g \in outbox : g.type = "completed" => g.n <= f.n
      <4>1. PICK f \in outbox : /\ f.type = "completed" /\ f.cus = newest
                                /\ \A g \in outbox : g.type = "completed" => g.n <= f.n
        BY <3>2
      <4>2. CASE f \in outbox'
        BY <1>1, <2>5, <4>1, <4>2 DEF NewestAttached
      <4>3. CASE f \notin outbox'
        <5>1. f = e /\ outbox' = outbox \ {e}
          BY <2>5, <4>3
        <5>2. \A g \in outbox' : g.type # "completed"
          BY <2>4, <4>1, <5>1
        <5>3. account.customer = newest
          BY <2>1, <2>6, <4>1, <5>1
        <5> QED BY <1>1, <5>2, <5>3 DEF NewestAttached
      <4> QED BY <4>2, <4>3
    <3> QED BY <2>2, <3>1, <3>2 DEF NewestAttached
  <2>8. NewestTold'
    <3>1. CASE (\A f \in outbox : f.cus # newest)
               /\ (account.plan # "free" <=> subs[newest].status = "active")
      <4>1. account.customer = newest
        BY <2>2, <3>1 DEF NewestAttached
      <4>2. hooks[h].at # "plan"
        BY <2>1, <3>1, <4>1
      <4>3. account'.plan = account.plan
        BY <4>2
      <4> QED BY <1>1, <2>5, <3>1, <4>3 DEF NewestTold
    <3>2. CASE \E f \in outbox : /\ f.cus = newest
                                 /\ \A g \in outbox : g.cus = newest => g.n <= f.n
                                 /\ PlanFor(f) # "free" <=> subs[newest].status = "active"
      <4>1. PICK f \in outbox : /\ f.cus = newest
                                /\ \A g \in outbox : g.cus = newest => g.n <= f.n
                                /\ PlanFor(f) # "free" <=> subs[newest].status = "active"
        BY <3>2
      <4>2. CASE f \in outbox'
        <5>1. /\ \A g \in outbox' : g.cus = newest => g.n <= f.n
              /\ PlanFor(f) # "free" <=> subs[newest].status = "active"
          BY <2>5, <4>1
        <5> QED BY <1>1, <4>1, <4>2, <5>1 DEF NewestTold
      <4>3. CASE f \notin outbox'
        <5>1. f = e /\ outbox' = outbox \ {e}
          BY <2>5, <4>3
        <5>2. \A g \in outbox' : g.cus # newest
          BY <2>4, <4>1, <5>1
        <5>3. account'.plan = PlanFor(e)
          BY <2>6, <4>1, <5>1 DEF e
        <5>4. account'.plan # "free" <=> subs[newest].status = "active"
          BY <4>1, <5>1, <5>3
        <5> QED BY <1>1, <5>2, <5>4 DEF NewestTold
      <4> QED BY <4>2, <4>3
    <3> QED BY <2>2, <3>1, <3>2 DEF NewestTold
  <2> QED BY <2>7, <2>8
<1> QED BY <1>1, <1>3, <1>4, <1>5, <1>6, AccountTypes DEF PlanInv

LEMMA PlanStep == PlanInv /\ [BillingNext \/ AccountNext]_accountVars => PlanInv'
<1> SUFFICES ASSUME PlanInv, [BillingNext \/ AccountNext]_accountVars PROVE PlanInv'
  OBVIOUS
<1>0. AccountTyped /\ StripeTyped /\ HooksTyped /\ StripeOwes /\ NoOne \notin Customers
  BY AccountTypes, AccountsAssumption DEF PlanInv
<1>1. ASSUME NEW c \in Customers, NEW p \in Paid, Pay(c, p) PROVE PlanInv'
  <2>1. /\ subs[c] = NoSub /\ subs' = [subs EXCEPT ![c] = [status |-> "active", plan |-> p]]
        /\ newest' = c /\ Owe("completed", c, p)
    BY <1>1 DEF Pay
  <2>2. /\ billing = "stripe" /\ UNCHANGED <<billing, account, hooks, ordered>>
        /\ created \in Nat /\ created' = created + 1 /\ created' \in 0..MaxStripe
    BY <2>1, OweIs
  <2>3. PICK e \in Events : /\ e.n = created + 1 /\ e.cus = c /\ e.type = "completed"
                            /\ outbox' = outbox \cup {e} /\ outbox' \subseteq Events
                            /\ \A f \in outbox : f.n < e.n
    BY <2>1, OweIs
  <2> DEFINE q == [status |-> "active", plan |-> p]
  <2>4. q \in Subs /\ q # NoSub /\ q.status = "active" /\ subs' = [subs EXCEPT ![c] = q]
    BY <2>1 DEF Subs, NoSub
  <2> HIDE DEF q
  <2>5. subs' \in [Customers -> Subs] /\ \A d \in Customers : subs'[d] = IF d = c THEN q ELSE subs[d]
    BY <1>0, <2>4 DEF StripeTyped
  <2>6. StripeOwes' /\ (ordered => HandledInTurn')
    <3>1. \A d \in Customers : subs[d] # NoSub => subs'[d] # NoSub
      BY <2>4, <2>5
    <3>2. subs'[e.cus] # NoSub /\ billing' = "stripe" /\ subs'[newest'] # NoSub
      BY <2>1, <2>2, <2>3, <2>4, <2>5
    <3> QED BY <2>1, <2>2, <2>3, <2>5, <3>1, <3>2, OweKeeps
  <2>7. AccountTyped' /\ StripeTyped' /\ HooksTyped'
    BY <1>0, <2>1, <2>2, <2>3, <2>5 DEF AccountTyped, StripeTyped, HooksTyped
  <2>8. NewestAttached'
    <3>1. e.n \in Nat /\ \A f \in outbox : f.n \in Nat
      BY <1>0, EventHas DEF StripeTyped
    <3>2. \A f \in outbox' : f.n <= e.n
      BY <2>3, <3>1
    <3> QED BY <2>1, <2>3, <3>2 DEF NewestAttached
  <2>9. NewestTold'
    <3>1. e.n \in Nat /\ \A f \in outbox : f.n \in Nat
      BY <1>0, EventHas DEF StripeTyped
    <3>2. \A f \in outbox' : f.n <= e.n
      BY <2>3, <3>1
    <3>3. PlanFor(e) # "free"
      BY <2>3, PlanOf
    <3>4. subs'[newest'].status = "active"
      BY <2>1, <2>4, <2>5
    <3>5. e \in outbox' /\ e.cus = newest'
      BY <2>1, <2>3
    <3> QED BY <3>2, <3>3, <3>4, <3>5 DEF NewestTold, PlanFor
  <2> QED BY <2>2, <2>6, <2>7, <2>8, <2>9, AccountTypes DEF PlanInv
<1>2. ASSUME NEW c \in Customers, NEW s \in {"active", "unpaid", "deleted"},
             SubscriptionIs(c, s)
      PROVE  PlanInv'
  <2>1. /\ subs[c] # NoSub /\ subs' = [subs EXCEPT ![c].status = s] /\ newest' = newest
        /\ Owe(s, c, subs[c].plan)
    BY <1>2 DEF SubscriptionIs
  <2>2. subs[c].plan \in Paid /\ subs[c] = [status |-> subs[c].status, plan |-> subs[c].plan]
    BY <1>0, <2>1 DEF StripeTyped, Subs
  <2>3. /\ billing = "stripe" /\ UNCHANGED <<billing, account, hooks, ordered>>
        /\ created \in Nat /\ created' = created + 1 /\ created' \in 0..MaxStripe
    BY <2>1, <2>2, OweIs
  <2>4. PICK e \in Events : /\ e.n = created + 1 /\ e.cus = c /\ e.type = s
                            /\ outbox' = outbox \cup {e} /\ outbox' \subseteq Events
                            /\ \A f \in outbox : f.n < e.n
    BY <2>1, <2>2, OweIs
  <2> DEFINE q == [status |-> s, plan |-> subs[c].plan]
  <2>5. q \in Subs /\ q # NoSub /\ q.status = s /\ subs' = [subs EXCEPT ![c] = q]
    <3>1. q \in Subs /\ q.status = s
      BY <2>2 DEF Subs
    <3>2. q # NoSub
      <4>1. DOMAIN q = {"status", "plan"} /\ DOMAIN NoSub = {"status"}
        BY DEF NoSub
      <4> QED BY <4>1
    <3>3. [subs[c] EXCEPT !.status = s] = q
      BY <2>2
    <3> HIDE DEF q
    <3>4. subs' = [subs EXCEPT ![c] = q]
      BY <1>0, <2>1, <3>3 DEF StripeTyped
    <3> QED BY <3>1, <3>2, <3>4
  <2> HIDE DEF q
  <2>6. subs' \in [Customers -> Subs] /\ \A d \in Customers : subs'[d] = IF d = c THEN q ELSE subs[d]
    BY <1>0, <2>5 DEF StripeTyped
  <2>7. StripeOwes' /\ (ordered => HandledInTurn')
    <3>1. \A d \in Customers : subs[d] # NoSub => subs'[d] # NoSub
      BY <2>5, <2>6
    <3>2. subs'[e.cus] # NoSub /\ e.type # "completed"
      BY <2>4, <2>5, <2>6
    <3>3. newest' # NoOne => billing' = "stripe" /\ subs'[newest'] # NoSub
      BY <1>0, <2>1, <2>3, <3>1 DEF StripeOwes, StripeTyped
    <3> QED BY <2>3, <2>4, <2>6, <3>1, <3>2, <3>3, OweKeeps
  <2>8. AccountTyped' /\ StripeTyped' /\ HooksTyped'
    BY <1>0, <2>1, <2>3, <2>4, <2>6 DEF AccountTyped, StripeTyped, HooksTyped
  <2>9. ASSUME ordered, newest # NoOne PROVE NewestAttached' /\ NewestTold'
    <3>1. NewestAttached /\ NewestTold
      BY <2>9 DEF PlanInv
    <3>2. e.n \in Nat /\ \A f \in outbox : f.n \in Nat
      BY <1>0, EventHas DEF StripeTyped
    <3>3. \A f \in outbox' : f.n <= e.n
      BY <2>4, <3>2
    <3>4. NewestAttached'
      <4>1. \A f \in outbox' : f.type = "completed" => f \in outbox
        BY <2>4
      <4> QED BY <2>1, <2>3, <2>4, <3>1, <4>1 DEF NewestAttached
    <3>5. CASE c = newest
      <4>1. subs'[newest'].status = s
        BY <2>1, <2>5, <2>6, <3>5
      <4>2. PlanFor(e) # "free" <=> s = "active"
        BY <2>4, PlanOf
      <4>3. e \in outbox' /\ e.cus = newest'
        BY <2>1, <2>4, <3>5
      <4>4. NewestTold'
        BY <3>3, <4>1, <4>2, <4>3 DEF NewestTold, PlanFor
      <4> QED BY <3>4, <4>4
    <3>6. CASE c # newest
      <4>1. newest \in Customers /\ subs'[newest] = subs[newest]
        BY <1>0, <2>6, <2>9, <3>6 DEF StripeTyped
      <4>2. \A f \in outbox' : f.cus = newest => f \in outbox
        BY <2>4, <3>6
      <4>3. NewestTold'
        BY <2>1, <2>3, <2>4, <3>1, <3>6, <4>1, <4>2 DEF NewestTold, PlanFor
      <4> QED BY <3>4, <4>3
    <3> QED BY <3>5, <3>6
  <2> QED BY <2>1, <2>3, <2>7, <2>8, <2>9, AccountTypes DEF PlanInv
<1>3. ASSUME NEW h \in Hooks, NEW e \in outbox, WebhookStart(h, e) PROVE PlanInv'
  <2> DEFINE q == [at |-> IF e.type = "completed" THEN "attach" ELSE "lookup", event |-> e]
  <2>1. /\ hooks[h] = NoHook /\ hooks' = [hooks EXCEPT ![h] = q]
        /\ ordered' = (ordered /\ Oldest(e) /\ \A g \in Hooks : hooks[g] = NoHook)
        /\ UNCHANGED <<billing, account, subs, outbox, created, newest>>
    BY <1>3 DEF WebhookStart
  <2>2. /\ q \in HookStates /\ q.event = e
        /\ q.at = "attach" => e.type = "completed"
        /\ q.at = "lookup" => e.type # "completed"
        /\ q.at \in {"attach", "lookup"}
    BY <1>0 DEF StripeTyped, HookStates
  <2> HIDE DEF q
  <2>3. ordered' \in BOOLEAN
    BY <2>1
  <2>4. HooksTyped' /\ \A g \in Hooks : hooks'[g] = IF g = h THEN q ELSE hooks[g]
    BY <1>0, <2>1, <2>2, <2>3, HookPut
  <2>5. StripeTyped' /\ StripeOwes'
    BY <2>1, HandlerKeeps
  <2>6. AccountTyped'
    BY <1>0, <2>1 DEF AccountTyped
  <2>7. ASSUME ordered' PROVE HandledInTurn'
    <3>1. Oldest(e) /\ \A g \in Hooks : hooks[g] = NoHook
      BY <2>1, <2>7
    <3> QED BY <2>1, <2>2, <2>4, <3>1 DEF HandledInTurn, Oldest
  <2>8. ASSUME ordered', newest' # NoOne PROVE NewestAttached' /\ NewestTold'
    <3>1. ordered /\ newest # NoOne
      BY <2>1, <2>8
    <3> QED BY <2>1, <3>1, NothingAnswered
  <2> QED BY <2>4, <2>5, <2>6, <2>7, <2>8, AccountTypes DEF PlanInv
<1>4. ASSUME NEW h \in Hooks, AttachStripe(h) PROVE PlanInv'
  <2>1. /\ hooks[h].at = "attach" /\ account' = [account EXCEPT !.customer = hooks[h].event.cus]
        /\ hooks' = [hooks EXCEPT ![h].at = "plan"]
        /\ UNCHANGED <<billing, subs, outbox, created, newest, ordered>>
    BY <1>4 DEF AttachStripe
  <2> DEFINE q == [at |-> "plan", event |-> hooks[h].event]
  <2>2. /\ hooks[h] # NoHook /\ hooks[h].event \in Events /\ hooks' = [hooks EXCEPT ![h] = q]
    <3>1. /\ hooks[h] # NoHook /\ hooks[h].event \in Events
          /\ hooks[h] = [at |-> hooks[h].at, event |-> hooks[h].event]
      BY <1>0, <2>1, HookIs
    <3>2. [hooks[h] EXCEPT !.at = "plan"] = q
      BY <3>1
    <3> HIDE DEF q
    <3>3. hooks' = [hooks EXCEPT ![h] = q]
      BY <1>0, <2>1, <3>2 DEF HooksTyped
    <3> QED BY <3>1, <3>3
  <2>3. q \in HookStates /\ q.at = "plan" /\ q.event = hooks[h].event
    BY <2>2 DEF HookStates
  <2> HIDE DEF q
  <2>4. hooks[h].event.cus \in Customers
    BY <2>2, EventHas
  <2>5. /\ AccountTyped' /\ account'.plan = account.plan
        /\ account'.customer = hooks[h].event.cus
    <3> DEFINE new == hooks[h].event.cus
    <3>1. new \in Customers /\ account' = [account EXCEPT !.customer = new]
      BY <2>1, <2>4
    <3> HIDE DEF new
    <3>2. /\ AccountTyped' /\ account'.plan = account.plan /\ account'.customer = new
      BY <1>0, <2>1, <3>1 DEF AccountTyped
    <3> QED BY <3>2 DEF new
  <2>6. /\ hooks[h].at = "attach"
        /\ UNCHANGED <<billing, subs, outbox, created, newest, ordered>>
    BY <2>1
  <2>7. q # NoHook => /\ q.at = "plan" /\ q.event = hooks[h].event
                      /\ account'.customer = q.event.cus
    BY <2>3, <2>5
  <2> QED BY <2>2, <2>3, <2>5, <2>6, <2>7, HandlerGoesOn
<1>5. ASSUME NEW h \in Hooks, EmailForCustomer(h) PROVE PlanInv'
  <2>1. /\ hooks[h].at = "lookup" /\ account.customer = hooks[h].event.cus
        /\ hooks' = [hooks EXCEPT ![h].at = "plan"]
        /\ UNCHANGED <<billing, account, subs, outbox, created, newest, ordered>>
    BY <1>5 DEF EmailForCustomer, IsOurs
  <2> DEFINE q == [at |-> "plan", event |-> hooks[h].event]
  <2>2. /\ hooks[h] # NoHook /\ hooks[h].event \in Events /\ hooks' = [hooks EXCEPT ![h] = q]
    <3>1. /\ hooks[h] # NoHook /\ hooks[h].event \in Events
          /\ hooks[h] = [at |-> hooks[h].at, event |-> hooks[h].event]
      BY <1>0, <2>1, HookIs
    <3>2. [hooks[h] EXCEPT !.at = "plan"] = q
      BY <3>1
    <3> HIDE DEF q
    <3>3. hooks' = [hooks EXCEPT ![h] = q]
      BY <1>0, <2>1, <3>2 DEF HooksTyped
    <3> QED BY <3>1, <3>3
  <2>3. q \in HookStates /\ q.at = "plan" /\ q.event = hooks[h].event
    BY <2>2 DEF HookStates
  <2> HIDE DEF q
  <2>4. AccountTyped'
    BY <1>0, <2>1 DEF AccountTyped
  <2> QED BY <2>1, <2>2, <2>3, <2>4, HandlerGoesOn
<1>6. ASSUME NEW h \in Hooks, UnknownCustomer(h) PROVE PlanInv'
  <2>1. /\ hooks[h].at = "lookup" /\ account.customer # hooks[h].event.cus
        /\ Answered(h) /\ UNCHANGED account
    BY <1>6 DEF UnknownCustomer, IsOurs
  <2>2. hooks[h] # NoHook /\ UNCHANGED billing
    BY <1>0, <2>1, HookIs DEF Answered
  <2>3. AccountTyped'
    BY <1>0, <2>1, <2>2 DEF AccountTyped
  <2> QED BY <2>1, <2>2, <2>3, HandlerEnds
<1>7. ASSUME NEW h \in Hooks, SetPlan(h) PROVE PlanInv'
  <2>1. /\ hooks[h].at = "plan" /\ account' = [account EXCEPT !.plan = PlanFor(hooks[h].event)]
        /\ Answered(h)
    BY <1>7 DEF SetPlan
  <2>2. hooks[h] # NoHook /\ hooks[h].event \in Events /\ UNCHANGED billing
    BY <1>0, <2>1, HookIs DEF Answered
  <2>3. PlanFor(hooks[h].event) \in Plans
    BY <2>2, PlanOf
  <2>4. /\ AccountTyped' /\ account'.plan = PlanFor(hooks[h].event)
        /\ account'.customer = account.customer
    BY <1>0, <2>1, <2>2, <2>3 DEF AccountTyped
  <2> QED BY <2>1, <2>2, <2>4, HandlerEnds
<1>8. ASSUME NEW h \in Hooks, HookLost(h) PROVE PlanInv'
  <2>1. /\ hooks[h] # NoHook /\ hooks' = [hooks EXCEPT ![h] = NoHook]
        /\ UNCHANGED <<billing, account, subs, outbox, created, newest, ordered>>
    BY <1>8 DEF HookLost
  <2>2. NoHook \in HookStates /\ AccountTyped'
    BY <1>0, <2>1 DEF HookStates, AccountTyped
  <2> QED BY <2>1, <2>2, HandlerGoesOn
<1>9. ASSUME UNCHANGED billingVars, AccountTyped',
             newest # NoOne => account'.plan = account.plan,
             account'.customer = account.customer
      PROVE  PlanInv'
  <2>1. UNCHANGED <<billing, subs, outbox, created, newest, hooks, ordered>>
    BY <1>9 DEF billingVars
  <2>2. StripeTyped' /\ StripeOwes'
    BY <2>1, HandlerKeeps
  <2>3. HooksTyped'
    BY <1>0, <2>1 DEF HooksTyped
  <2>4. ordered => HandledInTurn'
    BY <1>9, <2>1 DEF PlanInv, HandledInTurn, Oldest
  <2>5. ASSUME ordered, newest # NoOne PROVE NewestAttached' /\ NewestTold'
    <3>1. NewestAttached /\ NewestTold
      BY <2>5 DEF PlanInv
    <3>2. NewestAttached'
      BY <1>9, <2>1, <3>1 DEF NewestAttached
    <3>3. NewestTold'
      BY <1>9, <2>1, <2>5, <3>1 DEF NewestTold, PlanFor
    <3> QED BY <3>2, <3>3
  <2> QED BY <1>9, <2>1, <2>2, <2>3, <2>4, <2>5, AccountTypes DEF PlanInv
<1>10. ASSUME RotateKey PROVE PlanInv'
  <2>1. account.key < MaxKeys /\ account' = [account EXCEPT !.key = @ + 1] /\ UNCHANGED billingVars
    BY <1>10 DEF RotateKey
  <2>2. account.key + 1 \in KeyIds
    BY <1>0, <2>1, AccountsAssumption DEF AccountTyped, KeyIds
  <2>3. AccountTyped' /\ account'.plan = account.plan /\ account'.customer = account.customer
    BY <1>0, <2>1, <2>2 DEF AccountTyped, billingVars
  <2> QED BY <1>9, <2>1, <2>3
<1>11. ASSUME NEW p \in Paid, SimulatedCheckout(p) PROVE PlanInv'
  <2>1. billing = "simulated" /\ account' = [account EXCEPT !.plan = p] /\ UNCHANGED billingVars
    BY <1>11 DEF SimulatedCheckout
  <2>2. newest = NoOne
    BY <1>0, <2>1 DEF StripeOwes
  <2>3. AccountTyped' /\ account'.customer = account.customer
    BY <1>0, <2>1 DEF AccountTyped, Plans, billingVars
  <2> QED BY <1>9, <2>1, <2>2, <2>3
<1>12. CASE UNCHANGED accountVars
  BY <1>0, <1>9, <1>12 DEF accountVars, billingVars, AccountTyped
<1>13. CASE BillingNext
  BY <1>1, <1>2, <1>3, <1>4, <1>5, <1>6, <1>7, <1>8, <1>13 DEF BillingNext
<1>14. CASE AccountNext
  BY <1>10, <1>11, <1>14 DEF AccountNext
<1> QED BY <1>12, <1>13, <1>14

(* Events handled one at a time, oldest first, leave the account with the  *)
(* plan that was paid for, however often they are lost and sent again.     *)
THEOREM PlanIsPaidFor == AccountsSpec => []PlanTellsPayment
<1>1. AccountsInit => PlanInv
  BY PlanStart
<1>2. PlanInv /\ [BillingNext \/ AccountNext]_accountVars => PlanInv'
  BY PlanStep
<1>3. PlanInv => PlanTellsPayment
  BY DEF PlanInv, NewestTold, PlanTellsPayment
<1> QED BY <1>1, <1>2, <1>3, PTL DEF AccountsSpec

--------------------------------------------------------------------------------
(***************************************************************************)
(* Proxy.  What the usage table holds against what was charged, what a     *)
(* tool call's shape was looked up under, and since when a known plan was  *)
(* true.                                                                   *)
(***************************************************************************)

(* Meter: each slot for a request has been charged for the events up to    *)
(* the start of the request it holds, or up to now when it holds none.     *)
ChatRows == [at : {"llm", "tool", "invoke"}, of : Tenants, before : Nat, own : Nat,
             round : Nat, twice : BOOLEAN, plan : Nat]
ChatsTyped == chat \in [Chats -> {NoChat} \cup ChatRows]
MeterTyped == /\ events \in Nat /\ billed \in Nat
              /\ usage \in [Tenants -> Nat] /\ charged \in [Tenants -> Nat]
ShapesTyped == /\ policy \in [Tenants -> Nat] /\ second \in Nat
               /\ changedAt \in [Tenants -> Nat] /\ crossed \in [Tenants -> BOOLEAN]
               /\ shaped \in [Tenants -> {NoEntry} \cup [plan : Nat, till : Nat]]

Paidup(i) == IF chat[i] = NoChat THEN events ELSE chat[i].before
PaidEvents == {x \in Chats \X (1..events) : x[2] <= Paidup(x[1])}

MeterInv ==
  /\ MeterTyped
  /\ \A i \in Chats : chat[i] # NoChat => chat[i].before + chat[i].own <= events
  /\ \A t \in Tenants : usage[t] >= charged[t]
  /\ billed <= Cardinality(PaidEvents)

(* What is shaped by a replaced policy was shaped before it was replaced,  *)
(* or its tool was running then.                                           *)
ShapeInv ==
  /\ ShapesTyped
  /\ \A i \in Chats : chat[i].at \in {"tool", "invoke"} =>
       crossed[chat[i].of] \/ chat[i].plan = policy[chat[i].of]
  /\ \A t \in Tenants : shaped[t] # NoEntry =>
       /\ shaped[t].till <= second + ToolTtl
       /\ \/ crossed[t] \/ shaped[t].plan = policy[t]
          \/ shaped[t].till <= changedAt[t] + ToolTtl

CallInv == ChatsTyped /\ MeterInv /\ ShapeInv

LEMMA ChatHas ==
  /\ NoChat.at = "none"
  /\ \A x \in ChatRows : /\ x.at \in {"llm", "tool", "invoke"} /\ x # NoChat
                         /\ x.of \in Tenants /\ x.before \in Nat /\ x.own \in Nat
                         /\ x.round \in Nat /\ x.twice \in BOOLEAN /\ x.plan \in Nat
<1>1. NoChat.at = "none"
  BY DEF NoChat
<1>2. \A x \in ChatRows : /\ x.at \in {"llm", "tool", "invoke"}
                          /\ x.of \in Tenants /\ x.before \in Nat /\ x.own \in Nat
                          /\ x.round \in Nat /\ x.twice \in BOOLEAN /\ x.plan \in Nat
  BY DEF ChatRows
<1> QED BY <1>1, <1>2

LEMMA ChatIs ==
  ASSUME ChatsTyped, NEW i \in Chats
  PROVE  /\ chat[i] # NoChat => chat[i] \in ChatRows
         /\ chat[i].at # "none" => chat[i] # NoChat
         /\ chat[i] # NoChat => chat[i].at # "none"
BY ChatHas DEF ChatsTyped

LEMMA ProxyConstants ==
  /\ IsFiniteSet(Chats) /\ ToolTtl \in Nat /\ KeyTtl \in Nat /\ MissTtl \in Nat
  /\ ToolTtl > 0 /\ KeyTtl > 0 /\ MaxRounds \in Nat /\ MaxRounds > 0
<1>1. {ToolTtl, KeyTtl, MissTtl, MaxMonth} \subseteq Nat \ {0}
  BY ProxyAssumption
<1>2. IsFiniteSet(Chats) /\ MaxRounds \in Nat \ {0}
  BY ProxyAssumption
<1> QED BY <1>1, <1>2

LEMMA PaidFinite ==
  ASSUME ChatsTyped, MeterTyped
  PROVE  /\ IsFiniteSet(PaidEvents) /\ Cardinality(PaidEvents) \in Nat
         /\ Cardinality(PaidEvents) <= Cardinality(Chats) * events
         /\ Cardinality(Chats) \in Nat
<1>1. IsFiniteSet(1..events) /\ Cardinality(1..events) = events
  BY FS_Interval DEF MeterTyped
<1>2. /\ IsFiniteSet(Chats \X (1..events))
      /\ Cardinality(Chats \X (1..events)) = Cardinality(Chats) * events
  BY <1>1, FS_Product, ProxyConstants
<1>3. PaidEvents \in SUBSET (Chats \X (1..events))
  BY DEF PaidEvents
<1>4. IsFiniteSet(PaidEvents) /\ Cardinality(PaidEvents) <= Cardinality(Chats \X (1..events))
  BY <1>2, <1>3, FS_Subset
<1> QED BY <1>2, <1>4, FS_CardinalityType, ProxyConstants

(* A slot that pays for the events it saw pays for each of them once.      *)
LEMMA PaysOnce ==
  ASSUME ChatsTyped, MeterInv, NEW i \in Chats, ChatsTyped', MeterTyped',
         \A j \in Chats \ {i} : chat'[j] = chat[j],
         events <= events', Paidup(i) <= Paidup(i)', Paidup(i)' <= events',
         billed' <= billed + (Paidup(i)' - Paidup(i))
  PROVE  billed' <= Cardinality(PaidEvents')
<1> DEFINE a == Paidup(i)
           b == Paidup(i)'
           D == {i} \X ((a + 1)..b)
<1>1. /\ a \in Nat /\ b \in Nat /\ events \in Nat /\ events' \in Nat
      /\ billed \in Nat /\ billed' \in Nat /\ a <= b /\ b <= events'
  <2>1. a \in Nat
    BY ChatIs, ChatHas DEF MeterInv, MeterTyped, Paidup
  <2>2. b \in Nat
    BY ChatHas DEF ChatsTyped, MeterTyped, Paidup
  <2> QED BY <2>1, <2>2 DEF MeterInv, MeterTyped
<1>2. IsFiniteSet(D) /\ Cardinality(D) = b - a
  <2>1. a + 1 \in Int /\ b \in Int
    BY <1>1
  <2>2. IsFiniteSet((a + 1)..b) /\ Cardinality((a + 1)..b) = b - a
    <3> HIDE DEF a, b
    <3>1. /\ IsFiniteSet((a + 1)..b)
          /\ Cardinality((a + 1)..b) = IF a + 1 > b THEN 0 ELSE b - (a + 1) + 1
      BY <2>1, FS_Interval
    <3> QED BY <1>1, <3>1
  <2>3. IsFiniteSet({i}) /\ Cardinality({i}) = 1
    BY FS_Singleton
  <2> DEFINE T == (a + 1)..b
             one == {i}
  <2> HIDE DEF a, b
  <2>4. IsFiniteSet(T) /\ Cardinality(T) = b - a /\ IsFiniteSet(one) /\ Cardinality(one) = 1
    BY <2>2, <2>3
  <2>5. D = one \X T
    OBVIOUS
  <2> HIDE DEF T, one, D
  <2>6. IsFiniteSet(one \X T) /\ Cardinality(one \X T) = Cardinality(one) * Cardinality(T)
    BY <2>4, FS_Product
  <2>7. IsFiniteSet(D) /\ Cardinality(D) = 1 * (b - a)
    BY <2>4, <2>5, <2>6
  <2> QED BY <1>1, <2>7
<1>3. D \subseteq PaidEvents'
  <2> SUFFICES ASSUME NEW n \in (a + 1)..b PROVE <<i, n>> \in PaidEvents'
    OBVIOUS
  <2>1. n \in 1..events' /\ n <= b
    BY <1>1
  <2> QED BY <2>1 DEF PaidEvents
<1>4. PaidEvents \subseteq PaidEvents'
  <2> SUFFICES ASSUME NEW j \in Chats, NEW n \in 1..events, n <= Paidup(j)
               PROVE  n \in 1..events' /\ n <= Paidup(j)'
    BY DEF PaidEvents
  <2>1. n \in 1..events' /\ n \in Nat
    BY <1>1
  <2>2. CASE j = i
    BY <1>1, <2>1, <2>2
  <2>3. CASE j # i
    BY <1>1, <2>1, <2>3 DEF Paidup
  <2> QED BY <2>1, <2>2, <2>3
<1>5. PaidEvents \cap D = {}
  <2> SUFFICES ASSUME NEW n \in (a + 1)..b, <<i, n>> \in PaidEvents PROVE FALSE
    BY DEF PaidEvents
  <2>1. n <= a
    BY DEF PaidEvents
  <2> QED BY <1>1, <2>1
<1>6. IsFiniteSet(PaidEvents) /\ Cardinality(PaidEvents) \in Nat
  BY PaidFinite DEF MeterInv
<1>7. IsFiniteSet(PaidEvents') /\ Cardinality(PaidEvents') \in Nat
  <2>1. PaidEvents' \in SUBSET (Chats \X (1..events'))
    BY DEF PaidEvents
  <2>2. IsFiniteSet(1..events')
    BY <1>1, FS_Interval
  <2>3. IsFiniteSet(Chats \X (1..events'))
    BY <2>2, FS_Product, ProxyConstants
  <2>4. IsFiniteSet(PaidEvents')
    BY <2>1, <2>3, FS_Subset
  <2> QED BY <2>4, FS_CardinalityType
<1> HIDE DEF D
<1>8. Cardinality(PaidEvents \cup D) = Cardinality(PaidEvents) + (b - a)
  <2>1. Cardinality(PaidEvents \cup D)
          = Cardinality(PaidEvents) + Cardinality(D) - Cardinality(PaidEvents \cap D)
    BY <1>2, <1>6, FS_Union
  <2>2. Cardinality(PaidEvents \cap D) = 0
    BY <1>5, FS_EmptySet
  <2> HIDE DEF a, b
  <2> QED BY <1>1, <1>2, <1>6, <2>1, <2>2
<1>9. Cardinality(PaidEvents \cup D) <= Cardinality(PaidEvents')
  <2>1. PaidEvents \cup D \in SUBSET PaidEvents'
    BY <1>3, <1>4
  <2> QED BY <1>7, <2>1, FS_Subset
<1>10. billed <= Cardinality(PaidEvents) /\ billed' <= billed + (b - a)
  BY DEF MeterInv
<1> HIDE DEF a, b
<1> QED BY <1>1, <1>6, <1>7, <1>8, <1>9, <1>10

LEMMA ChatPut ==
  ASSUME ChatsTyped, NEW i \in Chats, NEW q \in {NoChat} \cup ChatRows,
         chat' = [chat EXCEPT ![i] = q]
  PROVE  ChatsTyped' /\ \A j \in Chats : chat'[j] = IF j = i THEN q ELSE chat[j]
BY DEF ChatsTyped

(* A request that goes on, or ends and is charged.                         *)
LEMMA MeterMoves ==
  ASSUME ChatsTyped, MeterInv, NEW i \in Chats, NEW q \in {NoChat} \cup ChatRows,
         NEW paid \in Nat, paid = IF q = NoChat THEN events' ELSE q.before,
         chat' = [chat EXCEPT ![i] = q], MeterTyped',
         q # NoChat => q.before + q.own <= events',
         \A t \in Tenants : usage'[t] >= charged'[t],
         events <= events', Paidup(i) <= paid, billed' <= billed + (paid - Paidup(i))
  PROVE  ChatsTyped' /\ MeterInv'
<1>1. ChatsTyped' /\ \A j \in Chats : chat'[j] = IF j = i THEN q ELSE chat[j]
  BY ChatPut
<1>2. Paidup(i)' = paid
  BY <1>1 DEF Paidup
<1>3. events \in Nat /\ events' \in Nat
  BY DEF MeterTyped, MeterInv
<1>4. \A j \in Chats : chat'[j] # NoChat => chat'[j].before + chat'[j].own <= events'
  <2> SUFFICES ASSUME NEW j \in Chats, chat'[j] # NoChat
               PROVE  chat'[j].before + chat'[j].own <= events'
    OBVIOUS
  <2>1. CASE j = i
    BY <1>1, <2>1
  <2>2. CASE j # i
    <3>1. /\ chat'[j] = chat[j] /\ chat[j].before + chat[j].own <= events
          /\ chat[j].before \in Nat /\ chat[j].own \in Nat
      BY <1>1, <2>2, ChatIs, ChatHas DEF MeterInv
    <3> QED BY <1>3, <3>1
  <2> QED BY <2>1, <2>2
<1>5. paid <= events'
  <2>1. CASE q = NoChat
    BY <1>3, <2>1
  <2>2. CASE q # NoChat
    BY <1>3, <2>2, ChatHas
  <2> QED BY <2>1, <2>2
<1>6. billed' <= Cardinality(PaidEvents')
  <2>1. \A j \in Chats \ {i} : chat'[j] = chat[j]
    BY <1>1
  <2>2. /\ Paidup(i) <= Paidup(i)' /\ Paidup(i)' <= events'
        /\ billed' <= billed + (Paidup(i)' - Paidup(i))
    BY <1>2, <1>5
  <2> QED BY <1>1, <2>1, <2>2, PaysOnce
<1>7. billed' <= Cardinality(PaidEvents)'
  BY <1>6
<1> QED BY <1>1, <1>4, <1>7 DEF MeterInv

LEMMA Recorded ==
  ASSUME MeterInv, NEW t \in Tenants, NEW n \in Nat, NEW own \in Nat, own <= n,
         RecordTokens(t, n, own), events' \in Nat
  PROVE  /\ MeterTyped' /\ billed' = billed + n
         /\ \A u \in Tenants : usage'[u] >= charged'[u]
<1>1. /\ usage' = [usage EXCEPT ![t] = usage[t] + n]
      /\ charged' = [charged EXCEPT ![t] = charged[t] + own]
      /\ billed' = billed + n
  BY DEF RecordTokens
<1>2. /\ usage \in [Tenants -> Nat] /\ charged \in [Tenants -> Nat] /\ billed \in Nat
      /\ \A u \in Tenants : usage[u] >= charged[u]
  BY DEF MeterInv, MeterTyped
<1>3. usage[t] + n \in Nat /\ charged[t] + own \in Nat /\ usage[t] + n >= charged[t] + own
  BY <1>2
<1>4. usage' \in [Tenants -> Nat] /\ charged' \in [Tenants -> Nat]
  BY <1>1, <1>2, <1>3
<1>5. \A u \in Tenants : usage'[u] >= charged'[u]
  BY <1>1, <1>2, <1>3
<1> QED BY <1>1, <1>2, <1>4, <1>5 DEF MeterTyped

LEMMA ShapeMoves ==
  ASSUME ChatsTyped, ShapeInv, NEW i \in Chats, NEW q \in {NoChat} \cup ChatRows,
         chat' = [chat EXCEPT ![i] = q], UNCHANGED <<second, policy, changedAt, crossed>>,
         q.at \in {"tool", "invoke"} => q.plan = policy[q.of],
         \/ UNCHANGED shaped
         \/ chat[i].at \in {"tool", "invoke"} /\ StoreShaped(chat[i])
  PROVE  ShapeInv'
<1>1. \A j \in Chats : chat'[j] = IF j = i THEN q ELSE chat[j]
  BY ChatPut
<1>2. \A j \in Chats : chat'[j].at \in {"tool", "invoke"} =>
        crossed[chat'[j].of] \/ chat'[j].plan = policy[chat'[j].of]
  BY <1>1 DEF ShapeInv
<1>3. CASE UNCHANGED shaped
  BY <1>2, <1>3 DEF ShapeInv, ShapesTyped
<1>4. CASE chat[i].at \in {"tool", "invoke"} /\ StoreShaped(chat[i])
  <2> DEFINE t == chat[i].of
             e == [plan |-> chat[i].plan, till |-> second + ToolTtl]
  <2>1. t \in Tenants /\ chat[i].plan \in Nat /\ second + ToolTtl \in Nat
    BY <1>4, ChatIs, ChatHas, ProxyConstants DEF ShapeInv, ShapesTyped
  <2>2. crossed[t] \/ chat[i].plan = policy[t]
    BY <1>4 DEF ShapeInv
  <2>3. e \in [plan : Nat, till : Nat] /\ e.plan = chat[i].plan /\ e.till = second + ToolTtl
    BY <2>1
  <2>4. shaped' = [shaped EXCEPT ![t] = e]
    BY <1>4 DEF StoreShaped
  <2> HIDE DEF t, e
  <2>5. ShapesTyped'
    BY <2>1, <2>3, <2>4 DEF ShapeInv, ShapesTyped
  <2>6. \A u \in Tenants : shaped'[u] = IF u = t THEN e ELSE shaped[u]
    BY <2>1, <2>4 DEF ShapeInv, ShapesTyped
  <2>7. second + ToolTtl <= second + ToolTtl
    BY <2>1
  <2>8. \A u \in Tenants : shaped'[u] # NoEntry =>
          /\ shaped'[u].till <= second + ToolTtl
          /\ \/ crossed[u] \/ shaped'[u].plan = policy[u]
             \/ shaped'[u].till <= changedAt[u] + ToolTtl
    BY <2>2, <2>3, <2>6, <2>7 DEF ShapeInv
  <2> QED BY <1>2, <2>5, <2>8 DEF ShapeInv
<1> QED BY <1>3, <1>4

LEMMA ChatEnded ==
  ASSUME CallInv, NEW i \in Chats, NEW n \in Nat, chat[i] # NoChat, ChatEnds(i, n)
  PROVE  ChatsTyped' /\ MeterInv' /\ chat' = [chat EXCEPT ![i] = NoChat]
<1>1. /\ events' = events + n /\ chat' = [chat EXCEPT ![i] = NoChat]
      /\ RecordTokens(chat[i].of, events + n - chat[i].before, chat[i].own + n)
  BY DEF ChatEnds, Emit, Window
<1>2. /\ chat[i].of \in Tenants /\ chat[i].before \in Nat /\ chat[i].own \in Nat
      /\ chat[i].before + chat[i].own <= events /\ events \in Nat /\ events' \in Nat
  BY <1>1, ChatIs, ChatHas DEF CallInv, MeterInv, MeterTyped
<1>3. /\ events + n - chat[i].before \in Nat /\ chat[i].own + n \in Nat
      /\ chat[i].own + n <= events + n - chat[i].before
  BY <1>2
<1>4. /\ MeterTyped' /\ billed' = billed + (events + n - chat[i].before)
      /\ \A t \in Tenants : usage'[t] >= charged'[t]
  BY <1>1, <1>2, <1>3, Recorded DEF CallInv
<1>5. Paidup(i) = chat[i].before
  BY DEF Paidup
<1>6. /\ events <= events' /\ Paidup(i) <= events' /\ billed \in Nat
      /\ billed' <= billed + (events' - Paidup(i))
  BY <1>1, <1>2, <1>4, <1>5 DEF CallInv, MeterInv, MeterTyped
<1> QED BY <1>1, <1>2, <1>4, <1>6, MeterMoves DEF CallInv

LEMMA RoundEnded ==
  ASSUME CallInv, NEW i \in Chats, NEW n \in Nat, chat[i] # NoChat, NextRound(i, n)
  PROVE  /\ ChatsTyped' /\ MeterInv'
         /\ \E q \in {NoChat} \cup ChatRows :
              q.at \in {"none", "llm"} /\ chat' = [chat EXCEPT ![i] = q]
<1>1. CASE ChatEnds(i, n)
  BY <1>1, ChatEnded, ChatHas
<1>2. CASE ~(chat[i].round + 1 = MaxRounds)
  <2> DEFINE c == chat[i]
             q == [c EXCEPT !.at = "llm", !.round = c.round + 1, !.own = c.own + n]
  <2>1. /\ events' = events + n /\ UNCHANGED <<usage, charged, billed>>
        /\ chat' = [chat EXCEPT ![i] = q]
    <3>1. chat \in [Chats -> {NoChat} \cup ChatRows]
      BY DEF CallInv, ChatsTyped
    <3>2. /\ events' = events + n /\ UNCHANGED <<usage, charged, billed>>
          /\ chat' = [chat EXCEPT ![i].at = "llm", ![i].round = @ + 1, ![i].own = @ + n]
      BY <1>2 DEF NextRound, Emit
    <3> QED BY <3>1, <3>2
  <2>2. c \in ChatRows /\ c.before + c.own <= events /\ events \in Nat
    BY ChatIs DEF CallInv, MeterInv, MeterTyped
  <2>3. c.before \in Nat /\ c.own \in Nat /\ c.round \in Nat
    BY <2>2, ChatHas
  <2>4. c.round + 1 \in Nat /\ c.own + n \in Nat
    BY <2>3
  <2>5. /\ q \in ChatRows /\ q.at = "llm" /\ q.before = c.before /\ q.own = c.own + n
    BY <2>2, <2>4 DEF ChatRows
  <2>6. Paidup(i) = c.before
    BY DEF Paidup
  <2> HIDE DEF c, q
  <2>7. q # NoChat
    BY <2>5, ChatHas
  <2>8. MeterTyped' /\ \A t \in Tenants : usage'[t] >= charged'[t]
    BY <2>1, <2>2 DEF CallInv, MeterInv, MeterTyped
  <2>9. /\ q.before + q.own <= events' /\ events <= events' /\ Paidup(i) <= q.before
        /\ billed \in Nat /\ billed' <= billed + (q.before - Paidup(i)) /\ q.before \in Nat
    BY <2>1, <2>2, <2>3, <2>5, <2>6 DEF CallInv, MeterInv, MeterTyped
  <2>10. ChatsTyped' /\ MeterInv'
    BY <2>1, <2>5, <2>7, <2>8, <2>9, MeterMoves DEF CallInv
  <2> QED BY <2>1, <2>5, <2>10
<1> QED BY <1>1, <1>2 DEF NextRound

(* A step that leaves the meter alone, up to the request in slot i.        *)
LEMMA NotCharged ==
  ASSUME CallInv, NEW i \in Chats, NEW q \in {NoChat} \cup ChatRows,
         chat' = [chat EXCEPT ![i] = q], UNCHANGED <<events, usage, charged, billed>>,
         \/ q = NoChat
         \/ /\ chat[i] = NoChat /\ q # NoChat /\ q.before = events /\ q.own = 0
         \/ /\ chat[i] # NoChat /\ q # NoChat
            /\ q.before = chat[i].before /\ q.own = chat[i].own
  PROVE  ChatsTyped' /\ MeterInv'
<1>1. MeterTyped' /\ \A t \in Tenants : usage'[t] >= charged'[t]
  BY DEF CallInv, MeterInv, MeterTyped
<1>2. events \in Nat /\ billed \in Nat
  BY DEF CallInv, MeterInv, MeterTyped
<1>3. chat[i] # NoChat =>
        /\ chat[i].before \in Nat /\ chat[i].own \in Nat
        /\ chat[i].before + chat[i].own <= events
  BY ChatIs, ChatHas DEF CallInv, MeterInv
<1>4. CASE q = NoChat
  <2>1. Paidup(i) <= events /\ Paidup(i) \in Nat
    BY <1>2, <1>3 DEF Paidup
  <2>2. billed' <= billed + (events' - Paidup(i)) /\ events <= events'
    BY <1>2, <2>1
  <2>3. events' \in Nat /\ Paidup(i) <= events'
    BY <1>2, <2>1
  <2> QED BY <1>1, <1>4, <2>2, <2>3, MeterMoves DEF CallInv
<1>5. CASE q # NoChat
  <2>1. q.before = Paidup(i) /\ q.before \in Nat /\ q.before + q.own <= events
    BY <1>2, <1>3, <1>5 DEF Paidup
  <2>2. billed' <= billed + (q.before - Paidup(i)) /\ events <= events' /\ Paidup(i) <= q.before
    BY <1>2, <2>1
  <2> QED BY <1>1, <1>2, <1>5, <2>1, <2>2, MeterMoves DEF CallInv
<1> QED BY <1>4, <1>5

LEMMA CallStart == ProxyInit => CallInv
<1> SUFFICES ASSUME ProxyInit PROVE CallInv
  OBVIOUS
<1>1. ChatsTyped /\ \A i \in Chats : chat[i] = NoChat
  BY DEF ProxyInit, ChatsTyped
<1>2. MeterTyped
  BY DEF ProxyInit, MeterTyped
<1>3. ShapesTyped /\ \A t \in Tenants : shaped[t] = NoEntry
  BY DEF ProxyInit, ShapesTyped
<1>4. billed <= Cardinality(PaidEvents)
  <2>1. Cardinality(PaidEvents) \in Nat /\ billed = 0
    BY <1>1, <1>2, PaidFinite DEF ProxyInit
  <2> QED BY <2>1
<1>5. MeterInv
  <2>1. \A t \in Tenants : usage[t] >= charged[t]
    BY DEF ProxyInit
  <2> QED BY <1>1, <1>2, <1>4, <2>1 DEF MeterInv
<1>6. ShapeInv
  BY <1>1, <1>3, ChatHas DEF ShapeInv
<1> QED BY <1>1, <1>5, <1>6 DEF CallInv

(* Steps that touch neither requests nor the meter.                        *)
LEMMA MeterSame ==
  ASSUME CallInv, UNCHANGED <<chat, events, billed>>, MeterTyped',
         \A t \in Tenants : usage'[t] >= charged'[t]
  PROVE  ChatsTyped' /\ MeterInv'
<1>1. ChatsTyped'
  BY DEF CallInv, ChatsTyped
<1>2. PaidEvents' = PaidEvents
  BY DEF PaidEvents, Paidup
<1> QED BY <1>1, <1>2 DEF CallInv, MeterInv

LEMMA CallStep == CallInv /\ [ProxyNext]_proxyVars => CallInv'
<1> SUFFICES ASSUME CallInv, [ProxyNext]_proxyVars PROVE CallInv'
  OBVIOUS
<1>0. ChatsTyped /\ MeterInv /\ ShapeInv /\ MeterTyped /\ ShapesTyped
  BY DEF CallInv, MeterInv, ShapeInv
<1>1. NoChat \in {NoChat} \cup ChatRows /\ NoChat.at = "none"
  BY ChatHas
<1>2. ASSUME UNCHANGED <<chat, second, policy, changedAt, crossed, shaped>> PROVE ShapeInv'
  BY <1>0, <1>2 DEF ShapeInv, ShapesTyped
<1>3. ASSUME UNCHANGED meterVars, UNCHANGED chat PROVE ChatsTyped' /\ MeterInv'
  <2>1. UNCHANGED <<events, usage, charged, billed>>
    BY <1>3 DEF meterVars
  <2>2. MeterTyped' /\ \A t \in Tenants : usage'[t] >= charged'[t]
    BY <1>0, <2>1 DEF MeterTyped, MeterInv
  <2> QED BY <1>3, <2>1, <2>2, MeterSame
<1>4. ASSUME UNCHANGED <<second, shapeVars>>
      PROVE  UNCHANGED <<second, policy, changedAt, crossed, shaped>>
  BY <1>4 DEF shapeVars
<1>5. ASSUME NEW i \in Chats, FinalAnswer(i) PROVE CallInv'
  <2>1. chat[i].at = "llm" /\ ChatEnds(i, 0) /\ UNCHANGED <<second, shapeVars>>
    BY <1>5 DEF FinalAnswer
  <2>2. chat[i] # NoChat
    BY <1>1, <2>1
  <2>3. ChatsTyped' /\ MeterInv' /\ chat' = [chat EXCEPT ![i] = NoChat]
    BY <2>1, <2>2, ChatEnded
  <2>4. ShapeInv'
    BY <1>0, <1>1, <1>4, <2>1, <2>3, ShapeMoves
  <2> QED BY <2>3, <2>4 DEF CallInv
<1>6. ASSUME NEW i \in Chats, UpstreamFails(i) PROVE CallInv'
  <2>1. /\ chat' = [chat EXCEPT ![i] = NoChat]
        /\ UNCHANGED <<second, shapeVars>> /\ UNCHANGED <<events, usage, charged, billed>>
    BY <1>6 DEF UpstreamFails, meterVars
  <2>2. ChatsTyped' /\ MeterInv'
    BY <1>1, <2>1, NotCharged
  <2>3. ShapeInv'
    BY <1>0, <1>1, <1>4, <2>1, ShapeMoves
  <2> QED BY <2>2, <2>3 DEF CallInv
<1>7. ASSUME NEW i \in Chats, NEW n \in Nat, chat[i] # NoChat, NextRound(i, n), UNCHANGED second,
             \/ UNCHANGED shapeVars
             \/ chat[i].at \in {"tool", "invoke"} /\ StoreShaped(chat[i])
      PROVE  CallInv'
  <2>1. ChatsTyped' /\ MeterInv'
    BY <1>7, RoundEnded
  <2>2. PICK q \in {NoChat} \cup ChatRows :
               q.at \in {"none", "llm"} /\ chat' = [chat EXCEPT ![i] = q]
    BY <1>7, RoundEnded
  <2>3. /\ UNCHANGED <<second, policy, changedAt, crossed>>
        /\ \/ UNCHANGED shaped
           \/ chat[i].at \in {"tool", "invoke"} /\ StoreShaped(chat[i])
    BY <1>7 DEF shapeVars, StoreShaped
  <2>4. q.at \notin {"tool", "invoke"}
    BY <2>2
  <2>5. ShapeInv'
    BY <1>0, <2>2, <2>3, <2>4, ShapeMoves
  <2> QED BY <2>1, <2>5 DEF CallInv
<1>8. ASSUME NEW i \in Chats, NEW twice \in BOOLEAN, ToolFromCache(i, twice) PROVE CallInv'
  <2>1. /\ chat[i].at = "llm" /\ NextRound(i, Answers(twice)) /\ UNCHANGED <<second, shapeVars>>
    BY <1>8 DEF ToolFromCache
  <2>2. Answers(twice) \in Nat /\ chat[i] # NoChat
    BY <1>1, <2>1 DEF Answers
  <2> QED BY <1>7, <2>1, <2>2
<1>9. ASSUME NEW i \in Chats, ToolAnswers(i) PROVE CallInv'
  <2>1. /\ chat[i].at = "tool" /\ StoreShaped(chat[i]) /\ UNCHANGED second
        /\ NextRound(i, Answers(chat[i].twice))
    BY <1>9 DEF ToolAnswers
  <2>2. Answers(chat[i].twice) \in Nat /\ chat[i] # NoChat
    BY <1>1, <2>1 DEF Answers
  <2> QED BY <1>7, <2>1, <2>2
<1>10. ASSUME NEW i \in Chats, ToolFails(i) PROVE CallInv'
  <2> DEFINE n == IF chat[i].twice THEN 1 ELSE 0
  <2>1. chat[i].at = "tool" /\ NextRound(i, n) /\ UNCHANGED <<second, shapeVars>>
    BY <1>10 DEF ToolFails
  <2>2. n \in Nat /\ chat[i] # NoChat
    BY <1>1, <2>1
  <2> HIDE DEF n
  <2> QED BY <1>7, <2>1, <2>2
<1>11. ASSUME NEW at \in {"llm", "invoke"}, NEW t \in Tenants
       PROVE  /\ Request(at, t) \in ChatRows /\ Request(at, t) # NoChat
              /\ Request(at, t).at = at /\ Request(at, t).of = t
              /\ Request(at, t).before = events /\ Request(at, t).own = 0
              /\ Request(at, t).plan = policy[t]
  <2>1. events \in Nat /\ policy[t] \in Nat
    BY <1>0 DEF MeterTyped, ShapesTyped
  <2>2. Request(at, t) \in ChatRows
    BY <2>1 DEF Request, ChatRows
  <2> QED BY <2>2, ChatHas DEF Request
<1>12. ASSUME NEW i \in Chats, NEW t \in Tenants, NEW at \in {"llm", "invoke"},
              chat[i] = NoChat, chat' = [chat EXCEPT ![i] = Request(at, t)],
              UNCHANGED <<second, meterVars, shapeVars>>
       PROVE  CallInv'
  <2> DEFINE q == Request(at, t)
  <2>1. /\ q \in ChatRows /\ q # NoChat /\ q.before = events /\ q.own = 0
        /\ q.plan = policy[q.of]
    BY <1>11
  <2>2. chat' = [chat EXCEPT ![i] = q]
    BY <1>12
  <2> HIDE DEF q
  <2>3. UNCHANGED <<events, usage, charged, billed>> /\ UNCHANGED <<second, shapeVars>>
    BY <1>12 DEF meterVars
  <2>4. ChatsTyped' /\ MeterInv'
    BY <1>12, <2>1, <2>2, <2>3, NotCharged
  <2>5. ShapeInv'
    BY <1>0, <1>4, <2>1, <2>2, <2>3, ShapeMoves
  <2> QED BY <2>4, <2>5 DEF CallInv
<1>13. ASSUME NEW i \in Chats, NEW t \in Tenants, ChatStart(i, t) PROVE CallInv'
  BY <1>12, <1>13 DEF ChatStart
<1>14. ASSUME NEW i \in Chats, NEW t \in Tenants, InvokeStart(i, t) PROVE CallInv'
  BY <1>12, <1>14 DEF InvokeStart
<1>15. ASSUME NEW i \in Chats, NEW twice \in BOOLEAN, ToolRuns(i, twice) PROVE CallInv'
  <2> DEFINE c == chat[i]
             q == [c EXCEPT !.at = "tool", !.twice = twice, !.plan = policy[c.of]]
  <2>1. /\ c.at = "llm" /\ chat' = [chat EXCEPT ![i] = q]
        /\ UNCHANGED <<second, meterVars, shapeVars>>
    BY <1>0, <1>15 DEF ToolRuns, ChatsTyped
  <2>2. c # NoChat /\ c \in ChatRows
    BY <1>0, <1>1, <2>1, ChatIs
  <2>3. c.of \in Tenants /\ policy[c.of] \in Nat
    BY <1>0, <2>2, ChatHas DEF ShapesTyped
  <2>4. /\ q \in ChatRows /\ q.before = c.before /\ q.own = c.own
        /\ q.plan = policy[c.of] /\ q.of = c.of
    BY <2>2, <2>3 DEF ChatRows
  <2> HIDE DEF q
  <2>5. UNCHANGED <<events, usage, charged, billed>> /\ UNCHANGED <<second, shapeVars>>
    BY <2>1 DEF meterVars
  <2>6. q # NoChat
    BY <2>4, ChatHas
  <2>7. ChatsTyped' /\ MeterInv'
    BY <2>1, <2>2, <2>4, <2>5, <2>6, NotCharged
  <2>8. ShapeInv'
    BY <1>0, <1>4, <2>1, <2>4, <2>5, ShapeMoves
  <2> QED BY <2>7, <2>8 DEF CallInv
\* One event, made and charged by a request in a slot that is free afterwards.
<1>16. ASSUME NEW i \in Chats, NEW t \in Tenants, Emit(1), RecordTokens(t, 1, 1),
              chat' = [chat EXCEPT ![i] = NoChat]
       PROVE  ChatsTyped' /\ MeterInv'
  <2>1. events \in Nat /\ events' = events + 1 /\ events' \in Nat /\ billed \in Nat
    BY <1>0, <1>16 DEF Emit, MeterTyped
  <2>2. /\ MeterTyped' /\ billed' = billed + 1
        /\ \A u \in Tenants : usage'[u] >= charged'[u]
    BY <1>0, <1>16, <2>1, Recorded
  <2>3. Paidup(i) \in Nat /\ Paidup(i) <= events
    <3>1. CASE chat[i] = NoChat
      BY <2>1, <3>1 DEF Paidup
    <3>2. CASE chat[i] # NoChat
      <4>1. /\ chat[i].before \in Nat /\ chat[i].own \in Nat
            /\ chat[i].before + chat[i].own <= events
        BY <1>0, <3>2, ChatIs, ChatHas DEF MeterInv
      <4> QED BY <2>1, <3>2, <4>1 DEF Paidup
    <3> QED BY <3>1, <3>2
  <2>4. events <= events' /\ Paidup(i) <= events' /\ billed' <= billed + (events' - Paidup(i))
    BY <2>1, <2>2, <2>3
  <2> QED BY <1>0, <1>1, <1>16, <2>1, <2>2, <2>4, MeterMoves
<1>17. ASSUME NEW i \in Chats, NEW t \in Tenants, ShapeOnce(i, t) PROVE CallInv'
  <2>1. /\ chat[i] = NoChat /\ Emit(1) /\ RecordTokens(t, 1, 1)
        /\ UNCHANGED <<second, shapeVars>> /\ UNCHANGED chat
    BY <1>17 DEF ShapeOnce
  <2>2. chat' = [chat EXCEPT ![i] = NoChat]
    BY <1>0, <2>1 DEF ChatsTyped
  <2>3. ChatsTyped' /\ MeterInv'
    BY <1>16, <2>1, <2>2
  <2>4. ShapeInv'
    BY <1>2, <1>4, <2>1
  <2> QED BY <2>3, <2>4 DEF CallInv
<1>18. ASSUME NEW i \in Chats, InvokeEnds(i) PROVE CallInv'
  <2>1. /\ chat[i].at = "invoke" /\ StoreShaped(chat[i]) /\ Emit(1)
        /\ RecordTokens(chat[i].of, 1, 1) /\ chat' = [chat EXCEPT ![i] = NoChat]
        /\ UNCHANGED second
    BY <1>18 DEF InvokeEnds
  <2>2. chat[i].of \in Tenants
    BY <1>0, <1>1, <2>1, ChatIs, ChatHas
  <2>3. ChatsTyped' /\ MeterInv'
    BY <1>16, <2>1, <2>2
  <2>4. ShapeInv'
    BY <1>0, <1>1, <2>1, ShapeMoves DEF StoreShaped
  <2> QED BY <2>3, <2>4 DEF CallInv
<1>19. ASSUME NEW t \in Tenants, SetOverride(t) PROVE CallInv'
  <2>1. /\ policy' = [policy EXCEPT ![t] = policy[t] + 1]
        /\ changedAt' = [changedAt EXCEPT ![t] = second]
        /\ crossed' = [crossed EXCEPT ![t] = crossed[t] \/ \E i \in Chats :
                         chat[i].at \in {"tool", "invoke"} /\ chat[i].of = t]
        /\ UNCHANGED <<second, chat, shaped>> /\ UNCHANGED meterVars
    BY <1>19 DEF SetOverride
  <2>2. policy[t] + 1 \in Nat
    BY <1>0 DEF ShapesTyped
  <2>3. /\ policy' \in [Tenants -> Nat] /\ changedAt' \in [Tenants -> Nat]
        /\ \A u \in Tenants : u # t => policy'[u] = policy[u] /\ changedAt'[u] = changedAt[u]
        /\ changedAt'[t] = second
    BY <1>0, <2>1, <2>2 DEF ShapesTyped
  <2> DEFINE x == crossed[t] \/ \E i \in Chats :
                    chat[i].at \in {"tool", "invoke"} /\ chat[i].of = t
  <2>4. x \in BOOLEAN
    OBVIOUS
  <2>5. crossed' = [crossed EXCEPT ![t] = x]
    BY <2>1
  <2>6. (x <=> TRUE) \/ ~x
    OBVIOUS
  <2>7. \A i \in Chats : chat[i].at \in {"tool", "invoke"} /\ chat[i].of = t => x
    OBVIOUS
  <2>8. crossed[t] => x
    OBVIOUS
  <2> HIDE DEF x
  <2>9. /\ crossed' \in [Tenants -> BOOLEAN] /\ crossed'[t] = x
        /\ \A u \in Tenants : u # t => crossed'[u] = crossed[u]
    BY <1>0, <2>4, <2>5 DEF ShapesTyped
  <2>10. ShapesTyped'
    BY <1>0, <2>1, <2>3, <2>9 DEF ShapesTyped
  <2>11. ASSUME NEW i \in Chats, chat[i].at \in {"tool", "invoke"}
         PROVE  crossed'[chat[i].of] \/ chat[i].plan = policy'[chat[i].of]
    <3>1. chat[i].of \in Tenants
      BY <1>0, <1>1, <2>11, ChatIs, ChatHas
    <3>2. CASE chat[i].of = t
      BY <2>7, <2>9, <2>11, <3>2
    <3>3. CASE chat[i].of # t
      BY <1>0, <2>3, <2>9, <2>11, <3>1, <3>3 DEF ShapeInv
    <3> QED BY <3>2, <3>3
  <2>12. ASSUME NEW u \in Tenants, shaped[u] # NoEntry
         PROVE  /\ shaped[u].till <= second + ToolTtl
                /\ \/ crossed'[u] \/ shaped[u].plan = policy'[u]
                   \/ shaped[u].till <= changedAt'[u] + ToolTtl
    <3>1. CASE u = t
      BY <1>0, <2>3, <2>12, <3>1 DEF ShapeInv
    <3>2. CASE u # t
      BY <1>0, <2>3, <2>9, <2>12, <3>2 DEF ShapeInv
    <3> QED BY <3>1, <3>2
  <2>13. ShapeInv'
    BY <2>1, <2>10, <2>11, <2>12 DEF ShapeInv
  <2> QED BY <1>3, <2>1, <2>13 DEF CallInv
<1>20. ASSUME SecondPasses PROVE CallInv'
  <2>1. second' = second + 1 /\ UNCHANGED meterVars /\ UNCHANGED chat /\ UNCHANGED shapeVars
    BY <1>20 DEF SecondPasses
  <2>2. UNCHANGED <<policy, changedAt, crossed, shaped>>
    BY <2>1 DEF shapeVars
  <2>3. second' \in Nat /\ second \in Nat
    BY <1>0, <2>1 DEF ShapesTyped
  <2>4. \A t \in Tenants : shaped[t] # NoEntry => shaped[t].till \in Nat
    BY <1>0 DEF ShapesTyped
  <2>5. \A t \in Tenants : shaped[t] # NoEntry => shaped[t].till <= second' + ToolTtl
    <3> SUFFICES ASSUME NEW t \in Tenants, shaped[t] # NoEntry
                 PROVE  shaped[t].till <= second' + ToolTtl
      OBVIOUS
    <3>1. shaped[t].till <= second + ToolTtl /\ shaped[t].till \in Nat
      BY <1>0, <2>4 DEF ShapeInv
    <3> QED BY <2>1, <2>3, <3>1, ProxyConstants
  <2>6. ShapeInv'
    BY <1>0, <2>1, <2>2, <2>3, <2>5 DEF ShapeInv, ShapesTyped
  <2> QED BY <1>3, <2>1, <2>6 DEF CallInv
<1>21. ASSUME MonthEnds PROVE CallInv'
  <2>1. /\ usage' = [t \in Tenants |-> 0] /\ charged' = [t \in Tenants |-> 0]
        /\ UNCHANGED <<chat, events, billed>> /\ UNCHANGED <<second, shapeVars>>
    BY <1>21 DEF MonthEnds
  <2>2. MeterTyped' /\ \A t \in Tenants : usage'[t] >= charged'[t]
    BY <1>0, <2>1 DEF MeterTyped
  <2>3. ShapeInv'
    BY <1>2, <1>4, <2>1
  <2> QED BY <2>1, <2>2, <2>3, MeterSame DEF CallInv
<1>22. ASSUME UNCHANGED <<second, meterVars, chat, shapeVars>> PROVE CallInv'
  <2>1. ShapeInv'
    BY <1>2, <1>4, <1>22
  <2> QED BY <1>3, <1>22, <2>1 DEF CallInv
<1>23. CASE LookupNext
  BY <1>22, <1>23 DEF LookupNext, KeyAnswered, CacheKey, DashboardFails, AskKey, AccountChanges
<1>24. CASE WebhookNext
  BY <1>22, <1>24 DEF WebhookNext
<1>25. CASE CallNext
  BY <1>5, <1>6, <1>8, <1>9, <1>10, <1>13, <1>14, <1>15, <1>17, <1>18, <1>21, <1>25
  DEF CallNext
<1>26. CASE UNCHANGED proxyVars
  BY <1>22, <1>26 DEF proxyVars
<1> QED BY <1>19, <1>20, <1>23, <1>24, <1>25, <1>26 DEF ProxyNext

(* What the two theorems below rest on, for every step of every chat.      *)
THEOREM CallsHold == ProxySpec => []CallInv
<1>1. ProxyInit => CallInv
  BY CallStart
<1>2. CallInv /\ [ProxyNext]_proxyVars => CallInv'
  BY CallStep
<1> QED BY <1>1, <1>2, PTL DEF ProxySpec

(* However requests overlap: nothing a finished request made is free, and  *)
(* an event is charged at most once for each slot that requests go through.*)
THEOREM EveryTokenIsMetered == ProxySpec => []TokensMetered
<1>1. CallInv => TokensMetered
  <2> SUFFICES ASSUME CallInv PROVE TokensMetered
    OBVIOUS
  <2>1. billed <= Cardinality(PaidEvents) /\ billed \in Nat /\ events \in Nat
    BY DEF CallInv, MeterInv, MeterTyped
  <2>2. /\ Cardinality(PaidEvents) \in Nat /\ Cardinality(Chats) \in Nat
        /\ Cardinality(PaidEvents) <= Cardinality(Chats) * events
    BY PaidFinite DEF CallInv, MeterInv
  <2>3. billed <= Cardinality(Chats) * events
    <3> DEFINE b == Cardinality(Chats) * events
    <3>1. b \in Nat /\ Cardinality(PaidEvents) <= b
      BY <2>1, <2>2
    <3> HIDE DEF b
    <3>2. billed <= b
      BY <2>1, <2>2, <3>1
    <3> QED BY <3>2 DEF b
  <2> QED BY <2>3 DEF CallInv, MeterInv, TokensMetered
<1> QED BY <1>1, CallsHold, PTL

(* A result shaped by a policy that was replaced is not used longer than   *)
(* the cache keeps it, unless its tool ran while the policy changed.       *)
THEOREM OldShapesGoAway == ProxySpec => []OldShapeIsBrief
<1>1. CallInv => OldShapeIsBrief
  <2> SUFFICES ASSUME CallInv, NEW t \in Tenants, ToolCached(t), shaped[t].plan # policy[t]
               PROVE  crossed[t] \/ second <= changedAt[t] + ToolTtl
    BY DEF OldShapeIsBrief
  <2>1. shaped[t] # NoEntry /\ shaped[t].till >= second
    BY DEF ToolCached
  <2>2. /\ shaped[t].till \in Nat /\ second \in Nat /\ changedAt[t] \in Nat
        /\ crossed[t] \/ shaped[t].till <= changedAt[t] + ToolTtl
    BY <2>1 DEF CallInv, ShapeInv, ShapesTyped
  <2> QED BY <2>1, <2>2, ProxyConstants
<1> QED BY <1>1, CallsHold, PTL

(* Plans: since a question was sent, a key has stood for what the answer   *)
(* says, or it ceased to since.                                            *)
KnownSince(k, p, n) == ResolveKey(k) = p \/ heldTill[k][p] >= n

CacheTyped == keyCache \in [KeyIds -> Entries(Plans \cup {NoOne})]
LookupTyped == lookup \in [Lookups -> LookupStates]
HeldTyped == second \in Nat /\ heldTill \in [KeyIds -> [Plans -> Int]]

RecentInv ==
  /\ PlanInv /\ CacheTyped /\ LookupTyped /\ HeldTyped
  /\ \A i \in Lookups : lookup[i] # NoLookup =>
       /\ lookup[i].when <= second
       /\ lookup[i].at = "answer" /\ lookup[i].plan # NoOne =>
            KnownSince(lookup[i].key, lookup[i].plan, lookup[i].when)
  /\ \A k \in KeyIds : keyCache[k] # NoEntry /\ keyCache[k].plan # NoOne =>
       /\ keyCache[k].till <= second + KeyTtl
       /\ KnownSince(k, keyCache[k].plan, keyCache[k].till - KeyTtl)

LookupSent == [at : {"sent"}, key : KeyIds, when : Nat]
LookupAnswer == [at : {"answer"}, key : KeyIds, when : Nat, plan : Plans \cup {NoOne}]

LEMMA LookupHas ==
  /\ LookupStates = {NoLookup} \cup LookupSent \cup LookupAnswer
  /\ NoLookup.at = "none"
  /\ \A x \in LookupSent : x.at = "sent" /\ x.key \in KeyIds /\ x.when \in Nat
  /\ \A x \in LookupAnswer : /\ x.at = "answer" /\ x.key \in KeyIds /\ x.when \in Nat
                             /\ x.plan \in Plans \cup {NoOne}
<1>1. LookupStates = {NoLookup} \cup LookupSent \cup LookupAnswer
  BY DEF LookupStates, LookupSent, LookupAnswer
<1>2. NoLookup.at = "none"
  BY DEF NoLookup
<1>3. \A x \in LookupSent : x.at = "sent" /\ x.key \in KeyIds /\ x.when \in Nat
  BY DEF LookupSent
<1>4. \A x \in LookupAnswer : /\ x.at = "answer" /\ x.key \in KeyIds /\ x.when \in Nat
                              /\ x.plan \in Plans \cup {NoOne}
  BY DEF LookupAnswer
<1> QED BY <1>1, <1>2, <1>3, <1>4

LEMMA LookupIs ==
  ASSUME LookupTyped, NEW i \in Lookups
  PROVE  /\ lookup[i] = NoLookup \/ lookup[i] \in LookupSent \/ lookup[i] \in LookupAnswer
         /\ lookup[i].at = "sent" => lookup[i] \in LookupSent
         /\ lookup[i].at = "answer" => lookup[i] \in LookupAnswer
<1>1. lookup[i] \in {NoLookup} \cup LookupSent \cup LookupAnswer
  BY LookupHas DEF LookupTyped
<1> QED BY <1>1, LookupHas

LEMMA EntryHas ==
  /\ NoEntry \in Entries(Plans \cup {NoOne})
  /\ \A x \in Entries(Plans \cup {NoOne}) : x # NoEntry =>
       x.plan \in Plans \cup {NoOne} /\ x.till \in Nat
BY DEF Entries

LEMMA RecentStart == ProxyInit => RecentInv
<1> SUFFICES ASSUME ProxyInit PROVE RecentInv
  OBVIOUS
<1>1. PlanInv
  BY PlanStart DEF ProxyInit
<1>2. CacheTyped /\ \A k \in KeyIds : keyCache[k] = NoEntry
  BY EntryHas DEF ProxyInit, CacheTyped
<1>3. LookupTyped /\ \A i \in Lookups : lookup[i] = NoLookup
  BY LookupHas DEF ProxyInit, LookupTyped
<1>4. HeldTyped
  <2>1. NotYet \in Int
    BY ProxyConstants DEF NotYet
  <2> QED BY <2>1 DEF ProxyInit, HeldTyped
<1> QED BY <1>1, <1>2, <1>3, <1>4 DEF RecentInv

(* The account a key stands for: one plan, when it is the current one.     *)
LEMMA AccountIs ==
  ASSUME PlanInv
  PROVE  /\ account.key \in KeyIds /\ account.plan \in Plans
         /\ \A k, p : ResolveKey(k) = p /\ p # NoOne => k = account.key /\ p = account.plan
BY AccountTypes DEF PlanInv, AccountTyped, ResolveKey

(* Whatever the account does, what was known since a second is known.      *)
LEMMA KnownStays ==
  ASSUME RecentInv, UNCHANGED second,
         \/ UNCHANGED <<account, heldTill>>
         \/ heldTill' = [heldTill EXCEPT ![account.key][account.plan] = second],
         NEW k \in KeyIds, NEW p \in Plans, p # NoOne, NEW n \in Int, n <= second,
         KnownSince(k, p, n)
  PROVE  ResolveKey(k)' = p \/ heldTill'[k][p] >= n
<1>1. CASE UNCHANGED <<account, heldTill>>
  BY <1>1 DEF KnownSince, ResolveKey
<1>2. CASE heldTill' = [heldTill EXCEPT ![account.key][account.plan] = second]
  <2>1. /\ heldTill \in [KeyIds -> [Plans -> Int]] /\ second \in Int
        /\ account.key \in KeyIds /\ account.plan \in Plans
    BY AccountIs DEF RecentInv, HeldTyped
  <2>2. CASE k = account.key /\ p = account.plan
    <3>1. heldTill'[k][p] = second
      BY <1>2, <2>1, <2>2
    <3> QED BY <3>1
  <2>3. CASE ~(k = account.key /\ p = account.plan)
    <3>1. heldTill[k][p] >= n
      BY <2>3, AccountIs DEF KnownSince, RecentInv
    <3>2. heldTill'[k][p] = heldTill[k][p]
      BY <1>2, <2>1, <2>3
    <3> QED BY <3>1, <3>2
  <2> QED BY <2>2, <2>3
<1> QED BY <1>1, <1>2

(* A step of the account, of the clock or of no one, with no lookup done.  *)
LEMMA RecentSame ==
  ASSUME RecentInv, PlanInv', UNCHANGED <<keyCache, lookup>>,
         \/ UNCHANGED <<account, second, heldTill>>
         \/ /\ UNCHANGED second
            /\ heldTill' = [heldTill EXCEPT ![account.key][account.plan] = second]
         \/ UNCHANGED <<account, heldTill>> /\ second' = second + 1
  PROVE  RecentInv'
<1>1. /\ CacheTyped /\ LookupTyped /\ HeldTyped /\ PlanInv
      /\ second \in Nat /\ account.key \in KeyIds /\ account.plan \in Plans
      /\ KeyTtl \in Nat
  BY AccountIs, ProxyConstants DEF RecentInv, HeldTyped
<1>2. HeldTyped' /\ second' \in Nat /\ second <= second'
  BY <1>1 DEF HeldTyped
<1>3. CacheTyped' /\ LookupTyped'
  BY <1>1 DEF CacheTyped, LookupTyped
<1>4. ASSUME NEW k \in KeyIds, NEW p \in Plans, p # NoOne, NEW n \in Int, n <= second,
             KnownSince(k, p, n)
      PROVE  ResolveKey(k)' = p \/ heldTill'[k][p] >= n
  <2>1. CASE UNCHANGED <<account, heldTill>>
    BY <1>4, <2>1 DEF KnownSince, ResolveKey
  <2>2. CASE UNCHANGED second
             /\ heldTill' = [heldTill EXCEPT ![account.key][account.plan] = second]
    BY <1>4, <2>2, KnownStays
  <2> QED BY <2>1, <2>2
<1>5. ASSUME NEW i \in Lookups, lookup[i] # NoLookup
      PROVE  /\ lookup[i].when <= second'
             /\ lookup[i].at = "answer" /\ lookup[i].plan # NoOne =>
                  \/ ResolveKey(lookup[i].key)' = lookup[i].plan
                  \/ heldTill'[lookup[i].key][lookup[i].plan] >= lookup[i].when
  <2>1. lookup[i].when \in Nat /\ lookup[i].when <= second
    BY <1>1, <1>5, LookupIs, LookupHas DEF RecentInv
  <2>2. ASSUME lookup[i].at = "answer", lookup[i].plan # NoOne
        PROVE  \/ ResolveKey(lookup[i].key)' = lookup[i].plan
               \/ heldTill'[lookup[i].key][lookup[i].plan] >= lookup[i].when
    <3>1. lookup[i].key \in KeyIds /\ lookup[i].plan \in Plans
      BY <1>1, <2>2, LookupIs, LookupHas
    <3>2. KnownSince(lookup[i].key, lookup[i].plan, lookup[i].when)
      BY <1>5, <2>2 DEF RecentInv
    <3> QED BY <1>4, <2>1, <2>2, <3>1, <3>2
  <2> QED BY <1>1, <1>2, <2>1, <2>2
<1>6. ASSUME NEW k \in KeyIds, keyCache[k] # NoEntry, keyCache[k].plan # NoOne
      PROVE  /\ keyCache[k].till <= second' + KeyTtl
             /\ \/ ResolveKey(k)' = keyCache[k].plan
                \/ heldTill'[k][keyCache[k].plan] >= keyCache[k].till - KeyTtl
  <2>1. keyCache[k].plan \in Plans /\ keyCache[k].till \in Nat
    BY <1>1, <1>6, EntryHas DEF CacheTyped
  <2>2. /\ keyCache[k].till <= second + KeyTtl
        /\ KnownSince(k, keyCache[k].plan, keyCache[k].till - KeyTtl)
    BY <1>6 DEF RecentInv
  <2>3. keyCache[k].till - KeyTtl \in Int /\ keyCache[k].till - KeyTtl <= second
    BY <1>1, <2>1, <2>2
  <2>4. keyCache[k].till <= second' + KeyTtl
    BY <1>1, <1>2, <2>1, <2>2
  <2> QED BY <1>4, <1>6, <2>1, <2>2, <2>3, <2>4
<1> QED BY <1>2, <1>3, <1>5, <1>6 DEF RecentInv, KnownSince

LEMMA LookupPut ==
  ASSUME LookupTyped, NEW i \in Lookups, NEW q \in LookupStates, lookup' = [lookup EXCEPT ![i] = q]
  PROVE  LookupTyped' /\ \A j \in Lookups : lookup'[j] = IF j = i THEN q ELSE lookup[j]
BY DEF LookupTyped

(* A lookup that moves.                                                    *)
LEMMA LookupMoves ==
  ASSUME RecentInv, PlanInv', NEW i \in Lookups, NEW q \in LookupStates,
         lookup' = [lookup EXCEPT ![i] = q], UNCHANGED <<account, second, heldTill>>,
         q # NoLookup => /\ q.when <= second
                         /\ q.at = "answer" /\ q.plan # NoOne => KnownSince(q.key, q.plan, q.when),
         CacheTyped',
         \A k \in KeyIds : keyCache'[k] # NoEntry /\ keyCache'[k].plan # NoOne =>
           /\ keyCache'[k].till <= second + KeyTtl
           /\ KnownSince(k, keyCache'[k].plan, keyCache'[k].till - KeyTtl)
  PROVE  RecentInv'
<1>1. LookupTyped' /\ \A j \in Lookups : lookup'[j] = IF j = i THEN q ELSE lookup[j]
  BY LookupPut DEF RecentInv
<1>2. HeldTyped'
  BY DEF RecentInv, HeldTyped
<1>3. ASSUME NEW j \in Lookups, lookup'[j] # NoLookup
      PROVE  /\ lookup'[j].when <= second
             /\ lookup'[j].at = "answer" /\ lookup'[j].plan # NoOne =>
                  KnownSince(lookup'[j].key, lookup'[j].plan, lookup'[j].when)
  <2>1. CASE j = i
    BY <1>1, <1>3, <2>1
  <2>2. CASE j # i
    BY <1>1, <1>3, <2>2 DEF RecentInv
  <2> QED BY <2>1, <2>2
<1> QED BY <1>1, <1>2, <1>3 DEF RecentInv, KnownSince, ResolveKey

LEMMA RecentStep == RecentInv /\ [ProxyNext]_proxyVars => RecentInv'
<1> SUFFICES ASSUME RecentInv, [ProxyNext]_proxyVars PROVE RecentInv'
  OBVIOUS
<1>0. PlanInv /\ CacheTyped /\ LookupTyped /\ HeldTyped /\ second \in Nat
  BY DEF RecentInv, HeldTyped
<1>1. PlanInv'
  <2>1. [BillingNext \/ AccountNext]_accountVars
    <3>1. CASE UNCHANGED accountVars
      BY <3>1
    <3>2. CASE LookupNext
      BY <3>2 DEF LookupNext, KeyAnswered, CacheKey, DashboardFails, AskKey, AccountChanges
    <3>3. CASE CallNext
      BY <3>3 DEF CallNext, FinalAnswer, UpstreamFails, ToolAnswers, ToolFails, InvokeEnds,
                  ToolFromCache, ToolRuns, ChatStart, ShapeOnce, InvokeStart, MonthEnds
    <3>4. CASE WebhookNext
      BY <3>4 DEF WebhookNext
    <3>5. CASE SecondPasses \/ \E t \in Tenants : SetOverride(t)
      BY <3>5 DEF SecondPasses, SetOverride
    <3> QED BY <3>1, <3>2, <3>3, <3>4, <3>5 DEF ProxyNext, proxyVars
  <2> QED BY <1>0, <2>1, PlanStep
<1>2. \A k \in KeyIds : keyCache[k] # NoEntry /\ keyCache[k].plan # NoOne =>
        /\ keyCache[k].till <= second + KeyTtl
        /\ KnownSince(k, keyCache[k].plan, keyCache[k].till - KeyTtl)
  BY DEF RecentInv
<1>3. ASSUME UNCHANGED keyCache
      PROVE  /\ CacheTyped'
             /\ \A k \in KeyIds : keyCache'[k] # NoEntry /\ keyCache'[k].plan # NoOne =>
                  /\ keyCache'[k].till <= second + KeyTtl
                  /\ KnownSince(k, keyCache'[k].plan, keyCache'[k].till - KeyTtl)
  BY <1>0, <1>2, <1>3 DEF CacheTyped
<1>4. UNCHANGED accountVars => UNCHANGED account
  BY DEF accountVars
<1>5. ASSUME NEW i \in Lookups, NEW k \in KeyIds, AskKey(i, k) PROVE RecentInv'
  <2> DEFINE q == [at |-> "sent", key |-> k, when |-> second]
  <2>1. /\ lookup' = [lookup EXCEPT ![i] = q]
        /\ UNCHANGED <<account, second, keyCache, heldTill>>
    BY <1>4, <1>5 DEF AskKey
  <2>2. q \in LookupStates /\ q.when = second /\ q.at = "sent"
    BY <1>0 DEF LookupStates
  <2> HIDE DEF q
  <2>3. second <= second
    BY <1>0
  <2> QED BY <1>1, <1>3, <2>1, <2>2, <2>3, LookupMoves
<1>6. ASSUME NEW i \in Lookups, KeyAnswered(i) PROVE RecentInv'
  <2> DEFINE l == lookup[i]
             q == [at |-> "answer", key |-> l.key, when |-> l.when, plan |-> ResolveKey(l.key)]
  <2>1. /\ l.at = "sent" /\ lookup' = [lookup EXCEPT ![i] = q]
        /\ UNCHANGED <<account, second, keyCache, heldTill>>
    BY <1>0, <1>4, <1>6 DEF KeyAnswered, LookupTyped
  <2>2. l # NoLookup /\ l.key \in KeyIds /\ l.when \in Nat /\ l.when <= second
    BY <1>0, <2>1, LookupIs, LookupHas DEF RecentInv
  <2>3. ResolveKey(l.key) \in Plans \cup {NoOne}
    BY <1>0, AccountIs DEF ResolveKey
  <2>4. /\ q \in LookupStates /\ q.key = l.key /\ q.when = l.when
        /\ q.plan = ResolveKey(l.key)
    BY <2>2, <2>3 DEF LookupStates
  <2>5. KnownSince(q.key, q.plan, q.when)
    BY <2>4 DEF KnownSince
  <2> HIDE DEF l, q
  <2> QED BY <1>1, <1>3, <2>1, <2>2, <2>4, <2>5, LookupMoves
<1>7. ASSUME NEW i \in Lookups, CacheKey(i) PROVE RecentInv'
  <2> DEFINE l == lookup[i]
             e == [plan |-> l.plan, till |-> KeptTill(l)]
  <2>1. /\ l.at = "answer" /\ keyCache' = [keyCache EXCEPT ![l.key] = e]
        /\ lookup' = [lookup EXCEPT ![i] = NoLookup]
        /\ UNCHANGED <<account, second, heldTill>>
    BY <1>4, <1>7 DEF CacheKey
  <2>2. l \in LookupAnswer
    BY <1>0, <2>1, LookupIs
  <2>3. /\ l # NoLookup /\ l.key \in KeyIds /\ l.when \in Nat /\ l.when <= second
        /\ l.plan \in Plans \cup {NoOne}
    BY <2>1, <2>2, LookupHas DEF RecentInv
  <2>4. l.plan # NoOne => KnownSince(l.key, l.plan, l.when)
    BY <2>1, <2>3 DEF RecentInv
  <2> HIDE DEF l
  <2>5. KeptTill(l) \in Nat /\ (l.plan # NoOne => KeptTill(l) = l.when + KeyTtl)
    BY <2>3, ProxyConstants DEF KeptTill
  <2>6. e \in Entries(Plans \cup {NoOne}) /\ e.plan = l.plan /\ e.till = KeptTill(l)
    BY <2>3, <2>5 DEF Entries
  <2> HIDE DEF e
  <2>7. CacheTyped' /\ \A k \in KeyIds : keyCache'[k] = IF k = l.key THEN e ELSE keyCache[k]
    BY <1>0, <2>1, <2>3, <2>6 DEF CacheTyped
  <2>8. ASSUME NEW k \in KeyIds, keyCache'[k] # NoEntry, keyCache'[k].plan # NoOne
        PROVE  /\ keyCache'[k].till <= second + KeyTtl
               /\ KnownSince(k, keyCache'[k].plan, keyCache'[k].till - KeyTtl)
    <3>1. CASE k = l.key
      <4>1. /\ keyCache'[k].plan = l.plan /\ keyCache'[k].till = l.when + KeyTtl
        BY <2>5, <2>6, <2>7, <2>8, <3>1
      <4>2. l.when + KeyTtl <= second + KeyTtl /\ l.when + KeyTtl - KeyTtl = l.when
        BY <1>0, <2>3, ProxyConstants
      <4>3. /\ keyCache'[k].till <= second + KeyTtl
            /\ keyCache'[k].till - KeyTtl = l.when
        <5>1. keyCache'[k].till = l.when + KeyTtl
          BY <4>1
        <5>2. l.when + KeyTtl \in Nat /\ second \in Nat /\ KeyTtl \in Nat
          BY <1>0, <2>3, ProxyConstants
        <5> QED BY <5>1, <5>2, <2>3, <4>2
      <4>4. l.plan # NoOne
        BY <2>8, <4>1
      <4>5. KnownSince(l.key, l.plan, l.when)
        BY <2>4, <4>4
      <4>6. KnownSince(k, keyCache'[k].plan, keyCache'[k].till - KeyTtl)
            = KnownSince(l.key, l.plan, l.when)
        BY <3>1, <4>1, <4>3, Zenon
      <4> QED BY <4>3, <4>5, <4>6
    <3>2. CASE k # l.key
      BY <1>2, <2>7, <2>8, <3>2
    <3> QED BY <3>1, <3>2
  <2>9. NoLookup \in LookupStates
    BY DEF LookupStates
  <2> QED BY <1>1, <2>1, <2>7, <2>8, <2>9, LookupMoves
<1>8. ASSUME NEW i \in Lookups, DashboardFails(i) PROVE RecentInv'
  <2>1. /\ lookup' = [lookup EXCEPT ![i] = NoLookup]
        /\ UNCHANGED <<account, second, keyCache, heldTill>>
    BY <1>4, <1>8 DEF DashboardFails
  <2>2. NoLookup \in LookupStates
    BY DEF LookupStates
  <2> QED BY <1>1, <1>3, <2>1, <2>2, LookupMoves
<1>9. CASE AccountChanges
  BY <1>1, <1>9, RecentSame DEF AccountChanges
<1>10. CASE WebhookNext
  BY <1>1, <1>10, RecentSame DEF WebhookNext
<1>11. CASE SecondPasses
  BY <1>1, <1>4, <1>11, RecentSame DEF SecondPasses, lookupVars
<1>12. CASE UNCHANGED <<account, second, lookupVars>>
  BY <1>1, <1>12, RecentSame DEF lookupVars
<1>13. CASE CallNext \/ \E t \in Tenants : SetOverride(t)
  BY <1>4, <1>12, <1>13
  DEF CallNext, FinalAnswer, UpstreamFails, ToolAnswers, ToolFails, InvokeEnds,
      ToolFromCache, ToolRuns, ChatStart, ShapeOnce, InvokeStart, MonthEnds, SetOverride
<1>14. CASE LookupNext
  BY <1>5, <1>6, <1>7, <1>8, <1>9, <1>14 DEF LookupNext
<1>15. CASE UNCHANGED proxyVars
  BY <1>4, <1>12, <1>15 DEF proxyVars
<1> QED BY <1>10, <1>11, <1>13, <1>14, <1>15 DEF ProxyNext

(* What the proxy takes for a customer's plan without asking was true less *)
(* than one lifetime of its cache ago, however slow the answers are.       *)
THEOREM PlansAreRecent == ProxySpec => []KnownKeyIsRecent
<1>1. ProxyInit => RecentInv
  BY RecentStart
<1>2. RecentInv /\ [ProxyNext]_proxyVars => RecentInv'
  BY RecentStep
<1>3. RecentInv => KnownKeyIsRecent
  <2> SUFFICES ASSUME RecentInv, NEW k \in KeyIds, KeyFresh(k),
                      keyCache[k].plan \notin {NoOne, ResolveKey(k)}
               PROVE  heldTill[k][keyCache[k].plan] + KeyTtl > second
    BY DEF KnownKeyIsRecent
  <2>1. keyCache[k] # NoEntry /\ keyCache[k].till > second
    BY DEF KeyFresh
  <2>2. /\ keyCache[k].plan \in Plans /\ keyCache[k].till \in Nat /\ second \in Nat
        /\ heldTill[k][keyCache[k].plan] \in Int
    BY <2>1, EntryHas DEF RecentInv, CacheTyped, HeldTyped
  <2>3. heldTill[k][keyCache[k].plan] >= keyCache[k].till - KeyTtl
    BY <2>1 DEF RecentInv, KnownSince
  <2> QED BY <2>1, <2>2, <2>3, ProxyConstants
<1> QED BY <1>1, <1>2, <1>3, PTL DEF ProxySpec

(* The proxy in front of the accounts leaves them as they are.             *)
THEOREM ProxyKeepsPlans == ProxySpec => []PlanTellsPayment
<1>1. ProxyInit => RecentInv
  BY RecentStart
<1>2. RecentInv /\ [ProxyNext]_proxyVars => RecentInv'
  BY RecentStep
<1>3. RecentInv => PlanTellsPayment
  BY DEF RecentInv, PlanInv, NewestTold, PlanTellsPayment
<1> QED BY <1>1, <1>2, <1>3, PTL DEF ProxySpec

(* Bounds: a policy that a request or a cached result remembers is one     *)
(* there was, a chat is never in a round past the last, and what a ghost   *)
(* dates was.                                                              *)
Fits(c) == c # NoChat => c.plan <= MaxPolicy /\ c.round < MaxRounds
Suits(e) == e # NoEntry => e.plan <= MaxPolicy

ClockBounds == second <= LastSecond /\ month \in 1..MaxMonth
HeldBounds == heldTill \in [KeyIds -> [Plans -> {NotYet} \cup 0..LastSecond]]
PolicyBounds == \A t \in Tenants : policy[t] <= MaxPolicy /\ changedAt[t] <= LastSecond
ProxyBounds ==
  /\ ClockBounds /\ HeldBounds /\ PolicyBounds
  /\ \A i \in Chats : Fits(chat[i])
  /\ \A t \in Tenants : Suits(shaped[t])

LEMMA ProxyLimits ==
  /\ LastSecond \in Nat /\ MaxPolicy \in Nat /\ MaxMonth \in Nat /\ MaxMonth > 0
  /\ MaxRounds \in Nat /\ MaxRounds > 0
<1>1. {ToolTtl, KeyTtl, MissTtl, MaxMonth} \subseteq Nat \ {0}
  BY ProxyAssumption
<1>2. {MaxEvents, MaxPolicy, LastSecond} \subseteq Nat
  BY ProxyAssumption
<1> QED BY <1>1, <1>2, ProxyConstants

LEMMA ProxyBoundsStart == ProxyInit => ProxyBounds
<1> SUFFICES ASSUME ProxyInit PROVE ProxyBounds
  OBVIOUS
<1>1. ClockBounds
  BY ProxyLimits DEF ProxyInit, ClockBounds
<1>2. HeldBounds
  BY DEF ProxyInit, HeldBounds
<1>3. PolicyBounds
  BY ProxyLimits DEF ProxyInit, PolicyBounds
<1>4. /\ \A i \in Chats : Fits(chat[i])
      /\ \A t \in Tenants : Suits(shaped[t])
  BY DEF ProxyInit, Fits, Suits
<1> QED BY <1>1, <1>2, <1>3, <1>4 DEF ProxyBounds

(* A chat that goes into its next round was not in its last.               *)
LEMMA NextRoundFits ==
  ASSUME CallInv, ProxyBounds, NEW i \in Chats, chat[i] # NoChat, NEW n \in Nat,
         NextRound(i, n)
  PROVE  \A j \in Chats : Fits(chat'[j])
<1>1. /\ chat[i] \in ChatRows /\ chat[i].round \in Nat /\ chat[i].own \in Nat
      /\ chat[i].plan <= MaxPolicy /\ chat[i].round < MaxRounds
      /\ chat \in [Chats -> {NoChat} \cup ChatRows]
      /\ \A j \in Chats : Fits(chat[j])
  BY ChatIs, ChatHas DEF CallInv, ProxyBounds, Fits, ChatsTyped
<1>2. CASE chat[i].round + 1 = MaxRounds
  <2>1. chat' = [chat EXCEPT ![i] = NoChat]
    BY <1>2 DEF NextRound, ChatEnds
  <2>2. \A j \in Chats : chat'[j] = chat[j] \/ chat'[j] = NoChat
    BY <1>1, <2>1
  <2> QED BY <1>1, <2>2 DEF Fits
<1>3. CASE chat[i].round + 1 # MaxRounds
  <2> DEFINE q == [chat[i] EXCEPT !.at = "llm", !.round = chat[i].round + 1,
                                  !.own = chat[i].own + n]
  <2>1. chat' = [chat EXCEPT ![i].at = "llm", ![i].round = @ + 1, ![i].own = @ + n]
    BY <1>3 DEF NextRound
  <2>2. chat' = [chat EXCEPT ![i] = q]
    BY <1>1, <2>1 DEF ChatRows
  <2>3. q.plan = chat[i].plan /\ q.round = chat[i].round + 1
    BY <1>1 DEF ChatRows
  <2> HIDE DEF q
  <2>4. chat[i].round + 1 < MaxRounds
    BY <1>1, <1>3, ProxyLimits
  <2>5. Fits(q)
    BY <1>1, <2>3, <2>4 DEF Fits
  <2>6. \A j \in Chats : chat'[j] = chat[j] \/ chat'[j] = q
    BY <1>1, <2>2
  <2> QED BY <1>1, <2>5, <2>6
<1> QED BY <1>2, <1>3

(* What a step on requests and cached results leaves alone.                *)
LEMMA CallBounds ==
  ASSUME ProxyBounds, UNCHANGED <<second, heldTill, policy, changedAt>>,
         month' \in 1..MaxMonth,
         \A j \in Chats : Fits(chat'[j]), \A t \in Tenants : Suits(shaped'[t])
  PROVE  ProxyBounds'
<1>1. ClockBounds' /\ HeldBounds' /\ PolicyBounds'
  BY DEF ProxyBounds, ClockBounds, HeldBounds, PolicyBounds
<1>2. (\A j \in Chats : Fits(chat[j]))' /\ (\A t \in Tenants : Suits(shaped[t]))'
  BY DEF Fits, Suits
<1> QED BY <1>1, <1>2 DEF ProxyBounds

LEMMA ProxyBoundsNext ==
  ASSUME CallInv, RecentInv, ProxyBounds, [ProxyNext]_proxyVars
  PROVE  ProxyBounds'
<1>0. /\ ChatsTyped /\ chat \in [Chats -> {NoChat} \cup ChatRows]
      /\ second \in Nat /\ second <= LastSecond /\ month \in 1..MaxMonth
      /\ policy \in [Tenants -> Nat] /\ changedAt \in [Tenants -> Nat]
      /\ shaped \in [Tenants -> {NoEntry} \cup [plan : Nat, till : Nat]]
      /\ \A i \in Chats : Fits(chat[i])
      /\ \A t \in Tenants : Suits(shaped[t]) /\ policy[t] <= MaxPolicy
      /\ HeldBounds
  BY DEF CallInv, ChatsTyped, ShapeInv, ShapesTyped, ProxyBounds, ClockBounds, PolicyBounds
<1>1. ASSUME NEW i \in Chats, NEW q, Fits(q), chat' = [chat EXCEPT ![i] = q]
      PROVE  \A j \in Chats : Fits(chat'[j])
  <2>1. \A j \in Chats : chat'[j] = chat[j] \/ chat'[j] = q
    BY <1>0, <1>1
  <2> QED BY <1>0, <1>1, <2>1
<1>2. Fits(NoChat)
  BY DEF Fits
<1>3. ASSUME NEW at, NEW t \in Tenants PROVE Fits(Request(at, t))
  <2>1. Request(at, t).plan = policy[t] /\ Request(at, t).round = 0
    BY DEF Request
  <2> QED BY <1>0, <2>1, ProxyLimits DEF Fits
<1>4. ASSUME NEW i \in Chats, chat[i] # NoChat, StoreShaped(chat[i])
      PROVE  \A t \in Tenants : Suits(shaped'[t])
  <2> DEFINE e == [plan |-> chat[i].plan, till |-> second + ToolTtl]
  <2>1. shaped' = [shaped EXCEPT ![chat[i].of] = e] /\ e.plan = chat[i].plan
    BY <1>4 DEF StoreShaped
  <2>2. Suits(e)
    BY <1>0, <1>4, <2>1 DEF Suits, Fits
  <2> HIDE DEF e
  <2>3. \A t \in Tenants : shaped'[t] = shaped[t] \/ shaped'[t] = e
    BY <1>0, <2>1
  <2> QED BY <1>0, <2>2, <2>3
<1>5. ASSUME UNCHANGED shaped PROVE \A t \in Tenants : Suits(shaped'[t])
  BY <1>0, <1>5
<1>6. ASSUME UNCHANGED chat PROVE \A j \in Chats : Fits(chat'[j])
  BY <1>0, <1>6
<1>7. ASSUME NEW i \in Chats, NEW n \in Nat, NextRound(i, n) PROVE UNCHANGED month
  BY <1>7 DEF NextRound, ChatEnds, RecordTokens
<1>8. \A twice \in BOOLEAN : Answers(twice) \in Nat
  BY DEF Answers
<1>9. ASSUME NEW i \in Chats, NEW t \in Tenants, ChatStart(i, t) \/ InvokeStart(i, t)
      PROVE  ProxyBounds'
  <2>1. PICK at \in {"llm", "invoke"} : chat' = [chat EXCEPT ![i] = Request(at, t)]
    BY <1>9 DEF ChatStart, InvokeStart
  <2>2. \A j \in Chats : Fits(chat'[j])
    BY <1>1, <1>3, <2>1
  <2>3. UNCHANGED <<second, heldTill, policy, changedAt, month, shaped>>
    BY <1>9 DEF ChatStart, InvokeStart, lookupVars, meterVars, shapeVars
  <2> QED BY <1>0, <1>5, <2>2, <2>3, CallBounds
<1>10. ASSUME NEW i \in Chats, FinalAnswer(i) \/ UpstreamFails(i) PROVE ProxyBounds'
  <2>1. chat' = [chat EXCEPT ![i] = NoChat]
    BY <1>10 DEF FinalAnswer, ChatEnds, UpstreamFails
  <2>2. UNCHANGED <<second, heldTill, policy, changedAt, month, shaped>>
    BY <1>10 DEF FinalAnswer, ChatEnds, RecordTokens, UpstreamFails, lookupVars, meterVars,
                 shapeVars
  <2> QED BY <1>0, <1>1, <1>2, <1>5, <2>1, <2>2, CallBounds
<1>11. ASSUME NEW i \in Chats, NEW twice \in BOOLEAN, ToolFromCache(i, twice)
       PROVE  ProxyBounds'
  <2>1. NextRound(i, Answers(twice)) /\ chat[i] # NoChat
    BY <1>0, <1>11, ChatIs, ChatHas DEF ToolFromCache
  <2>2. UNCHANGED <<second, heldTill, policy, changedAt, shaped>>
    BY <1>11 DEF ToolFromCache, lookupVars, shapeVars
  <2> QED BY <1>0, <1>5, <1>7, <1>8, <2>1, <2>2, NextRoundFits, CallBounds
<1>12. ASSUME NEW i \in Chats, NEW twice \in BOOLEAN, ToolRuns(i, twice) PROVE ProxyBounds'
  <2>1. chat[i] # NoChat /\ chat[i] \in ChatRows /\ chat[i].of \in Tenants
    BY <1>0, <1>12, ChatIs, ChatHas DEF ToolRuns
  <2> DEFINE q == [chat[i] EXCEPT !.at = "tool", !.twice = twice,
                                  !.plan = policy[chat[i].of]]
  <2>2. chat' = [chat EXCEPT ![i] = q]
    BY <1>12 DEF ToolRuns
  <2>3. q.plan = policy[chat[i].of] /\ q.round = chat[i].round
    BY <2>1 DEF ChatRows
  <2> HIDE DEF q
  <2>4. Fits(q)
    BY <1>0, <2>1, <2>3 DEF Fits
  <2>5. UNCHANGED <<second, heldTill, policy, changedAt, month, shaped>>
    BY <1>12 DEF ToolRuns, lookupVars, meterVars, shapeVars
  <2> QED BY <1>0, <1>1, <1>5, <2>2, <2>4, <2>5, CallBounds
<1>13. ASSUME NEW i \in Chats, ToolAnswers(i) PROVE ProxyBounds'
  <2>1. chat[i] # NoChat /\ StoreShaped(chat[i])
    BY <1>0, <1>13, ChatIs, ChatHas DEF ToolAnswers
  <2>2. chat[i].twice \in BOOLEAN /\ NextRound(i, Answers(chat[i].twice))
    BY <1>0, <1>13, <2>1, ChatIs, ChatHas DEF ToolAnswers
  <2>3. UNCHANGED <<second, heldTill, policy, changedAt>>
    BY <1>13 DEF ToolAnswers, StoreShaped, lookupVars
  <2> QED BY <1>0, <1>4, <1>7, <1>8, <2>1, <2>2, <2>3, NextRoundFits, CallBounds
<1>14. ASSUME NEW i \in Chats, ToolFails(i) PROVE ProxyBounds'
  <2>1. chat[i] # NoChat
    BY <1>0, <1>14, ChatIs, ChatHas DEF ToolFails
  <2>2. PICK n \in {0, 1} : NextRound(i, n)
    BY <1>14 DEF ToolFails
  <2>3. UNCHANGED <<second, heldTill, policy, changedAt, shaped>>
    BY <1>14 DEF ToolFails, lookupVars, shapeVars
  <2> QED BY <1>0, <1>5, <1>7, <2>1, <2>2, <2>3, NextRoundFits, CallBounds
<1>15. ASSUME NEW i \in Chats, InvokeEnds(i) PROVE ProxyBounds'
  <2>1. chat[i] # NoChat /\ StoreShaped(chat[i]) /\ chat' = [chat EXCEPT ![i] = NoChat]
    BY <1>0, <1>15, ChatIs, ChatHas DEF InvokeEnds
  <2>2. UNCHANGED <<second, heldTill, policy, changedAt, month>>
    BY <1>15 DEF InvokeEnds, StoreShaped, RecordTokens, lookupVars
  <2> QED BY <1>0, <1>1, <1>2, <1>4, <2>1, <2>2, CallBounds
<1>16. ASSUME NEW i \in Chats, NEW t \in Tenants, ShapeOnce(i, t) PROVE ProxyBounds'
  <2>1. UNCHANGED <<second, heldTill, policy, changedAt, month, shaped, chat>>
    BY <1>16 DEF ShapeOnce, RecordTokens, lookupVars, shapeVars
  <2> QED BY <1>0, <1>5, <1>6, <2>1, CallBounds
<1>17. CASE MonthEnds
  <2>1. UNCHANGED <<second, heldTill, policy, changedAt, shaped, chat>>
    BY <1>17 DEF MonthEnds, lookupVars, shapeVars
  <2>2. month' \in 1..MaxMonth
    BY <1>0, <1>17, ProxyLimits DEF MonthEnds
  <2> QED BY <1>5, <1>6, <2>1, <2>2, CallBounds
<1>18. CASE CallNext
  BY <1>9, <1>10, <1>11, <1>12, <1>13, <1>14, <1>15, <1>16, <1>17, <1>18 DEF CallNext
<1>19. ASSUME NEW t \in Tenants, SetOverride(t) PROVE ProxyBounds'
  <2>1. /\ policy[t] < MaxPolicy /\ policy' = [policy EXCEPT ![t] = policy[t] + 1]
        /\ changedAt' = [changedAt EXCEPT ![t] = second]
        /\ UNCHANGED <<second, heldTill, month, chat, shaped>>
    BY <1>19 DEF SetOverride, lookupVars, meterVars
  <2>2. policy[t] + 1 <= MaxPolicy
    BY <1>0, <2>1, ProxyLimits
  <2>3. \A u \in Tenants : policy'[u] = IF u = t THEN policy[t] + 1 ELSE policy[u]
    BY <1>0, <2>1
  <2>4. \A u \in Tenants : changedAt'[u] = IF u = t THEN second ELSE changedAt[u]
    BY <1>0, <2>1
  <2>5. PolicyBounds'
    BY <1>0, <2>2, <2>3, <2>4 DEF ProxyBounds, PolicyBounds
  <2>6. ClockBounds' /\ HeldBounds'
    BY <1>0, <2>1 DEF ClockBounds, HeldBounds
  <2>7. (\A j \in Chats : Fits(chat[j]))' /\ (\A u \in Tenants : Suits(shaped[u]))'
    BY <1>5, <1>6, <2>1 DEF Fits, Suits
  <2> QED BY <2>5, <2>6, <2>7 DEF ProxyBounds
<1>20. ASSUME second' \in 0..LastSecond,
              heldTill' = heldTill \/ heldTill' = [heldTill EXCEPT ![account.key][account.plan] = second],
              UNCHANGED <<month, policy, changedAt, chat, shaped>>
       PROVE  ProxyBounds'
  <2>1. ClockBounds' /\ PolicyBounds'
    BY <1>0, <1>20, ProxyLimits DEF ProxyBounds, ClockBounds, PolicyBounds
  <2>2. second \in {NotYet} \cup 0..LastSecond
    BY <1>0, ProxyLimits
  <2>3. account.key \in KeyIds /\ account.plan \in Plans
    BY AccountIs DEF RecentInv
  <2>4. HeldBounds'
    BY <1>0, <1>20, <2>2, <2>3 DEF HeldBounds
  <2>5. (\A j \in Chats : Fits(chat[j]))' /\ (\A u \in Tenants : Suits(shaped[u]))'
    BY <1>5, <1>6, <1>20 DEF Fits, Suits
  <2> QED BY <2>1, <2>4, <2>5 DEF ProxyBounds
<1>21. second \in 0..LastSecond
  BY <1>0, ProxyLimits
<1>22. CASE LookupNext
  <2>1. /\ heldTill' = heldTill \/ heldTill' = [heldTill EXCEPT ![account.key][account.plan] = second]
        /\ UNCHANGED <<second, month, policy, changedAt, chat, shaped>>
    BY <1>22 DEF LookupNext, KeyAnswered, CacheKey, DashboardFails, AskKey, AccountChanges,
                 meterVars, shapeVars
  <2> QED BY <1>20, <1>21, <2>1
<1>23. CASE WebhookNext
  <2>1. /\ heldTill' = [heldTill EXCEPT ![account.key][account.plan] = second]
        /\ UNCHANGED <<second, month, policy, changedAt, chat, shaped>>
    BY <1>23 DEF WebhookNext, meterVars, shapeVars
  <2> QED BY <1>20, <1>21, <2>1
<1>24. CASE SecondPasses
  <2>1. UNCHANGED <<heldTill, month, policy, changedAt, chat, shaped>>
    BY <1>24 DEF SecondPasses, lookupVars, meterVars, shapeVars
  <2>2. second' \in 0..LastSecond
    BY <1>0, <1>24, ProxyLimits DEF SecondPasses
  <2> QED BY <1>20, <2>1, <2>2
<1>25. CASE UNCHANGED proxyVars
  <2>1. UNCHANGED <<second, heldTill, month, policy, changedAt, chat, shaped>>
    BY <1>25 DEF proxyVars, lookupVars, meterVars, shapeVars
  <2> QED BY <1>20, <1>21, <2>1
<1> QED BY <1>18, <1>19, <1>22, <1>23, <1>24, <1>25 DEF ProxyNext

LEMMA ProxyTyped == CallInv /\ RecentInv /\ ProxyBounds => ProxyTypeOK
<1> SUFFICES ASSUME CallInv, RecentInv, ProxyBounds PROVE ProxyTypeOK
  OBVIOUS
<1>1. /\ AccountsTypeOK /\ CacheTyped /\ LookupTyped /\ HeldBounds
      /\ MeterTyped /\ ChatsTyped /\ ShapesTyped
  BY DEF CallInv, RecentInv, PlanInv, MeterInv, ShapeInv, ProxyBounds
<1>2. second \in 0..LastSecond /\ month \in 1..MaxMonth
  BY <1>1, ProxyLimits DEF ProxyBounds, ClockBounds, ShapesTyped
<1>3. chat \in [Chats -> ChatStates]
  <2> SUFFICES ASSUME NEW i \in Chats, chat[i] # NoChat PROVE chat[i] \in ChatStates
    BY <1>1 DEF ChatsTyped, ChatStates
  <2>1. /\ chat[i] \in ChatRows /\ chat[i].plan \in Nat /\ chat[i].round \in Nat
        /\ chat[i].plan <= MaxPolicy /\ chat[i].round < MaxRounds
    BY <1>1, ChatIs, ChatHas DEF ProxyBounds, Fits
  <2>2. chat[i].plan \in 0..MaxPolicy /\ chat[i].round \in 0..MaxRounds - 1
    BY <2>1, ProxyLimits
  <2> QED BY <2>1, <2>2 DEF ChatRows, ChatStates
<1>4. policy \in [Tenants -> 0..MaxPolicy] /\ changedAt \in [Tenants -> 0..LastSecond]
  <2>1. \A t \in Tenants : policy[t] \in 0..MaxPolicy /\ changedAt[t] \in 0..LastSecond
    BY <1>1, ProxyLimits DEF ShapesTyped, ProxyBounds, PolicyBounds
  <2> QED BY <1>1, <2>1 DEF ShapesTyped
<1>5. shaped \in [Tenants -> Entries(0..MaxPolicy)]
  <2> SUFFICES ASSUME NEW t \in Tenants, shaped[t] # NoEntry
               PROVE  shaped[t] \in [plan : 0..MaxPolicy, till : Nat]
    BY <1>1 DEF ShapesTyped, Entries
  <2>1. shaped[t] \in [plan : Nat, till : Nat] /\ shaped[t].plan <= MaxPolicy
    BY <1>1 DEF ShapesTyped, ProxyBounds, Suits
  <2>2. shaped[t].plan \in 0..MaxPolicy
    BY <2>1, ProxyLimits
  <2> QED BY <2>1, <2>2
<1> QED BY <1>1, <1>2, <1>3, <1>4, <1>5
        DEF ProxyTypeOK, CacheTyped, LookupTyped, HeldBounds, MeterTyped, ShapesTyped

(* The proxy's types, and that what it uses without asking anew was true   *)
(* not long ago (accounts_client.py, cache.py).                            *)
THEOREM ProxyIsRecent == ProxySpec => []ProxyKnowsRecent
<1>1. ProxyInit => RecentInv /\ ProxyBounds
  BY RecentStart, ProxyBoundsStart
<1>2. CallInv /\ RecentInv /\ ProxyBounds /\ [ProxyNext]_proxyVars
        => RecentInv' /\ ProxyBounds'
  BY RecentStep, ProxyBoundsNext
<1>3. CallInv /\ RecentInv /\ ProxyBounds => ProxyTypeOK
  BY ProxyTyped
<1>4. ProxySpec => []ProxyTypeOK
  BY <1>1, <1>2, <1>3, CallsHold, PTL DEF ProxySpec
<1> QED BY <1>4, PlansAreRecent, OldShapesGoAway, PTL DEF ProxyKnowsRecent

--------------------------------------------------------------------------------
(***************************************************************************)
(* Erasure.  What a job still has to delete is known, at every point, to   *)
(* the handler that will delete it; and what a completed job may have      *)
(* missed.                                                                 *)
(***************************************************************************)

RowKinds == {"workspace", "content", "workflow", "step", "lease", "letter"}

\* What job j has to delete and has not yet.
DueOf(j) == {x \in owed[j] : x[2] \notin Overlooked}

\* The workspace's handler has read the way to each row of its.
Found(j) ==
  \A x \in DueOf(j) : x[1] \in Workspaces =>
    /\ wsCall[j].at \in {"workflows", "steps", "delete"} => x[1] \in wsCall[j].spaces
    /\ wsCall[j].at \in {"steps", "delete"} /\ x[2] \in {"step", "lease"}
         => x[1] \in wsCall[j].flows
    /\ wsCall[j].at = "delete" /\ x[2] = "lease" => x[1] \in wsCall[j].steps
    /\ wsCall[j].at # "done"

\* A lease that is due has its step, and no cascade takes the one and leaves the
\* other.
Leased(j) ==
  \A w \in Workspaces : <<w, "lease">> \in owed[j] =>
    /\ <<w, "step">> \in rows
    /\ \A i \in Jobs : wsCall[i].at = "delete" /\ w \in wsCall[i].flows
                         => w \in wsCall[i].steps

\* The gateway's handler has each table of its before it.
Cleared(j) ==
  \A x \in DueOf(j) : x[1] = "gateway" =>
    /\ gwCall[j].at = "sent" => x[2] \in gwCall[j].tables
    /\ gwCall[j].at # "done"

Begun(j) ==
  /\ job[j].at \in {"none", "token", "consume", "create"} => owed[j] = {}
  /\ job[j].at \in {"none", "token", "consume", "create", "start"} =>
       wsCall[j].at = "none" /\ gwCall[j].at = "none"
  /\ job[j].at = "workspace" => gwCall[j].at = "none"
  /\ job[j].status = "completed" => job[j].at = "end"

\* A job that went past a service and left something there noted an error, or
\* had no URL of the service.
Noted(j) ==
  \A x \in DueOf(j) :
    /\ x[1] \in Workspaces /\ (job[j].at \in {"gateway", "identity", "record"}
                                 \/ job[j].status = "completed")
         => "workspace" \in job[j].errors \/ "workspace" \notin urls
    /\ x[1] = "gateway" /\ (job[j].at \in {"identity", "record"}
                              \/ job[j].status = "completed")
         => "gateway" \in job[j].errors \/ "gateway" \notin urls
    /\ x[1] = "identity" => job[j].at # "record" /\ job[j].status # "completed"

Known(j) ==
  owed[j] \subseteq rows /\ Found(j) /\ Leased(j) /\ Cleared(j) /\ Begun(j) /\ Noted(j)

ErasureInv == \A j \in Jobs : Known(j)
--------------------------------------------------------------------------------
(* The rows are pairs, and which they are.                                 *)
LEMMA ErasedRowsAre ==
  /\ Rows = (Workspaces \X RowKinds)
              \cup ({"gateway"} \X (GatewayTables \cup {"transactions"}))
              \cup ({"identity"} \X {"tenants", "issued_tokens", "export_jobs"})
  /\ Children = RowKinds \ {"workspace"}
<1>1. Children = RowKinds \ {"workspace"}
  BY DEF Children, Parent, RowKinds
<1> QED BY <1>1 DEF Rows, RowKinds

(* What a row needs, by its kind.                                          *)
LEMMA KeyOf ==
  /\ Parent["content"] = "workspace" /\ Parent["workflow"] = "workspace"
  /\ Parent["step"] = "workflow"
  /\ Parent["lease"] = "step" /\ Parent["letter"] = "step"
BY DEF Parent

(* A step has its workflow, a workflow and any content their workspace.    *)
LEMMA KeysAre ==
  ASSUME NEW stored, KeysHold(stored), NEW w
  PROVE  /\ <<w, "step">> \in stored => <<w, "workflow">> \in stored
         /\ <<w, "workflow">> \in stored => <<w, "workspace">> \in stored
         /\ <<w, "content">> \in stored => <<w, "workspace">> \in stored
<1>1. \A x \in stored : x[2] = "step" => <<x[1], "workflow">> \in stored
  BY KeyOf DEF KeysHold, Keyed
<1>2. \A x \in stored : x[2] \in {"workflow", "content"} =>
        <<x[1], "workspace">> \in stored
  BY KeyOf DEF KeysHold, Keyed
<1> QED BY <1>1, <1>2

(* A row that was not there brings its parent.                             *)
LEMMA KeysKept ==
  ASSUME NEW x \in Rows, KeysHold(rows), StoreRow(x)
  PROVE  KeysHold(rows')
<1>1. Keyed \subseteq Children
  BY DEF Keyed, Children, Parent
<1> QED BY <1>1 DEF KeysHold, StoreRow

(* Whatever one erases leaves less due to every job.                       *)
LEMMA LessDue ==
  ASSUME NEW gone, Erase(gone)
  PROVE  /\ rows' \subseteq rows
         /\ \A j \in Jobs : owed'[j] = owed[j] \ gone /\ DueOf(j)' = DueOf(j) \ gone
  BY DEF Erase, DueOf
--------------------------------------------------------------------------------
(* What a step makes of a handler's record is one of its type.             *)
LEMMA JobMade ==
  ASSUME NEW r \in JobRecords, NEW to \in JobPoints
  PROVE  /\ [r EXCEPT !.at = to] \in JobRecords
         /\ \A s \in {"none", "pending", "in_progress", "completed", "failed"} :
              [r EXCEPT !.at = to, !.status = s] \in JobRecords
         /\ \A e \in SUBSET {"workspace", "gateway"} :
              [r EXCEPT !.at = to, !.errors = e] \in JobRecords
         /\ r.at \in JobPoints /\ r.errors \in SUBSET {"workspace", "gateway"}
BY DEF JobRecords

LEMMA WsCallMade ==
  ASSUME NEW r \in WsCalls, NEW to \in CallPoints
  PROVE  /\ [r EXCEPT !.at = to] \in WsCalls
         /\ \A s \in SUBSET Workspaces :
              /\ [r EXCEPT !.at = to, !.spaces = s] \in WsCalls
              /\ [r EXCEPT !.at = to, !.flows = s] \in WsCalls
              /\ [r EXCEPT !.at = to, !.steps = s] \in WsCalls
         /\ r.spaces \subseteq Workspaces /\ r.flows \subseteq Workspaces
         /\ r.steps \subseteq Workspaces
BY DEF WsCalls

LEMMA GwCallMade ==
  ASSUME NEW r \in GwCalls
  PROVE  /\ \A to \in {"none", "sent", "done", "failed"} :
              [r EXCEPT !.at = to] \in GwCalls
         /\ \A t : [r EXCEPT !.tables = @ \ {t}] \in GwCalls
         /\ [at |-> "sent", tables |-> GatewayTables] \in GwCalls
BY DEF GwCalls

(* Every variable keeps its type; every row keeps what it needs.           *)
THEOREM ErasureTypeCorrect == ErasureSpec => []ErasureTypeOK
<1>1. ErasureInit => ErasureTypeOK
  <2>1. NoJob \in JobRecords /\ NoCall \in WsCalls
    BY DEF NoJob, NoCall, JobRecords, WsCalls, JobPoints, CallPoints
  <2>2. [at |-> "none", tables |-> {}] \in GwCalls
    BY DEF GwCalls
  <2>3. ErasureInit => /\ job \in [Jobs -> JobRecords] /\ wsCall \in [Jobs -> WsCalls]
                       /\ gwCall \in [Jobs -> GwCalls]
    BY <2>1, <2>2 DEF ErasureInit
  <2> QED BY <2>3 DEF ErasureInit, ErasureTypeOK
<1>2. ErasureTypeOK /\ [ErasureNext]_erasureVars => ErasureTypeOK'
  <2> SUFFICES ASSUME ErasureTypeOK, [ErasureNext]_erasureVars
               PROVE  ErasureTypeOK'
    OBVIOUS
  <2>0. UNCHANGED urls
    BY DEF ErasureNext, erasureVars
  <2> USE <2>0 DEF ErasureTypeOK
  <2>1. ASSUME NEW x \in Rows, StoreRow(x) PROVE ErasureTypeOK'
    <3>1. KeysHold(rows') /\ rows' \subseteq Rows
      BY <2>1, KeysKept DEF StoreRow
    <3> QED BY <3>1, <2>1 DEF StoreRow
  <2>2. CASE Confirm \/ ConfirmExpires
    BY <2>2 DEF Confirm, ConfirmExpires
  <2>3. CASE IdentityStops
    <3>1. job' \in [Jobs -> JobRecords]
      BY <2>3, JobMade DEF IdentityStops, JobPoints
    <3> QED BY <3>1, <2>3 DEF IdentityStops
  <2>4. ASSUME NEW j \in Jobs,
               AskErasure(j) \/ ReadToken(j) \/ ConsumeToken(j) \/ CreateJob(j)
        PROVE  ErasureTypeOK'
    <3>1. job' \in [Jobs -> JobRecords]
      <4>1. CASE CreateJob(j)
        <5>1. [job[j] EXCEPT !.at = "start", !.status = "pending"] \in JobRecords
          BY JobMade DEF JobPoints
        <5> QED BY <4>1, <5>1 DEF CreateJob
      <4>2. ASSUME NEW to \in JobPoints, Moves(j, to) PROVE job' \in [Jobs -> JobRecords]
        <5>1. [job[j] EXCEPT !.at = to] \in JobRecords
          BY JobMade
        <5> QED BY <4>2, <5>1 DEF Moves
      <4>3. CASE ~CreateJob(j)
        BY <2>4, <4>2, <4>3 DEF AskErasure, ReadToken, ConsumeToken, JobPoints
      <4> QED BY <4>1, <4>3
    <3>2. owed' \in [Jobs -> SUBSET Rows]
      <4>1. Owed \in SUBSET Rows
        BY DEF Owed
      <4>2. owed' = owed \/ owed' = [owed EXCEPT ![j] = Owed]
        BY <2>4 DEF AskErasure, ReadToken, ConsumeToken, CreateJob
      <4> QED BY <4>1, <4>2
    <3>3. confirmed' \in BOOLEAN
      BY <2>4 DEF AskErasure, ReadToken, ConsumeToken, CreateJob
    <3> QED BY <3>1, <3>2, <3>3, <2>4
            DEF AskErasure, ReadToken, ConsumeToken, CreateJob
  <2>5. ASSUME NEW j \in Jobs,
               \/ StartJob(j) \/ SkipWorkspace(j) \/ WorkspaceAnswers(j)
               \/ WorkspaceFails(j) \/ GatewayAnswers(j) \/ GatewayFails(j)
               \/ CompleteJob(j) \/ FailJob(j)
        PROVE  ErasureTypeOK'
    <3>1. CASE StartJob(j)
      BY <3>1, JobMade, WsCallMade DEF StartJob, JobPoints, CallPoints
    <3>2. CASE SkipWorkspace(j) \/ WorkspaceAnswers(j) \/ WorkspaceFails(j)
      <4>1. PICK e \in SUBSET {"workspace", "gateway"} : PastWorkspace(j, e)
        BY <3>2 DEF SkipWorkspace, WorkspaceAnswers, WorkspaceFails
      <4>2. \A to \in {"gateway", "identity"} :
              [at |-> to, status |-> "in_progress", errors |-> e] \in JobRecords
        BY DEF JobRecords, JobPoints
      <4> QED BY <4>1, <4>2, GwCallMade DEF PastWorkspace, AskGateway, SkipGateway
    <3>3. CASE GatewayAnswers(j)
      BY <3>3, JobMade DEF GatewayAnswers, Moves, JobPoints
    <3>4. CASE GatewayFails(j)
      <4>1. job[j].errors \cup {"gateway"} \in SUBSET {"workspace", "gateway"}
        BY JobMade DEF JobPoints
      <4>2. [job[j] EXCEPT !.at = "identity", !.errors = @ \cup {"gateway"}] \in JobRecords
        BY <4>1, JobMade DEF JobPoints
      <4> QED BY <3>4, <4>2 DEF GatewayFails
    <3>5. CASE CompleteJob(j) \/ FailJob(j)
      <4>1. /\ [job[j] EXCEPT !.at = "end", !.status = "completed"] \in JobRecords
            /\ [job[j] EXCEPT !.at = "end", !.status = "failed"] \in JobRecords
        BY JobMade DEF JobPoints
      <4> QED BY <3>5, <4>1 DEF CompleteJob, FailJob
    <3> QED BY <2>5, <3>1, <3>2, <3>3, <3>4, <3>5
  <2>6. ASSUME NEW j \in Jobs, DeleteIdentityData(j) PROVE ErasureTypeOK'
    <3>1. KeysHold(rows')
      <4>1. \A x \in Rows : x[1] = "identity" => x[2] \notin Children
        BY ErasureAssumption, ErasedRowsAre DEF RowKinds
      <4> QED BY <2>6, <4>1, ErasureAssumption, ErasedRowsAre
              DEF DeleteIdentityData, Erase, KeysHold, Keyed, Tenant
    <3> QED BY <2>6, <3>1, JobMade DEF DeleteIdentityData, Erase, Moves, JobPoints
  <2>7. ASSUME NEW j \in Jobs,
               ReadWorkspaces(j) \/ ReadWorkflows(j) \/ ReadSteps(j) \/ CascadeFails(j)
        PROVE  ErasureTypeOK'
    <3>1. CASE ReadWorkspaces(j)
      BY <3>1, WsCallMade DEF ReadWorkspaces, Storing, CallPoints
    <3>2. CASE ReadWorkflows(j)
      BY <3>2, WsCallMade DEF ReadWorkflows, Storing, CallPoints
    <3>3. CASE ReadSteps(j)
      BY <3>3, WsCallMade DEF ReadSteps, Storing, CallPoints
    <3>4. CASE CascadeFails(j)
      BY <3>4, WsCallMade DEF CascadeFails, CallPoints
    <3> QED BY <2>7, <3>1, <3>2, <3>3, <3>4
  <2>8. ASSUME NEW j \in Jobs, Cascade(j) PROVE ErasureTypeOK'
    BY <2>8, WsCallMade DEF Cascade, Erase, CallPoints
  <2>9. ASSUME NEW j \in Jobs, NEW t \in GatewayTables, ClearTable(j, t)
        PROVE  ErasureTypeOK'
    <3>1. KeysHold(rows')
      <4>1. \A x \in Rows : x[2] \in Keyed => <<x[1], Parent[x[2]]>> # <<"gateway", t>>
        BY ErasureAssumption, ErasedRowsAre, KeyOf DEF Keyed, RowKinds
      <4> QED BY <2>9, <4>1 DEF ClearTable, Erase, KeysHold
    <3> QED BY <2>9, <3>1, GwCallMade DEF ClearTable, Erase
  <2>10. ASSUME NEW j \in Jobs, ClearCache(j) \/ ClearFails(j) PROVE ErasureTypeOK'
    <3>1. /\ [gwCall[j] EXCEPT !.at = "done"] \in GwCalls
          /\ [gwCall[j] EXCEPT !.at = "failed"] \in GwCalls
      BY GwCallMade
    <3> QED BY <2>10, <3>1 DEF ClearCache, ClearFails
  <2>11. CASE UNCHANGED erasureVars
    BY <2>11 DEF erasureVars
  <2> QED BY <2>1, <2>2, <2>3, <2>4, <2>5, <2>6, <2>7, <2>8, <2>9, <2>10, <2>11
          DEF ErasureNext
<1> QED BY <1>1, <1>2, PTL DEF ErasureSpec
--------------------------------------------------------------------------------
(* More rows, or none, disturb nothing.                                    *)
LEMMA TenantKeeps ==
  ASSUME ErasureInv, UNCHANGED urls, NEW i \in Jobs,
         \/ \E x \in Rows : StoreRow(x)
         \/ Confirm \/ ConfirmExpires \/ UNCHANGED erasureVars
  PROVE  Known(i)'
<1>1. /\ rows \subseteq rows' /\ owed' = owed
      /\ job' = job /\ wsCall' = wsCall /\ gwCall' = gwCall
  BY DEF StoreRow, Confirm, ConfirmExpires, erasureVars
<1>2. Known(i)
  BY DEF ErasureInv
<1>3. DueOf(i)' = DueOf(i)
  BY <1>1 DEF DueOf
<1>4. Found(i)' /\ Cleared(i)' /\ Begun(i)' /\ Noted(i)'
  BY <1>1, <1>2, <1>3 DEF Known, Found, Cleared, Begun, Noted
<1>5. owed'[i] \subseteq rows' /\ Leased(i)'
  BY <1>1, <1>2 DEF Known, Leased
<1> QED BY <1>4, <1>5 DEF Known

(* What a step says of the record of the one job it moves.                 *)
LEMMA JobMoves ==
  ASSUME ErasureTypeOK, NEW j \in Jobs, NEW to, Moves(j, to)
  PROVE  /\ job'[j].at = to /\ job'[j].status = job[j].status
         /\ job'[j].errors = job[j].errors
         /\ \A i \in Jobs : i # j => job'[i] = job[i]
BY DEF ErasureTypeOK, JobRecords, Moves

(* Before the job is recorded nothing is due; then what is stored is, and  *)
(* no handler has it yet.                                                  *)
LEMMA AskingKeeps ==
  ASSUME ErasureTypeOK, ErasureInv, UNCHANGED urls, NEW i \in Jobs, NEW j \in Jobs,
         AskErasure(j) \/ ReadToken(j) \/ ConsumeToken(j)
  PROVE  Known(i)'
<1>1. /\ rows' = rows /\ owed' = owed /\ wsCall' = wsCall /\ gwCall' = gwCall
      /\ \E to \in {"none", "token", "consume", "create"} : Moves(j, to)
      /\ job[j].at \in {"none", "token", "consume"}
  BY DEF AskErasure, ReadToken, ConsumeToken
<1>2. /\ job'[j].at \in {"none", "token", "consume", "create"}
      /\ job'[j].status = job[j].status
      /\ \A k \in Jobs : k # j => job'[k] = job[k]
  BY <1>1, JobMoves
<1>3. Known(i) /\ Known(j)
  BY DEF ErasureInv
<1>4. DueOf(i)' = DueOf(i) /\ (i = j => DueOf(i) = {})
  BY <1>1, <1>3 DEF DueOf, Known, Begun
<1>5. Found(i)' /\ Cleared(i)' /\ Leased(i)' /\ owed'[i] \subseteq rows'
  BY <1>1, <1>3, <1>4 DEF Known, Found, Cleared, Leased
<1>6. Begun(i)'
  BY <1>1, <1>2, <1>3 DEF Known, Begun
<1>7. Noted(i)'
  BY <1>2, <1>3, <1>4 DEF Known, Noted
<1> QED BY <1>5, <1>6, <1>7 DEF Known

LEMMA CreateKeeps ==
  ASSUME ErasureTypeOK, ErasureInv, UNCHANGED urls, NEW i \in Jobs, NEW j \in Jobs, CreateJob(j)
  PROVE  Known(i)'
<1>1. /\ rows' = rows /\ wsCall' = wsCall /\ gwCall' = gwCall
      /\ job[j].at = "create" /\ owed' = [owed EXCEPT ![j] = Owed]
  BY DEF CreateJob
<1>2. /\ job'[j].at = "start" /\ job'[j].status = "pending"
      /\ \A k \in Jobs : k # j => job'[k] = job[k]
  BY DEF CreateJob, ErasureTypeOK, JobRecords
<1>3. /\ owed'[j] = Owed
      /\ \A k \in Jobs : k # j => owed'[k] = owed[k]
  BY <1>1 DEF ErasureTypeOK
<1>4. Known(i) /\ Known(j)
  BY DEF ErasureInv
<1>5. wsCall[j].at = "none" /\ gwCall[j].at = "none"
  BY <1>1, <1>4 DEF Known, Begun
<1>6. CASE i = j
  <2>1. owed'[i] \subseteq rows' /\ Leased(i)'
    BY <1>1, <1>3, <1>6 DEF Owed, Leased, CascadeRuns
  <2>2. Found(i)' /\ Cleared(i)'
    BY <1>1, <1>5, <1>6 DEF Found, Cleared
  <2>3. Begun(i)' /\ Noted(i)'
    BY <1>1, <1>2, <1>5, <1>6 DEF Begun, Noted
  <2> QED BY <2>1, <2>2, <2>3 DEF Known
<1>7. CASE i # j
  <2>1. DueOf(i)' = DueOf(i)
    BY <1>3, <1>7 DEF DueOf
  <2>2. Found(i)' /\ Cleared(i)' /\ Leased(i)' /\ owed'[i] \subseteq rows'
    BY <1>1, <1>3, <1>4, <1>7, <2>1 DEF Known, Found, Cleared, Leased
  <2>3. Begun(i)' /\ Noted(i)'
    BY <1>1, <1>2, <1>3, <1>4, <1>7, <2>1 DEF Known, Begun, Noted
  <2> QED BY <2>2, <2>3 DEF Known
<1> QED BY <1>6, <1>7
--------------------------------------------------------------------------------
(* The job goes on to the next service only when the last one answered,    *)
(* and so has nothing due, with an error noted for it, or when there is no *)
(* URL of it.                                                              *)
LEMMA StartKeeps ==
  ASSUME ErasureTypeOK, ErasureInv, UNCHANGED urls, NEW i \in Jobs, NEW j \in Jobs, StartJob(j)
  PROVE  Known(i)'
<1>1. /\ rows' = rows /\ owed' = owed /\ gwCall' = gwCall /\ job[j].at = "start"
  BY DEF StartJob
<1>2. /\ job'[j].at = "workspace" /\ job'[j].status = "in_progress"
      /\ \A k \in Jobs : k # j => job'[k] = job[k]
  BY DEF StartJob, ErasureTypeOK, JobRecords
<1>3. /\ wsCall'[j].at = "sent"
      /\ \A k \in Jobs : k # j => wsCall'[k] = wsCall[k]
  BY DEF StartJob, ErasureTypeOK, WsCalls
<1>4. Known(i) /\ gwCall[j].at = "none"
  BY <1>1 DEF ErasureInv, Known, Begun
<1>5. DueOf(i)' = DueOf(i)
  BY <1>1 DEF DueOf
<1>6. Cleared(i)' /\ owed'[i] \subseteq rows'
  BY <1>1, <1>4, <1>5 DEF Known, Cleared
<1>7. Leased(i)'
  BY <1>1, <1>3, <1>4 DEF Known, Leased
<1>8. Found(i)'
  BY <1>3, <1>4, <1>5 DEF Known, Found
<1>9. Begun(i)' /\ Noted(i)'
  BY <1>1, <1>2, <1>3, <1>4, <1>5 DEF Known, Begun, Noted
<1> QED BY <1>6, <1>7, <1>8, <1>9 DEF Known

LEMMA WorkspaceKeeps ==
  ASSUME ErasureTypeOK, ErasureInv, UNCHANGED urls, NEW i \in Jobs, NEW j \in Jobs,
         SkipWorkspace(j) \/ WorkspaceAnswers(j) \/ WorkspaceFails(j)
  PROVE  Known(i)'
<1>1. PICK e \in SUBSET {"workspace", "gateway"} :
        /\ PastWorkspace(j, e) /\ job[j].at \in {"start", "workspace"}
        /\ \/ e = {"workspace"} \/ wsCall[j].at = "done"
           \/ job[j].at = "start" /\ "workspace" \notin urls
  BY DEF SkipWorkspace, WorkspaceAnswers, WorkspaceFails
<1>2. rows' = rows /\ owed' = owed /\ wsCall' = wsCall
  BY <1>1 DEF PastWorkspace
<1>3. /\ job'[j].status = "in_progress" /\ job'[j].errors = e
      /\ \/ job'[j].at = "gateway"
         \/ job'[j].at = "identity" /\ "gateway" \notin urls
      /\ \A k \in Jobs : k # j => job'[k] = job[k]
  BY <1>1 DEF PastWorkspace, AskGateway, SkipGateway, ErasureTypeOK
<1>4. /\ gwCall'[j] = gwCall[j] \/ gwCall'[j] = [at |-> "sent", tables |-> GatewayTables]
      /\ \A k \in Jobs : k # j => gwCall'[k] = gwCall[k]
  BY <1>1 DEF PastWorkspace, AskGateway, SkipGateway, ErasureTypeOK
<1>5. Known(i) /\ Known(j) /\ job[j].status # "completed"
  BY <1>1 DEF ErasureInv, Known, Begun
<1>6. DueOf(i)' = DueOf(i)
  BY <1>2 DEF DueOf
<1>7. Found(i)' /\ Leased(i)' /\ owed'[i] \subseteq rows'
  BY <1>2, <1>5, <1>6 DEF Known, Found, Leased
<1>8. Cleared(i)'
  <2>1. \A x \in DueOf(j) : x[1] = "gateway" => x[2] \in GatewayTables
    BY ErasedRowsAre, ErasureAssumption DEF DueOf, Overlooked, ErasureTypeOK
  <2> QED BY <1>4, <1>5, <1>6, <2>1 DEF Known, Cleared
<1>9. Begun(i)'
  BY <1>1, <1>2, <1>3, <1>4, <1>5 DEF Known, Begun
<1>10. Noted(i)'
  <2>1. \A x \in DueOf(j) : x[1] \in Workspaces =>
          "workspace" \in e \/ "workspace" \notin urls
    BY <1>1, <1>5 DEF Known, Found
  <2>2. \A x \in DueOf(j) : x[1] \in Workspaces => x[1] # "identity" /\ x[1] # "gateway"
    BY ErasureAssumption
  <2> QED BY <1>1, <1>3, <1>5, <1>6, <2>1, <2>2 DEF Known, Noted
<1> QED BY <1>7, <1>8, <1>9, <1>10 DEF Known

LEMMA GatewayKeeps ==
  ASSUME ErasureTypeOK, ErasureInv, UNCHANGED urls, NEW i \in Jobs, NEW j \in Jobs,
         GatewayAnswers(j) \/ GatewayFails(j)
  PROVE  Known(i)'
<1>1. /\ rows' = rows /\ owed' = owed /\ wsCall' = wsCall /\ gwCall' = gwCall
      /\ job[j].at = "gateway"
  BY DEF GatewayAnswers, GatewayFails
<1>2. /\ job'[j].at = "identity" /\ job'[j].status = job[j].status
      /\ job[j].errors \subseteq job'[j].errors
      /\ "gateway" \in job'[j].errors \/ gwCall[j].at = "done"
      /\ \A k \in Jobs : k # j => job'[k] = job[k]
  BY DEF GatewayAnswers, GatewayFails, Moves, ErasureTypeOK, JobRecords
<1>3. Known(i) /\ Known(j)
  BY DEF ErasureInv
<1>4. DueOf(i)' = DueOf(i)
  BY <1>1 DEF DueOf
<1>5. Found(i)' /\ Leased(i)' /\ Cleared(i)' /\ owed'[i] \subseteq rows'
  BY <1>1, <1>3, <1>4 DEF Known, Found, Leased, Cleared
<1>6. Begun(i)'
  BY <1>1, <1>2, <1>3 DEF Known, Begun
<1>7. Noted(i)'
  <2>1. \A x \in DueOf(j) : x[1] = "gateway" => "gateway" \in job'[j].errors
    BY <1>2, <1>3 DEF Known, Cleared
  <2> QED BY <1>1, <1>2, <1>3, <1>4, <2>1 DEF Known, Noted, Begun
<1> QED BY <1>5, <1>6, <1>7 DEF Known

(* A job that ends without having asked everyone is not completed.         *)
LEMMA EndKeeps ==
  ASSUME ErasureTypeOK, ErasureInv, UNCHANGED urls, NEW i \in Jobs,
         (\E j \in Jobs : CompleteJob(j) \/ FailJob(j)) \/ IdentityStops
  PROVE  Known(i)'
<1>1. rows' = rows /\ owed' = owed /\ wsCall' = wsCall /\ gwCall' = gwCall
  BY DEF CompleteJob, FailJob, IdentityStops
<1> DEFINE Ended == /\ job'[i] = job[i] \/ job'[i].at = "end"
                    /\ job'[i].errors = job[i].errors
                    /\ job'[i].status = "completed" =>
                         job[i].status = "completed" \/ job[i].at = "record"
<1>2. Ended
  <2>1. CASE IdentityStops
    BY <2>1 DEF IdentityStops, ErasureTypeOK, JobRecords
  <2>2. ASSUME NEW j \in Jobs, CompleteJob(j) PROVE Ended
    BY <2>2 DEF CompleteJob, ErasureTypeOK, JobRecords
  <2>3. ASSUME NEW j \in Jobs, FailJob(j) PROVE Ended
    BY <2>3 DEF FailJob, ErasureTypeOK, JobRecords
  <2> QED BY <2>1, <2>2, <2>3
<1>3. Known(i)
  BY DEF ErasureInv
<1>4. DueOf(i)' = DueOf(i)
  BY <1>1 DEF DueOf
<1>5. Found(i)' /\ Leased(i)' /\ Cleared(i)' /\ owed'[i] \subseteq rows'
  BY <1>1, <1>3, <1>4 DEF Known, Found, Leased, Cleared
<1>6. Begun(i)' /\ Noted(i)'
  BY <1>1, <1>2, <1>3, <1>4 DEF Known, Begun, Noted
<1> QED BY <1>5, <1>6 DEF Known
--------------------------------------------------------------------------------
(* What is taken from the rows is due no longer; a handler that has not    *)
(* moved still has what it needs for the rest.                             *)
LEMMA EraseKeeps ==
  ASSUME ErasureTypeOK, ErasureInv, UNCHANGED urls, NEW i \in Jobs, NEW gone, Erase(gone),
         wsCall'[i] = wsCall[i],
         gwCall'[i].at = gwCall[i].at,
         \A x \in DueOf(i)' : x[1] = "gateway" /\ x[2] \in gwCall[i].tables
                              => x[2] \in gwCall'[i].tables
  PROVE  /\ owed'[i] \subseteq rows' /\ Found(i)' /\ Cleared(i)'
         /\ (job'[i] = job[i] => Begun(i)' /\ Noted(i)')
<1>1. DueOf(i)' = DueOf(i) \ gone /\ owed'[i] = owed[i] \ gone /\ rows' = rows \ gone
  BY LessDue DEF Erase
<1>2. Known(i)
  BY DEF ErasureInv
<1>3. owed'[i] \subseteq rows' /\ Found(i)'
  BY <1>1, <1>2 DEF Known, Found
<1>4. Cleared(i)'
  BY <1>1, <1>2 DEF Known, Cleared
<1>5. ASSUME job'[i] = job[i] PROVE Begun(i)' /\ Noted(i)'
  BY <1>1, <1>2, <1>5 DEF Known, Begun, Noted
<1> QED BY <1>3, <1>4, <1>5

(* Neither identity nor the gateway takes the step of a lease.             *)
LEMMA LeasesStay ==
  ASSUME ErasureTypeOK, ErasureInv, NEW i \in Jobs, NEW gone, Erase(gone),
         \A w \in Workspaces : <<w, "step">> \notin gone, wsCall' = wsCall
  PROVE  Leased(i)'
<1>1. Leased(i)
  BY DEF ErasureInv, Known
<1>2. owed'[i] = owed[i] \ gone /\ rows' = rows \ gone
  BY LessDue DEF Erase
<1> QED BY <1>1, <1>2 DEF Leased

LEMMA IdentityKeeps ==
  ASSUME ErasureTypeOK, ErasureInv, UNCHANGED urls, NEW i \in Jobs, NEW j \in Jobs,
         DeleteIdentityData(j)
  PROVE  Known(i)'
<1> DEFINE gone == {Tenant, <<"identity", "issued_tokens">>}
<1>1. /\ Erase(gone) /\ Moves(j, "record") /\ job[j].at = "identity"
      /\ wsCall' = wsCall /\ gwCall' = gwCall
  BY DEF DeleteIdentityData
<1>2. /\ owed'[i] \subseteq rows' /\ Found(i)' /\ Cleared(i)'
      /\ (job'[i] = job[i] => Begun(i)' /\ Noted(i)')
  BY <1>1, EraseKeeps
<1>3. Leased(i)'
  <2>1. \A w \in Workspaces : <<w, "step">> \notin gone
    BY DEF Tenant
  <2> QED BY <1>1, <2>1, LeasesStay
<1>4. /\ job'[j].at = "record" /\ job'[j].status = job[j].status
      /\ job'[j].errors = job[j].errors
      /\ \A k \in Jobs : k # j => job'[k] = job[k]
  BY <1>1, JobMoves
<1>5. ASSUME i = j PROVE Begun(i)' /\ Noted(i)'
  <2>1. Known(j)
    BY DEF ErasureInv
  <2>2. Begun(j)'
    BY <1>1, <1>4, <2>1 DEF Known, Begun
  <2>3. \A x \in DueOf(j)' : x \in DueOf(j) /\ x[1] # "identity"
    <3>1. DueOf(j)' = DueOf(j) \ gone
      BY <1>1, LessDue
    <3>2. \A x \in DueOf(j) : x[1] = "identity" => x \in gone
      BY ErasedRowsAre, ErasureAssumption DEF DueOf, Overlooked, ErasureTypeOK, Tenant
    <3> QED BY <3>1, <3>2
  <2>4. Noted(j)'
    BY <1>1, <1>4, <2>1, <2>3 DEF Known, Noted, Begun
  <2> QED BY <1>5, <2>2, <2>4
<1> QED BY <1>2, <1>3, <1>4, <1>5 DEF Known

LEMMA ClearKeeps ==
  ASSUME ErasureTypeOK, ErasureInv, UNCHANGED urls, NEW i \in Jobs, NEW j \in Jobs,
         \/ \E t \in GatewayTables : ClearTable(j, t)
         \/ ClearCache(j) \/ ClearFails(j)
  PROVE  Known(i)'
<1>1. CASE \E t \in GatewayTables : ClearTable(j, t)
  <2>1. PICK t \in GatewayTables : ClearTable(j, t)
    BY <1>1
  <2> DEFINE gone == {<<"gateway", t>>}
  <2>2. Erase(gone) /\ job' = job /\ wsCall' = wsCall
    BY <2>1 DEF ClearTable
  <2>3. /\ gwCall'[j].at = gwCall[j].at /\ gwCall'[j].tables = gwCall[j].tables \ {t}
        /\ \A k \in Jobs : k # j => gwCall'[k] = gwCall[k]
    BY <2>1 DEF ClearTable, ErasureTypeOK, GwCalls
  <2>4. \A x \in DueOf(i)' : x[1] = "gateway" /\ x[2] \in gwCall[i].tables
                             => x[2] \in gwCall'[i].tables
    <3>1. DueOf(i)' = DueOf(i) \ gone
      BY <2>2, LessDue
    <3>2. \A x \in DueOf(i) : x \notin gone /\ x[1] = "gateway" => x[2] # t
      BY ErasedRowsAre DEF DueOf, ErasureTypeOK
    <3> QED BY <2>3, <3>1, <3>2
  <2>5. \A w \in Workspaces : <<w, "step">> \notin gone
    BY ErasureAssumption
  <2>6. gwCall'[i].at = gwCall[i].at
    BY <2>3
  <2> HIDE DEF gone
  <2> QED BY <2>2, <2>4, <2>5, <2>6, EraseKeeps, LeasesStay DEF Known
<1>2. CASE ClearCache(j) \/ ClearFails(j)
  <2>1. /\ rows' = rows /\ owed' = owed /\ job' = job /\ wsCall' = wsCall
        /\ gwCall[j].at = "sent" /\ gwCall'[j].at \in {"done", "failed"}
        /\ gwCall'[j].at = "done" => gwCall[j].tables = {}
        /\ \A k \in Jobs : k # j => gwCall'[k] = gwCall[k]
    BY <1>2 DEF ClearCache, ClearFails, ErasureTypeOK, GwCalls
  <2>2. Known(i) /\ Known(j)
    BY DEF ErasureInv
  <2>3. DueOf(i)' = DueOf(i)
    BY <2>1 DEF DueOf
  <2>4. Found(i)' /\ Leased(i)' /\ Noted(i)' /\ owed'[i] \subseteq rows'
    BY <2>1, <2>2, <2>3 DEF Known, Found, Leased, Noted
  <2>5. Cleared(i)' /\ Begun(i)'
    BY <2>1, <2>2, <2>3 DEF Known, Cleared, Begun
  <2> QED BY <2>4, <2>5 DEF Known
<1> QED BY <1>1, <1>2
--------------------------------------------------------------------------------
(* The workspace's handler reads the way to every row that is due before   *)
(* it deletes any.                                                         *)
LEMMA ReadKeeps ==
  ASSUME ErasureTypeOK, ErasureInv, UNCHANGED urls, NEW i \in Jobs, NEW j \in Jobs,
         ReadWorkspaces(j) \/ ReadWorkflows(j) \/ ReadSteps(j) \/ CascadeFails(j)
  PROVE  Known(i)'
<1>1. /\ rows' = rows /\ owed' = owed /\ job' = job /\ gwCall' = gwCall
      /\ wsCall[j].at \in {"sent", "workflows", "steps", "delete"}
  BY DEF ReadWorkspaces, ReadWorkflows, ReadSteps, CascadeFails, ErasureTypeOK,
         WsCalls, CallPoints
<1>2. Known(i) /\ Known(j)
  BY DEF ErasureInv
<1>3. DueOf(i)' = DueOf(i)
  BY <1>1 DEF DueOf
<1>4. Cleared(i)' /\ Noted(i)' /\ owed'[i] \subseteq rows'
  BY <1>1, <1>2, <1>3 DEF Known, Cleared, Noted
<1>5. \A k \in Jobs : k # j => wsCall'[k] = wsCall[k]
  BY DEF ReadWorkspaces, ReadWorkflows, ReadSteps, CascadeFails, ErasureTypeOK
<1>6. Begun(i)'
  BY <1>1, <1>2, <1>5 DEF Known, Begun
\* Where a row is due, its way is stored.
<1>7. \A w \in Workspaces :
        /\ \A k \in {"content", "workflow"} :
             <<w, k>> \in rows => <<w, "workspace">> \in rows
        /\ <<w, "step">> \in rows => <<w, "workflow">> \in rows
  BY KeysAre DEF ErasureTypeOK
<1>8. \A x \in DueOf(j) : x[1] \in Workspaces =>
        /\ x \in rows /\ x = <<x[1], x[2]>>
        /\ x[2] \in {"workspace", "content", "workflow", "step", "lease"}
        /\ x[2] = "lease" => <<x[1], "step">> \in rows
  <2>1. \A x \in DueOf(j) : x \in owed[j] /\ x \in rows /\ x \in Rows
    BY <1>2 DEF DueOf, Known, ErasureTypeOK
  <2>2. \A x \in Rows : x[1] \in Workspaces => x = <<x[1], x[2]>> /\ x[2] \in RowKinds
    BY ErasedRowsAre, ErasureAssumption
  <2>3. \A x \in DueOf(j) : x[2] # "letter"
    BY DEF DueOf, Overlooked
  <2>4. \A w \in Workspaces : <<w, "lease">> \in owed[j] => <<w, "step">> \in rows
    BY <1>2 DEF Known, Leased
  <2> QED BY <2>1, <2>2, <2>3, <2>4 DEF RowKinds
<1>9. CASE ReadWorkspaces(j)
  <2>1. /\ wsCall'[j].at = "workflows"
        /\ wsCall'[j].spaces = {w \in Workspaces : <<w, "workspace">> \in rows}
    BY <1>9 DEF ReadWorkspaces, Storing, ErasureTypeOK, WsCalls
  <2>2. Leased(i)'
    BY <1>1, <1>2, <1>5, <2>1 DEF Known, Leased
  <2>3. \A x \in DueOf(j) : x[1] \in Workspaces => x[1] \in wsCall'[j].spaces
    BY <1>7, <1>8, <2>1
  <2>4. Found(i)'
    BY <1>2, <1>3, <1>5, <2>1, <2>3 DEF Known, Found
  <2> QED BY <1>4, <1>6, <2>2, <2>4 DEF Known
<1>10. CASE ReadWorkflows(j)
  <2>1. /\ wsCall[j].at = "workflows"
        /\ wsCall'[j].at = "steps" /\ wsCall'[j].spaces = wsCall[j].spaces
        /\ wsCall'[j].flows = {w \in wsCall[j].spaces : <<w, "workflow">> \in rows}
    BY <1>10 DEF ReadWorkflows, Storing, ErasureTypeOK, WsCalls
  <2>2. Leased(i)'
    BY <1>1, <1>2, <1>5, <2>1 DEF Known, Leased
  <2>3. \A x \in DueOf(j) : x[1] \in Workspaces => x[1] \in wsCall[j].spaces
    BY <1>2, <2>1 DEF Known, Found
  <2>4. \A x \in DueOf(j) : x[1] \in Workspaces /\ x[2] \in {"step", "lease"}
                            => x[1] \in wsCall'[j].flows
    BY <1>7, <1>8, <2>1, <2>3
  <2>5. Found(i)'
    BY <1>2, <1>3, <1>5, <2>1, <2>3, <2>4 DEF Known, Found
  <2> QED BY <1>4, <1>6, <2>2, <2>5 DEF Known
<1>11. CASE ReadSteps(j)
  <2>1. /\ wsCall[j].at = "steps"
        /\ wsCall'[j].at = "delete" /\ wsCall'[j].spaces = wsCall[j].spaces
        /\ wsCall'[j].flows = wsCall[j].flows
        /\ wsCall'[j].steps = {w \in wsCall[j].flows : <<w, "step">> \in rows}
    BY <1>11 DEF ReadSteps, Storing, ErasureTypeOK, WsCalls
  <2>2. Leased(i)'
    BY <1>1, <1>2, <1>5, <2>1 DEF Known, Leased
  <2>3. \A x \in DueOf(j) : x[1] \in Workspaces =>
          /\ x[1] \in wsCall[j].spaces
          /\ x[2] \in {"step", "lease"} => x[1] \in wsCall[j].flows
    BY <1>2, <2>1 DEF Known, Found
  <2>4. \A x \in DueOf(j) : x[1] \in Workspaces /\ x[2] = "lease"
                            => x[1] \in wsCall'[j].steps
    BY <1>8, <2>1, <2>3
  <2>5. Found(i)'
    BY <1>2, <1>3, <1>5, <2>1, <2>3, <2>4 DEF Known, Found
  <2> QED BY <1>4, <1>6, <2>2, <2>5 DEF Known
<1>12. CASE CascadeFails(j)
  <2>1. wsCall'[j].at = "failed"
    BY <1>12 DEF CascadeFails, ErasureTypeOK, WsCalls
  <2>2. Leased(i)'
    BY <1>1, <1>2, <1>5, <2>1 DEF Known, Leased
  <2>3. Found(i)'
    BY <1>2, <1>3, <1>5, <2>1 DEF Known, Found
  <2> QED BY <1>4, <1>6, <2>2, <2>3 DEF Known
<1> QED BY <1>9, <1>10, <1>11, <1>12

(* The transaction takes every row of the workspaces that is due, and a    *)
(* lease with its step: a step it left behind would keep its workflow.     *)
LEMMA CascadeKeeps ==
  ASSUME ErasureTypeOK, ErasureInv, UNCHANGED urls, NEW i \in Jobs, NEW j \in Jobs, Cascade(j)
  PROVE  Known(i)'
<1>1. /\ Erase(Deleted(j)) /\ job' = job /\ gwCall' = gwCall
      /\ wsCall[j].at = "delete"
  BY DEF Cascade
<1>2. /\ wsCall'[j].at = "done" /\ wsCall'[j].flows = wsCall[j].flows
      /\ \A k \in Jobs : k # j => wsCall'[k] = wsCall[k]
  BY DEF Cascade, ErasureTypeOK, WsCalls
<1>3. Known(i) /\ Known(j)
  BY DEF ErasureInv
<1>4. /\ rows' = rows \ Deleted(j) /\ owed'[i] = owed[i] \ Deleted(j)
      /\ DueOf(i)' = DueOf(i) \ Deleted(j)
  BY <1>1, LessDue DEF Erase
<1>5. \A x \in DueOf(j) : x[1] \in Workspaces => x \in Deleted(j)
  <2>1. \A x \in DueOf(j) : x[1] \in Workspaces =>
          /\ x = <<x[1], x[2]>>
          /\ x[2] \in {"workspace", "content", "workflow", "step", "lease"}
    BY ErasedRowsAre, ErasureAssumption DEF DueOf, Overlooked, ErasureTypeOK, RowKinds
  <2>2. \A x \in DueOf(j) : x[1] \in Workspaces =>
          /\ x[1] \in wsCall[j].spaces
          /\ x[2] \in {"step", "lease"} => x[1] \in wsCall[j].flows
          /\ x[2] = "lease" => x[1] \in wsCall[j].steps
    BY <1>1, <1>3 DEF Known, Found
  <2> QED BY <2>1, <2>2 DEF Deleted
<1>6. Leased(i)'
  <2>1. ASSUME NEW w \in Workspaces, <<w, "lease">> \in owed'[i]
        PROVE  /\ <<w, "step">> \in rows'
               /\ \A k \in Jobs : wsCall'[k].at = "delete" /\ w \in wsCall'[k].flows
                                    => w \in wsCall'[k].steps
    <3>1. /\ <<w, "lease">> \in owed[i] /\ <<w, "lease">> \notin Deleted(j)
          /\ <<w, "step">> \in rows
          /\ \A k \in Jobs : wsCall[k].at = "delete" /\ w \in wsCall[k].flows
                               => w \in wsCall[k].steps
      BY <1>3, <1>4, <2>1 DEF Known, Leased
    <3>2. w \notin wsCall[j].flows
      BY <1>1, <3>1 DEF Deleted
    <3>3. <<w, "step">> \in rows'
      BY <1>4, <3>1, <3>2 DEF Deleted
    <3> QED BY <1>2, <3>1, <3>3
  <2> QED BY <2>1 DEF Leased
<1>7. Found(i)'
  BY <1>2, <1>3, <1>4, <1>5 DEF Known, Found
<1>8. /\ owed'[i] \subseteq rows' /\ Cleared(i)' /\ Noted(i)'
  BY <1>1, <1>3, <1>4 DEF Known, Cleared, Noted
<1>9. Begun(i)'
  BY <1>1, <1>2, <1>3, <1>4 DEF Known, Begun
<1> QED BY <1>6, <1>7, <1>8, <1>9 DEF Known
--------------------------------------------------------------------------------
(* Every handler has before it what it still has to delete.                *)
THEOREM HandlersKnow == ErasureSpec => []ErasureInv
<1>1. ErasureInit => ErasureInv
  BY DEF ErasureInit, ErasureInv, Known, Found, Leased, Cleared, Begun, Noted, DueOf, NoJob,
         NoCall
<1>2. ErasureTypeOK /\ ErasureInv /\ [ErasureNext]_erasureVars => ErasureInv'
  <2> SUFFICES ASSUME ErasureTypeOK, ErasureInv, [ErasureNext]_erasureVars, NEW i \in Jobs
               PROVE  Known(i)'
    BY DEF ErasureInv
  <2>0. UNCHANGED urls
    BY DEF ErasureNext, erasureVars
  <2> USE <2>0
  <2>1. CASE (\E x \in Rows : StoreRow(x)) \/ Confirm \/ ConfirmExpires
               \/ UNCHANGED erasureVars
    BY <2>1, TenantKeeps
  <2>2. CASE IdentityStops
    BY <2>2, EndKeeps
  <2>3. ASSUME NEW j \in Jobs,
               AskErasure(j) \/ ReadToken(j) \/ ConsumeToken(j) \/ CreateJob(j)
        PROVE  Known(i)'
    BY <2>3, AskingKeeps, CreateKeeps
  <2>4. ASSUME NEW j \in Jobs,
               \/ StartJob(j) \/ SkipWorkspace(j) \/ WorkspaceAnswers(j)
               \/ WorkspaceFails(j) \/ GatewayAnswers(j) \/ GatewayFails(j)
        PROVE  Known(i)'
    BY <2>4, StartKeeps, WorkspaceKeeps, GatewayKeeps
  <2>5. ASSUME NEW j \in Jobs, DeleteIdentityData(j) \/ CompleteJob(j) \/ FailJob(j)
        PROVE  Known(i)'
    BY <2>5, IdentityKeeps, EndKeeps
  <2>6. ASSUME NEW j \in Jobs,
               \/ ReadWorkspaces(j) \/ ReadWorkflows(j) \/ ReadSteps(j)
               \/ Cascade(j) \/ CascadeFails(j)
        PROVE  Known(i)'
    BY <2>6, ReadKeeps, CascadeKeeps
  <2>7. ASSUME NEW j \in Jobs,
               \/ \E t \in GatewayTables : ClearTable(j, t)
               \/ ClearCache(j) \/ ClearFails(j)
        PROVE  Known(i)'
    BY <2>7, ClearKeeps
  <2> QED BY <2>1, <2>2, <2>3, <2>4, <2>5, <2>6, <2>7 DEF ErasureNext
<1> QED BY <1>1, <1>2, ErasureTypeCorrect, PTL DEF ErasureSpec

(* A completed job leaves nothing the cascade deletes except in a service  *)
(* it notes an error for or has no URL of, whoever writes meanwhile and    *)
(* whichever calls overlap.                                                *)
THEOREM CompletedJobsErased == ErasureSpec => []CompletedErased
<1>1. ErasureTypeOK /\ ErasureInv => CompletedErased
  <2> SUFFICES ASSUME ErasureTypeOK, ErasureInv, NEW j \in Jobs,
                      job[j].status = "completed", NEW x \in owed[j], x[2] \notin Overlooked
               PROVE  Service(x) \in job[j].errors \/ Skipped(x)
    BY DEF CompletedErased
  <2>1. x \in DueOf(j) /\ Noted(j)
    BY DEF DueOf, ErasureInv, Known
  <2>2. x[1] \in Workspaces \/ x[1] \in {"gateway", "identity"}
    BY ErasedRowsAre DEF ErasureTypeOK
  <2> QED BY <2>1, <2>2, ErasureAssumption DEF Noted, Service, Skipped
<1> QED BY <1>1, ErasureTypeCorrect, HandlersKnow, PTL

--------------------------------------------------------------------------------
(***************************************************************************)
(* Revocation.  A row once stamped stays stamped, and each process hears   *)
(* of it.                                                                  *)
(***************************************************************************)

USE RevocationAssumption

--------------------------------------------------------------------------------
(* Revocation.  A row once stamped stays stamped, what was answered is in  *)
(* the table, and a request past the commit has its row stamped and, past  *)
(* the cache, its process told.                                            *)
RevokeRequest == [at: {"update", "cache", "share", "expire"}, jti: Tokens,
                  node: Nodes, when: Times]
RevokeTypes ==
  /\ time \in Times
  /\ revokedAt \in [Tokens -> 0..MaxTime]
  /\ cache \in [Nodes -> SUBSET Tokens]
  /\ answered \subseteq Nodes \X Tokens
  /\ req \in [Requests -> {NoRequest} \cup RevokeRequest]

RevokeKept(q) ==
  /\ q.at \in {"cache", "share", "expire"} => revokedAt[q.jti] # 0
  /\ q.at \in {"share", "expire"} => q.jti \in cache[q.node]

RevokeInv ==
  /\ RevokeTypes
  /\ RevokedStaysRejected
  /\ \A n \in Nodes, t \in Tokens : <<n, t>> \in answered => t \in Revoked
  /\ \A i \in Requests : RevokeKept(req[i])

(* A request that stands somewhere is a request.                           *)
LEMMA RevokeRequestIn ==
  ASSUME RevokeTypes, NEW i \in Requests, req[i] # NoRequest
  PROVE  req[i] \in RevokeRequest
  BY DEF RevokeTypes

LEMMA NoRequestNowhere ==
  /\ NoRequest \notin RevokeRequest
  /\ \A at \in {"update", "cache", "share", "expire"} : NoRequest.at # at
  BY DEF NoRequest, RevokeRequest

(* Neither the table nor the caches forget, the answers are the same.      *)
LEMMA RevokeGoesOn ==
  ASSUME RevokeInv, time' \in Times, UNCHANGED answered,
         revokedAt' \in [Tokens -> 0..MaxTime], cache' \in [Nodes -> SUBSET Tokens],
         \A t \in Tokens : revokedAt[t] # 0 => revokedAt'[t] # 0,
         \A n \in Nodes : cache[n] \subseteq cache'[n],
         req' \in [Requests -> {NoRequest} \cup RevokeRequest],
         \A i \in Requests : req'[i] = req[i] \/ RevokeKept(req[i])'
  PROVE  RevokeInv'
<1>1. RevokeTypes' /\ RevokedStaysRejected'
  BY DEF RevokeInv, RevokeTypes, RevokedStaysRejected
<1>2. \A n \in Nodes, t \in Tokens : <<n, t>> \in answered' => t \in Revoked'
  BY DEF RevokeInv, Revoked
<1>3. ASSUME NEW i \in Requests PROVE RevokeKept(req[i])'
  <2>1. CASE req'[i] = req[i]
    <3>1. CASE req[i] = NoRequest
      BY <2>1, <3>1 DEF NoRequest, RevokeKept
    <3>2. CASE req[i] # NoRequest
      BY <2>1, <3>2, RevokeRequestIn DEF RevokeInv, RevokeKept, RevokeRequest
    <3> QED BY <3>1, <3>2
  <2> QED BY <2>1
<1> QED BY <1>1, <1>2, <1>3 DEF RevokeInv

(* A revoke is answered once its row is stamped and its process told.      *)
LEMMA RevokeDone ==
  ASSUME RevokeInv, NEW i \in Requests, req[i] # NoRequest, Done(i),
         UNCHANGED <<time, revokedAt>>, cache' \in [Nodes -> SUBSET Tokens],
         \A n \in Nodes : cache[n] \subseteq cache'[n],
         revokedAt[req[i].jti] # 0, req[i].jti \in cache'[req[i].node]
  PROVE  RevokeInv'
<1>0. req[i] \in RevokeRequest /\ RevokeTypes
  BY RevokeRequestIn DEF RevokeInv
<1>1. RevokeTypes'
  BY <1>0 DEF RevokeTypes, RevokeRequest, Done
<1>2. \A n \in Nodes, t \in Tokens : <<n, t>> \in answered' =>
        <<n, t>> \in answered \/ (n = req[i].node /\ t = req[i].jti)
  BY DEF Done
<1>3. RevokedStaysRejected'
  BY <1>2 DEF RevokeInv, RevokedStaysRejected
<1>4. \A n \in Nodes, t \in Tokens : <<n, t>> \in answered' => t \in Revoked'
  BY <1>2 DEF RevokeInv, Revoked
<1>5. ASSUME NEW j \in Requests PROVE RevokeKept(req[j])'
  <2>1. CASE j = i
    BY <1>0, <2>1 DEF Done, RevokeTypes, RevokeKept, NoRequest
  <2>2. CASE j # i
    <3>1. req'[j] = req[j] /\ RevokeKept(req[j])
      BY <1>0, <2>2 DEF Done, RevokeInv, RevokeTypes
    <3>2. CASE req[j] = NoRequest
      BY <3>1, <3>2 DEF NoRequest, RevokeKept
    <3>3. CASE req[j] # NoRequest
      BY <1>0, <3>1, <3>3, RevokeRequestIn DEF RevokeKept, RevokeRequest
    <3> QED BY <3>2, <3>3
  <2> QED BY <2>1, <2>2
<1> QED BY <1>1, <1>3, <1>4, <1>5 DEF RevokeInv

LEMMA RevokeInvNext == RevokeInv /\ [RevocationNext]_revVars => RevokeInv'
<1> SUFFICES ASSUME RevokeInv, [RevocationNext]_revVars PROVE RevokeInv'
  OBVIOUS
<1>0. RevokeTypes /\ \A i \in Requests : RevokeKept(req[i])
  BY DEF RevokeInv
<1>1. ASSUME NEW i \in Requests, NEW n \in Nodes, NEW t \in Tokens, RevokeGet(i, n, t)
      PROVE  RevokeInv'
  <2> DEFINE q == [at |-> "update", jti |-> t, node |-> n,
                   when |-> IF revokedAt[t] # 0 THEN revokedAt[t] ELSE time]
  <2>1. q \in RevokeRequest /\ q.at = "update"
    BY <1>0 DEF RevokeTypes, RevokeRequest, Times
  <2>2. req' = [req EXCEPT ![i] = q]
    BY <1>1 DEF RevokeGet
  <2> HIDE DEF q
  <2>3. /\ req' \in [Requests -> {NoRequest} \cup RevokeRequest]
        /\ \A j \in Requests : req'[j] = req[j] \/ req'[j] = q
    BY <1>0, <2>1, <2>2 DEF RevokeTypes
  <2>4. \A j \in Requests : req'[j] = req[j] \/ RevokeKept(req[j])'
    BY <2>1, <2>3 DEF RevokeKept
  <2> QED BY <1>0, <1>1, <2>3, <2>4, RevokeGoesOn DEF RevokeGet, RevokeTypes
<1>2. ASSUME NEW i \in Requests, RevokeCommit(i) PROVE RevokeInv'
  <2>1. req[i] \in RevokeRequest /\ req[i].at = "update"
    BY <1>0, <1>2, RevokeRequestIn, NoRequestNowhere DEF RevokeCommit
  <2> DEFINE q == [req[i] EXCEPT !.at = "cache"]
  <2>2. q \in RevokeRequest /\ q.at = "cache" /\ q.jti = req[i].jti
    BY <2>1 DEF RevokeRequest
  <2>3. req' = [req EXCEPT ![i] = q]
    BY <1>0, <1>2 DEF RevokeCommit, RevokeTypes
  <2> HIDE DEF q
  <2>4. /\ req' \in [Requests -> {NoRequest} \cup RevokeRequest]
        /\ \A j \in Requests : req'[j] = req[j] \/ req'[j] = q
    BY <1>0, <2>2, <2>3 DEF RevokeTypes
  <2>5. req[i].jti \in Tokens /\ req[i].when \in Times
    BY <2>1 DEF RevokeRequest
  <2>6. /\ revokedAt' \in [Tokens -> 0..MaxTime]
        /\ \A t \in Tokens : revokedAt[t] # 0 => revokedAt'[t] # 0
        /\ revokedAt'[q.jti] # 0
    BY <1>0, <1>2, <2>2, <2>5 DEF RevokeCommit, RevokeTypes, Times
  <2>7. \A j \in Requests : req'[j] = req[j] \/ RevokeKept(req[j])'
    BY <2>2, <2>4, <2>6 DEF RevokeKept
  <2> QED BY <1>0, <1>2, <2>4, <2>6, <2>7, RevokeGoesOn DEF RevokeCommit, RevokeTypes
<1>3. ASSUME NEW i \in Requests, RevokeCache(i) PROVE RevokeInv'
  <2>1. req[i] \in RevokeRequest /\ req[i].at = "cache"
    BY <1>0, <1>3, RevokeRequestIn, NoRequestNowhere DEF RevokeCache
  <2>2. req[i].jti \in Tokens /\ req[i].node \in Nodes /\ revokedAt[req[i].jti] # 0
    BY <1>0, <2>1 DEF RevokeRequest, RevokeKept
  <2>3. /\ cache' \in [Nodes -> SUBSET Tokens]
        /\ \A n \in Nodes : cache[n] \subseteq cache'[n]
        /\ req[i].jti \in cache'[req[i].node]
    BY <1>0, <1>3, <2>2 DEF RevokeCache, RevokeTypes
  <2>4. CASE HasRedis
    <3> DEFINE q == [req[i] EXCEPT !.at = "share"]
    <3>1. q \in RevokeRequest /\ q.at = "share" /\ q.jti = req[i].jti /\ q.node = req[i].node
      BY <2>1 DEF RevokeRequest
    <3>2. req' = [req EXCEPT ![i] = q]
      BY <1>0, <1>3, <2>4 DEF RevokeCache, RevokeTypes
    <3> HIDE DEF q
    <3>3. /\ req' \in [Requests -> {NoRequest} \cup RevokeRequest]
          /\ \A j \in Requests : req'[j] = req[j] \/ req'[j] = q
      BY <1>0, <3>1, <3>2 DEF RevokeTypes
    <3>4. UNCHANGED <<time, revokedAt, answered>>
      BY <1>3, <2>4 DEF RevokeCache
    <3>5. \A j \in Requests : req'[j] = req[j] \/ RevokeKept(req[j])'
      BY <2>2, <2>3, <3>1, <3>3, <3>4 DEF RevokeKept
    <3> QED BY <1>0, <2>3, <3>3, <3>4, <3>5, RevokeGoesOn DEF RevokeTypes
  <2>5. CASE ~HasRedis
    <3>1. Done(i) /\ UNCHANGED <<time, revokedAt>> /\ req[i] # NoRequest
      BY <1>3, <2>1, <2>5, NoRequestNowhere DEF RevokeCache
    <3> QED BY <2>2, <2>3, <3>1, RevokeDone
  <2> QED BY <2>4, <2>5
<1>4. ASSUME NEW i \in Requests, RevokeShare(i) PROVE RevokeInv'
  <2>1. req[i] \in RevokeRequest /\ req[i].at = "share"
    BY <1>0, <1>4, RevokeRequestIn, NoRequestNowhere DEF RevokeShare
  <2> DEFINE q == [req[i] EXCEPT !.at = "expire"]
  <2>2. q \in RevokeRequest /\ q.at = "expire" /\ q.jti = req[i].jti /\ q.node = req[i].node
    BY <2>1 DEF RevokeRequest
  <2>3. req' = [req EXCEPT ![i] = q]
    BY <1>0, <1>4 DEF RevokeShare, RevokeTypes
  <2> HIDE DEF q
  <2>4. /\ req' \in [Requests -> {NoRequest} \cup RevokeRequest]
        /\ \A j \in Requests : req'[j] = req[j] \/ req'[j] = q
    BY <1>0, <2>2, <2>3 DEF RevokeTypes
  <2>5. UNCHANGED <<time, revokedAt, cache, answered>>
    BY <1>4 DEF RevokeShare
  <2>6. \A j \in Requests : req'[j] = req[j] \/ RevokeKept(req[j])'
    BY <1>0, <2>1, <2>2, <2>4, <2>5 DEF RevokeKept
  <2> QED BY <1>0, <2>4, <2>5, <2>6, RevokeGoesOn DEF RevokeTypes
<1>5. ASSUME NEW i \in Requests, RevokeExpire(i) \/ RevokeShareFails(i) PROVE RevokeInv'
  <2>1. /\ req[i].at \in {"share", "expire"} /\ Done(i)
        /\ UNCHANGED <<time, revokedAt, cache>>
    BY <1>5 DEF RevokeExpire, RevokeShareFails
  <2>2. req[i] # NoRequest
    BY <2>1, NoRequestNowhere
  <2>3. revokedAt[req[i].jti] # 0 /\ req[i].jti \in cache[req[i].node]
    BY <1>0, <2>1 DEF RevokeKept
  <2> QED BY <1>0, <2>1, <2>2, <2>3, RevokeDone DEF RevokeTypes
<1>6. ASSUME NEW n \in Nodes, NEW t \in Tokens, VerifyShared(n, t) PROVE RevokeInv'
  BY <1>0, <1>6, RevokeGoesOn DEF VerifyShared, RevokeTypes
<1>7. ASSUME NEW n \in Nodes, Restart(n) PROVE RevokeInv'
  <2>1. /\ UNCHANGED <<time, revokedAt, answered>>
        /\ cache' = [cache EXCEPT ![n] = Revoked]
        /\ \A j \in Requests : req'[j] = IF req[j] # NoRequest /\ req[j].node = n
                                         THEN NoRequest ELSE req[j]
        /\ req' \in [Requests -> {NoRequest} \cup RevokeRequest]
    BY <1>0, <1>7 DEF Restart, RevokeTypes
  <2>2. RevokeTypes'
    BY <1>0, <2>1 DEF RevokeTypes, Revoked
  <2>3. RevokedStaysRejected' /\ \A m \in Nodes, t \in Tokens :
          <<m, t>> \in answered' => t \in Revoked'
    BY <1>0, <2>1 DEF RevokeInv, RevokedStaysRejected, RevokeTypes, Revoked
  <2>4. ASSUME NEW j \in Requests PROVE RevokeKept(req[j])'
    <3>1. CASE req'[j] = NoRequest
      BY <3>1 DEF NoRequest, RevokeKept
    <3>2. CASE req'[j] # NoRequest
      <4>1. req'[j] = req[j] /\ req[j].node # n /\ req[j] \in RevokeRequest
        BY <1>0, <2>1, <3>2, RevokeRequestIn
      <4> QED BY <1>0, <2>1, <4>1 DEF RevokeKept, RevokeTypes, RevokeRequest
    <3> QED BY <3>1, <3>2
  <2> QED BY <2>2, <2>3, <2>4 DEF RevokeInv
<1>8. CASE /\ UNCHANGED <<revokedAt, cache, req, answered>> /\ time' \in Times
  BY <1>0, <1>8, RevokeGoesOn DEF RevokeTypes
<1>9. CASE RevocationTick
  BY <1>0, <1>8, <1>9 DEF RevocationTick, RevokeTypes, Times
<1>10. CASE UNCHANGED revVars
  BY <1>0, <1>8, <1>10 DEF revVars, RevokeTypes
<1>11. ASSUME NEW p \in Pollers, \/ PollSend(p) \/ PollRead(p) \/ PollApply(p)
                                 \/ PollFails(p) \/ RestartPoller(p)
       PROVE  RevokeInv'
  BY <1>0, <1>8, <1>11 DEF PollSend, PollRead, PollApply, PollFails, RestartPoller, RevokeTypes
<1>12. ASSUME NEW t \in Tokens, NEW ttl \in Ttls, IssueToken(t, ttl) PROVE RevokeInv'
  BY <1>0, <1>8, <1>12 DEF IssueToken, RevokeTypes
<1> QED BY <1>1, <1>2, <1>3, <1>4, <1>5, <1>6, <1>7, <1>9, <1>10, <1>11, <1>12
        DEF RevocationNext

LEMMA RevokeInvStart == RevocationInit => RevokeInv
<1> SUFFICES ASSUME RevocationInit PROVE RevokeInv
  OBVIOUS
<1>1. RevokeTypes
  BY DEF RevocationInit, RevokeTypes, Times
<1>2. \A i \in Requests : RevokeKept(req[i])
  BY DEF RevocationInit, RevokeKept, NoRequest
<1> QED BY <1>1, <1>2 DEF RevocationInit, RevokeInv, RevokedStaysRejected

(* A token whose revocation an identity process has answered stays         *)
(* rejected there, over restarts of it and with Redis failing.             *)
THEOREM AnsweredMeansRejected == RevocationSpec => []RevokedStaysRejected
<1>1. RevokeInv => RevokedStaysRejected
  BY DEF RevokeInv
<1> QED BY <1>1, RevokeInvStart, RevokeInvNext, PTL DEF RevocationSpec

(* What a poller's cursor stands for: every second it may be at was in the *)
(* row of a token that the poller holds or is about to.                    *)
Polls == {NoPoll} \cup [at : {"sent"}]
           \cup [at : {"read"}, jtis : SUBSET Tokens, next : 0..MaxTime]
PollTypes ==
  /\ stamps \in [Tokens -> SUBSET Times]
  /\ \A t \in Tokens : revokedAt[t] # 0 => revokedAt[t] \in stamps[t]
  /\ blocked \in [Pollers -> SUBSET Tokens]
  /\ cursor \in [Pollers -> 0..MaxTime]
  /\ poll \in [Pollers -> Polls]
Backed(s, shown) == s # 0 => \E t \in shown : s \in stamps[t]
CursorInv ==
  /\ PollTypes
  /\ \A p \in Pollers : Backed(cursor[p], blocked[p])
  /\ \A p \in Pollers :
       poll[p].at = "read" => Backed(poll[p].next, poll[p].jtis \cup blocked[p])

LEMMA PollHas ==
  /\ NoPoll.at = "none" /\ [at |-> "sent"].at = "sent"
  /\ NoPoll \in Polls /\ [at |-> "sent"] \in Polls
  /\ \A q \in Polls : q.at = "read" => q.jtis \in SUBSET Tokens /\ q.next \in 0..MaxTime
<1>1. \A q \in [at : {"sent"}] : q.at = "sent"
  OBVIOUS
<1>2. NoPoll.at = "none" /\ [at |-> "sent"] \in [at : {"sent"}]
  BY DEF NoPoll
<1>3. \A q \in [at : {"read"}, jtis : SUBSET Tokens, next : 0..MaxTime] :
        q.jtis \in SUBSET Tokens /\ q.next \in 0..MaxTime
  OBVIOUS
<1> QED BY <1>1, <1>2, <1>3 DEF Polls

(* Rows keep the stamps they had.                                          *)
LEMMA PollsGoOn ==
  ASSUME CursorInv, PollTypes', UNCHANGED <<blocked, cursor, poll>>,
         \A t \in Tokens : stamps[t] \subseteq stamps'[t]
  PROVE  CursorInv'
<1>1. ASSUME NEW p \in Pollers PROVE Backed(cursor[p], blocked[p])'
  <2>1. Backed(cursor[p], blocked[p]) /\ blocked[p] \in SUBSET Tokens
    BY DEF CursorInv, PollTypes
  <2> QED BY <2>1 DEF Backed
<1>2. ASSUME NEW p \in Pollers, poll[p].at = "read"
      PROVE  Backed(poll[p].next, poll[p].jtis \cup blocked[p])'
  <2>1. /\ Backed(poll[p].next, poll[p].jtis \cup blocked[p]) /\ blocked[p] \in SUBSET Tokens
        /\ poll[p].jtis \in SUBSET Tokens
    BY <1>2, PollHas DEF CursorInv, PollTypes
  <2> QED BY <2>1 DEF Backed
<1> QED BY <1>1, <1>2 DEF CursorInv

(* The next cursor is the newest stamp of the rows that were read, or the  *)
(* cursor itself if there were none.                                       *)
LEMMA NextIsStamped ==
  ASSUME CursorInv, RevokeTypes, NEW p \in Pollers, NEW S \in Pages(cursor[p])
  PROVE  /\ S \in SUBSET Tokens /\ NextSince(S, cursor[p]) \in 0..MaxTime
         /\ Backed(NextSince(S, cursor[p]), S \cup blocked[p])
<1>1. S \in SUBSET {t \in Revoked : revokedAt[t] > cursor[p]}
  BY DEF Pages, kSubset
<1>2. S \in SUBSET Tokens /\ \A t \in S : revokedAt[t] # 0 /\ revokedAt[t] \in 0..MaxTime
  BY <1>1 DEF Revoked, RevokeTypes
<1>3. CASE S = {}
  <2>1. NextSince(S, cursor[p]) = cursor[p] /\ cursor[p] \in 0..MaxTime
    BY <1>3 DEF NextSince, CursorInv, PollTypes
  <2> QED BY <1>2, <2>1 DEF CursorInv, Backed
<1>4. CASE S # {}
  <2> DEFINE At == {revokedAt[t] : t \in S}
  <2>1. At \in SUBSET (0..MaxTime) /\ At # {}
    BY <1>2, <1>4
  <2>2. MaxTime \in Nat /\ MaxTime \in Int /\ 0 \in Int
    BY RevocationAssumption
  <2>8. IsFiniteSet(0..MaxTime)
    BY <2>2, FS_Interval
  <2> HIDE DEF At
  <2>3. At \in SUBSET Nat /\ IsFiniteSet(At)
    <3>1. At \in SUBSET Nat
      BY <2>1, <2>2
    <3>2. IsFiniteSet(At)
      BY <2>1, <2>8, FS_Subset
    <3> QED BY <3>1, <3>2
  <2>4. Max(At) \in At
    BY <2>1, <2>3, MaxIs
  <2>5. PICK t \in S : Max(At) = revokedAt[t]
    BY <2>4 DEF At
  <2>6. NextSince(S, cursor[p]) = revokedAt[t]
    BY <1>4, <2>5 DEF NextSince, At
  <2>7. revokedAt[t] \in stamps[t]
    BY <1>2, <2>5 DEF CursorInv, PollTypes
  <2> QED BY <1>2, <2>5, <2>6, <2>7 DEF Backed
<1> QED BY <1>3, <1>4

LEMMA CursorInvNext ==
  RevokeInv /\ CursorInv /\ [RevocationNext]_revVars => CursorInv'
<1> SUFFICES ASSUME RevokeInv, CursorInv, [RevocationNext]_revVars PROVE CursorInv'
  OBVIOUS
<1>0. RevokeTypes /\ PollTypes
  BY DEF RevokeInv, CursorInv
<1>1. ASSUME NEW i \in Requests, RevokeCommit(i) PROVE CursorInv'
  <2>1. req[i].jti \in Tokens /\ req[i].when \in Times
    BY <1>0, <1>1, RevokeRequestIn, NoRequestNowhere DEF RevokeCommit, RevokeRequest
  <2>2. /\ revokedAt' = [revokedAt EXCEPT ![req[i].jti] = req[i].when]
        /\ stamps' = [stamps EXCEPT ![req[i].jti] = @ \cup {req[i].when}]
        /\ UNCHANGED <<blocked, cursor, poll>>
    BY <1>1 DEF RevokeCommit
  <2>3. PollTypes' /\ \A t \in Tokens : stamps[t] \subseteq stamps'[t]
    BY <1>0, <2>1, <2>2 DEF PollTypes, RevokeTypes
  <2> QED BY <2>2, <2>3, PollsGoOn
<1>2. ASSUME NEW p \in Pollers, PollSend(p) \/ PollFails(p) PROVE CursorInv'
  <2>1. PICK q \in {NoPoll, [at |-> "sent"]} : poll' = [poll EXCEPT ![p] = q]
    BY <1>2 DEF PollSend, PollFails
  <2>2. UNCHANGED <<revokedAt, stamps, blocked, cursor>>
    BY <1>2 DEF PollSend, PollFails
  <2>3. q \in Polls /\ q.at # "read"
    BY <2>1, PollHas
  <2>4. /\ poll' \in [Pollers -> Polls]
        /\ \A c \in Pollers : poll'[c].at = "read" => poll'[c] = poll[c]
    BY <1>0, <2>1, <2>3 DEF PollTypes
  <2> QED BY <1>0, <2>2, <2>4 DEF CursorInv, PollTypes, Backed
<1>3. ASSUME NEW p \in Pollers, PollRead(p) PROVE CursorInv'
  <2>1. PICK S \in Pages(cursor[p]) :
          poll' = [poll EXCEPT ![p] = [at |-> "read", jtis |-> S,
                                       next |-> NextSince(S, cursor[p])]]
    BY <1>3 DEF PollRead
  <2>2. UNCHANGED <<revokedAt, stamps, blocked, cursor>>
    BY <1>3 DEF PollRead
  <2>3. /\ S \in SUBSET Tokens /\ NextSince(S, cursor[p]) \in 0..MaxTime
        /\ Backed(NextSince(S, cursor[p]), S \cup blocked[p])
    BY <1>0, <2>1, NextIsStamped
  <2> DEFINE q == [at |-> "read", jtis |-> S, next |-> NextSince(S, cursor[p])]
  <2>4. q \in Polls /\ q.jtis = S /\ q.next = NextSince(S, cursor[p])
    BY <2>3 DEF Polls
  <2>5. /\ poll' \in [Pollers -> Polls] /\ poll'[p].jtis = S
        /\ poll'[p].next = NextSince(S, cursor[p])
        /\ \A c \in Pollers \ {p} : poll'[c] = poll[c]
    BY <1>0, <2>1, <2>4 DEF PollTypes
  <2> HIDE DEF q
  <2>6. PollTypes'
    BY <1>0, <2>2, <2>5 DEF PollTypes
  <2>7. ASSUME NEW c \in Pollers, poll'[c].at = "read"
        PROVE  Backed(poll[c].next, poll[c].jtis \cup blocked[c])'
    <3>1. CASE c = p
      BY <2>2, <2>3, <2>5, <3>1 DEF Backed
    <3>2. CASE c # p
      BY <2>2, <2>5, <2>7, <3>2 DEF Backed, CursorInv
    <3> QED BY <3>1, <3>2
  <2> QED BY <2>2, <2>6, <2>7 DEF CursorInv, Backed
<1>4. ASSUME NEW p \in Pollers, PollApply(p) PROVE CursorInv'
  <2>1. /\ poll[p].at = "read"
        /\ blocked' = [blocked EXCEPT ![p] = @ \cup poll[p].jtis]
        /\ cursor' = [cursor EXCEPT ![p] = poll[p].next]
        /\ poll' = [poll EXCEPT ![p] = NoPoll]
        /\ UNCHANGED <<revokedAt, stamps>>
    BY <1>4 DEF PollApply
  <2>2. poll[p].jtis \in SUBSET Tokens /\ poll[p].next \in 0..MaxTime
    BY <1>0, <2>1, PollHas DEF PollTypes
  <2>3. /\ blocked' \in [Pollers -> SUBSET Tokens] /\ cursor' \in [Pollers -> 0..MaxTime]
        /\ poll' \in [Pollers -> Polls] /\ poll'[p].at # "read"
        /\ blocked'[p] = poll[p].jtis \cup blocked[p] /\ cursor'[p] = poll[p].next
        /\ \A c \in Pollers \ {p} : blocked'[c] = blocked[c] /\ cursor'[c] = cursor[c]
                                    /\ poll'[c] = poll[c]
    <3>1. blocked' \in [Pollers -> SUBSET Tokens] /\ blocked'[p] = poll[p].jtis \cup blocked[p]
      BY <1>0, <2>1, <2>2 DEF PollTypes
    <3>2. cursor' \in [Pollers -> 0..MaxTime] /\ cursor'[p] = poll[p].next
      BY <1>0, <2>1, <2>2 DEF PollTypes
    <3>3. NoPoll \in Polls /\ NoPoll.at # "read"
      BY PollHas
    <3>4. poll' \in [Pollers -> Polls] /\ poll'[p].at # "read"
      BY <1>0, <2>1, <3>3 DEF PollTypes
    <3> QED BY <1>0, <2>1, <3>1, <3>2, <3>4 DEF PollTypes
  <2>4. Backed(poll[p].next, poll[p].jtis \cup blocked[p])
    BY <2>1 DEF CursorInv
  <2> QED BY <1>0, <2>1, <2>3, <2>4 DEF CursorInv, PollTypes, Backed
<1>5. ASSUME NEW p \in Pollers, RestartPoller(p) PROVE CursorInv'
  <2>1. /\ blocked' = [blocked EXCEPT ![p] = {}] /\ cursor' = [cursor EXCEPT ![p] = 0]
        /\ poll' = [poll EXCEPT ![p] = NoPoll]
        /\ UNCHANGED <<revokedAt, stamps>>
    BY <1>5 DEF RestartPoller
  <2>2. /\ blocked' \in [Pollers -> SUBSET Tokens] /\ cursor' \in [Pollers -> 0..MaxTime]
        /\ poll' \in [Pollers -> Polls] /\ poll'[p].at # "read" /\ cursor'[p] = 0
        /\ \A c \in Pollers \ {p} : blocked'[c] = blocked[c] /\ cursor'[c] = cursor[c]
                                    /\ poll'[c] = poll[c]
    <3>1. blocked' \in [Pollers -> SUBSET Tokens]
      BY <1>0, <2>1 DEF PollTypes
    <3>2. 0 \in 0..MaxTime
      BY RevocationAssumption
    <3>3. cursor' \in [Pollers -> 0..MaxTime] /\ cursor'[p] = 0
      BY <1>0, <2>1, <3>2 DEF PollTypes
    <3>4. NoPoll \in Polls /\ NoPoll.at # "read"
      BY PollHas
    <3>5. poll' \in [Pollers -> Polls] /\ poll'[p].at # "read"
      BY <1>0, <2>1, <3>4 DEF PollTypes
    <3> QED BY <1>0, <2>1, <3>1, <3>3, <3>5 DEF PollTypes
  <2> QED BY <1>0, <2>1, <2>2 DEF CursorInv, PollTypes, Backed
<1>6. CASE UNCHANGED <<revokedAt, stamps, blocked, cursor, poll>>
  <2>1. PollTypes'
    BY <1>0, <1>6 DEF PollTypes
  <2> QED BY <1>6, <2>1, PollsGoOn
<1> QED BY <1>1, <1>2, <1>3, <1>4, <1>5, <1>6
        DEF RevocationNext, IssueToken, RevokeGet, RevokeCache, RevokeShare, RevokeExpire,
            RevokeShareFails, VerifyShared, Restart, RevocationTick, revVars

LEMMA CursorInvStart == RevocationInit => CursorInv
<1> SUFFICES ASSUME RevocationInit PROVE CursorInv
  OBVIOUS
<1>1. PollTypes /\ \A p \in Pollers : poll[p].at # "read" /\ cursor[p] = 0
  <2>1. NoPoll \in Polls /\ NoPoll.at # "read" /\ 0 \in 0..MaxTime
    BY PollHas, RevocationAssumption
  <2>2. /\ poll = [p \in Pollers |-> NoPoll] /\ cursor = [p \in Pollers |-> 0]
        /\ blocked = [p \in Pollers |-> {}] /\ revokedAt = [t \in Tokens |-> 0]
        /\ stamps = [t \in Tokens |-> {}]
    BY DEF RevocationInit
  <2> QED BY <2>1, <2>2 DEF PollTypes
<1> QED BY <1>1 DEF CursorInv, Backed

(* A poller's cursor stands at a second that a revocation it holds was     *)
(* stamped with, whatever requests race for a token, polls fail and        *)
(* whoever restarts (revocation pollers of gateway and workspace).         *)
THEOREM CursorsAreBacked == RevocationSpec => []CursorIsBacked
<1>1. RevocationInit => RevokeInv /\ CursorInv
  BY RevokeInvStart, CursorInvStart
<1>2. CursorInv => CursorIsBacked
  BY DEF CursorInv, Backed, CursorIsBacked
<1> QED BY <1>1, <1>2, RevokeInvNext, CursorInvNext, PTL DEF RevocationSpec

(* A token that is revoked, or that somebody revokes, was issued, for at   *)
(* most the longest lifetime.                                              *)
ShareTyped == shared \in [members : SUBSET Tokens, until : 0..Never]
LifeInv ==
  /\ restarts \in 0..MaxRestarts
  /\ expires \in [Tokens -> 0..Never]
  /\ \A t \in Tokens : revokedAt[t] # 0 => expires[t] # 0
  /\ \A i \in Requests : req[i] # NoRequest => expires[req[i].jti] # 0
  /\ ShareTyped

LEMMA LongestTtl ==
  /\ Max(Ttls) \in Nat /\ \A ttl \in Ttls : ttl \in Nat /\ ttl > 0 /\ ttl <= Max(Ttls)
  /\ MaxTime \in Nat /\ MaxTime > 0 /\ MaxRestarts \in Nat
  /\ Never \in Nat /\ Never = MaxTime + Max(Ttls) + 1
<1>1. Ttls \in SUBSET Nat /\ Ttls # {} /\ IsFiniteSet(Ttls) /\ \A ttl \in Ttls : ttl > 0
  BY RevocationAssumption
<1>2. Max(Ttls) \in Ttls /\ \A ttl \in Ttls : ttl <= Max(Ttls)
  BY <1>1, MaxIs
<1>3. MaxTime \in Nat /\ MaxTime > 0 /\ MaxRestarts \in Nat
  BY RevocationAssumption
<1> DEFINE top == Max(Ttls)
<1>4. top \in Nat /\ \A ttl \in Ttls : ttl \in Nat /\ ttl > 0 /\ ttl <= top
  BY <1>1, <1>2
<1> HIDE DEF top
<1>5. MaxTime + top + 1 \in Nat
  BY <1>3, <1>4
<1> QED BY <1>3, <1>4, <1>5 DEF top, Never

LEMMA PairFinite ==
  ASSUME NEW a, NEW b
  PROVE  IsFiniteSet({a, b})
<1>1. {a, b} = {a} \cup {b}
  OBVIOUS
<1>2. IsFiniteSet({a})
  BY FS_Singleton
<1>3. IsFiniteSet({a} \cup {b})
  BY <1>2, FS_AddElement
<1> QED BY <1>1, <1>3

LEMMA GoneIs ==
  Gone \in [members : SUBSET Tokens, until : 0..Never]
BY LongestTtl DEF Gone

(* Steps that touch neither a token nor its row, and revoke no new token.  *)
LEMMA LivesOn ==
  ASSUME RevokeTypes, LifeInv, restarts' \in 0..MaxRestarts, ShareTyped',
         UNCHANGED <<expires, revokedAt>>,
         \A i \in Requests : req'[i] = req[i] \/ req'[i] = NoRequest \/
                             (req[i] # NoRequest /\ req'[i].jti = req[i].jti)
  PROVE  LifeInv'
BY DEF LifeInv

LEMMA LifeStart == RevocationInit => LifeInv
<1> SUFFICES ASSUME RevocationInit PROVE LifeInv
  OBVIOUS
<1>1. ShareTyped
  BY GoneIs DEF RevocationInit, ShareTyped
<1>2. /\ restarts = 0 /\ expires = [t \in Tokens |-> 0] /\ revokedAt = [t \in Tokens |-> 0]
      /\ req = [i \in Requests |-> NoRequest]
  BY DEF RevocationInit
<1> QED BY <1>1, <1>2, LongestTtl DEF LifeInv

LEMMA LifeNext ==
  ASSUME RevokeTypes, LifeInv, [RevocationNext]_revVars
  PROVE  LifeInv'
<1>0. /\ time \in Nat /\ time >= 1 /\ time <= MaxTime /\ restarts \in Nat
  BY LongestTtl DEF RevokeTypes, Times, LifeInv
<1>1. ASSUME NEW t \in Tokens, NEW ttl \in Ttls, IssueToken(t, ttl) PROVE LifeInv'
  <2>1. /\ expires[t] = 0 /\ expires' = [expires EXCEPT ![t] = time + ttl]
        /\ UNCHANGED <<revokedAt, req, restarts, shared>>
    BY <1>1 DEF IssueToken
  <2>2. time + ttl \in 0..Never /\ time + ttl # 0
    BY <1>0, LongestTtl
  <2>3. /\ expires' \in [Tokens -> 0..Never]
        /\ \A u \in Tokens : expires[u] # 0 => expires'[u] # 0
    BY <2>1, <2>2 DEF LifeInv
  <2>4. \A i \in Requests : req[i] # NoRequest => req[i].jti \in Tokens
    BY RevokeRequestIn DEF RevokeRequest
  <2> QED BY <2>1, <2>3, <2>4 DEF LifeInv, ShareTyped
<1>2. ASSUME NEW i \in Requests, NEW n \in Nodes, NEW t \in Tokens, RevokeGet(i, n, t)
      PROVE  LifeInv'
  <2> DEFINE q == [at |-> "update", jti |-> t, node |-> n,
                   when |-> IF revokedAt[t] # 0 THEN revokedAt[t] ELSE time]
  <2>1. q.jti = t /\ req' = [req EXCEPT ![i] = q]
    BY <1>2 DEF RevokeGet
  <2> HIDE DEF q
  <2>2. expires[t] # 0 /\ UNCHANGED <<expires, revokedAt, restarts, shared>>
    BY <1>2 DEF RevokeGet
  <2>3. \A j \in Requests : req'[j] = IF j = i THEN q ELSE req[j]
    BY <2>1 DEF RevokeTypes
  <2> QED BY <2>1, <2>2, <2>3 DEF LifeInv, ShareTyped
<1>3. ASSUME NEW i \in Requests, RevokeCommit(i) PROVE LifeInv'
  <2>1. req[i] \in RevokeRequest /\ req[i] # NoRequest
    BY <1>3, RevokeRequestIn, NoRequestNowhere DEF RevokeCommit
  <2>2. /\ revokedAt' = [revokedAt EXCEPT ![req[i].jti] = req[i].when]
        /\ UNCHANGED <<expires, restarts, shared>>
    BY <1>3 DEF RevokeCommit
  <2> DEFINE q == [req[i] EXCEPT !.at = "cache"]
  <2>3. req' = [req EXCEPT ![i] = q] /\ q.jti = req[i].jti
    BY <1>3, <2>1 DEF RevokeCommit, RevokeRequest
  <2> HIDE DEF q
  <2>4. \A j \in Requests : req'[j] = req[j] \/ req'[j].jti = req[i].jti
    BY <2>3 DEF RevokeTypes
  <2>5. \A t \in Tokens : revokedAt'[t] # 0 => revokedAt[t] # 0 \/ t = req[i].jti
    BY <2>2 DEF RevokeTypes
  <2> QED BY <2>1, <2>2, <2>4, <2>5 DEF LifeInv, ShareTyped
<1>4. ASSUME NEW i \in Requests, RevokeCache(i) \/ RevokeShare(i) PROVE LifeInv'
  <2>1. req[i] \in RevokeRequest /\ req[i] # NoRequest
    BY <1>4, RevokeRequestIn, NoRequestNowhere DEF RevokeCache, RevokeShare
  <2>2. UNCHANGED <<expires, revokedAt, restarts>>
    BY <1>4 DEF RevokeCache, RevokeShare
  <2>3. PICK at : at \in {"share", "expire"} /\
                  (req' = [req EXCEPT ![i].at = at] \/ req' = [req EXCEPT ![i] = NoRequest])
    BY <1>4 DEF RevokeCache, RevokeShare, Done
  <2>4. \A j \in Requests : req'[j] = req[j] \/ req'[j] = NoRequest \/
                            (req[j] # NoRequest /\ req'[j].jti = req[j].jti)
    <3> DEFINE q == [req[i] EXCEPT !.at = at]
    <3>1. q.jti = req[i].jti
      BY <2>1 DEF RevokeRequest
    <3>2. req' = [req EXCEPT ![i] = q] \/ req' = [req EXCEPT ![i] = NoRequest]
      BY <2>3
    <3> HIDE DEF q
    <3> QED BY <2>1, <3>1, <3>2 DEF RevokeTypes
  <2>5. ShareTyped'
    <3>1. CASE UNCHANGED shared
      BY <3>1 DEF LifeInv, ShareTyped
    <3>2. CASE shared' = [shared EXCEPT !.members = @ \cup {req[i].jti}]
      BY <2>1, <3>2 DEF LifeInv, ShareTyped, RevokeRequest
    <3> QED BY <1>4, <3>1, <3>2 DEF RevokeCache, RevokeShare
  <2> QED BY <2>2, <2>4, <2>5, LivesOn DEF LifeInv
<1>5. ASSUME NEW i \in Requests, RevokeExpire(i) \/ RevokeShareFails(i) PROVE LifeInv'
  <2>1. req[i] \in RevokeRequest /\ req[i].jti \in Tokens
    BY <1>5, RevokeRequestIn, NoRequestNowhere DEF RevokeExpire, RevokeShareFails, RevokeRequest
  <2>2. /\ UNCHANGED <<expires, revokedAt, restarts>>
        /\ req' = [req EXCEPT ![i] = NoRequest]
    BY <1>5 DEF RevokeExpire, RevokeShareFails, Done
  <2>3. ShareTyped'
    <3> DEFINE e == expires[req[i].jti]
               S == {1, e - time} \cap Nat
               left == Max(S)
    <3>1. e \in Nat /\ e <= Never
      BY <2>1, LongestTtl DEF LifeInv
    <3>2. S \in SUBSET Nat /\ 1 \in S /\ IsFiniteSet(S)
      <4>1. IsFiniteSet({1, e - time})
        BY PairFinite
      <4>2. S \in SUBSET {1, e - time}
        OBVIOUS
      <4> QED BY <4>1, <4>2, FS_Subset
    <3>3. left \in S
      <4> HIDE DEF S
      <4> QED BY <3>2, MaxIs
    <3>4. time + left \in 0..Never
      <4>1. left \in Nat /\ (left = 1 \/ left = e - time)
        BY <3>3
      <4> HIDE DEF left, e
      <4>2. CASE left = 1
        BY <1>0, <4>2, LongestTtl
      <4>3. CASE left = e - time
        BY <1>0, <3>1, <4>1, <4>3, LongestTtl
      <4> QED BY <4>1, <4>2, <4>3
    <3>5. shared' \in {shared, Gone, [shared EXCEPT !.until = time + left]}
      BY <1>5 DEF RevokeExpire, RevokeShareFails
    <3> HIDE DEF left
    <3> QED BY <3>4, <3>5, GoneIs DEF LifeInv, ShareTyped
  <2>4. \A j \in Requests : req'[j] = req[j] \/ req'[j] = NoRequest
    BY <2>2 DEF RevokeTypes
  <2> QED BY <2>2, <2>3, <2>4, LivesOn DEF LifeInv
<1>6. ASSUME NEW n \in Nodes, Restart(n) PROVE LifeInv'
  <2>1. /\ restarts < MaxRestarts /\ restarts' = restarts + 1
        /\ UNCHANGED <<expires, revokedAt, shared>>
        /\ \A j \in Requests : req'[j] = req[j] \/ req'[j] = NoRequest
    BY <1>6 DEF Restart
  <2>2. restarts' \in 0..MaxRestarts /\ ShareTyped'
    BY <1>0, <2>1, LongestTtl DEF LifeInv, ShareTyped
  <2> QED BY <2>1, <2>2, LivesOn
<1>7. ASSUME NEW p \in Pollers, RestartPoller(p) PROVE LifeInv'
  <2>1. /\ restarts < MaxRestarts /\ restarts' = restarts + 1
        /\ UNCHANGED <<expires, revokedAt, shared, req>>
    BY <1>7 DEF RestartPoller
  <2>2. restarts' \in 0..MaxRestarts /\ ShareTyped'
    BY <1>0, <2>1, LongestTtl DEF LifeInv, ShareTyped
  <2> QED BY <2>1, <2>2, LivesOn
<1>8. CASE RevocationTick
  <2>1. UNCHANGED <<expires, revokedAt, req, restarts>> /\ shared' \in {Gone, shared}
    BY <1>8 DEF RevocationTick
  <2>2. ShareTyped'
    BY <2>1, GoneIs DEF LifeInv, ShareTyped
  <2> QED BY <2>1, <2>2, LivesOn DEF LifeInv
<1>9. CASE UNCHANGED <<expires, revokedAt, req, restarts, shared>>
  BY <1>9, LivesOn DEF LifeInv, ShareTyped
<1> QED BY <1>1, <1>2, <1>3, <1>4, <1>5, <1>6, <1>7, <1>8, <1>9
        DEF RevocationNext, VerifyShared, PollSend, PollRead, PollApply, PollFails, revVars

(* Revocation is sound (RevocationStore and its pollers): every revoked    *)
(* token was issued and its row's time is one it was stamped with, the set *)
(* in Redis ends by the time the longest-lived token does, and no cursor   *)
(* stands where its poller was shown nothing.                              *)
THEOREM RevocationIsSound == RevocationSpec => []RevocationSound
<1>1. RevocationInit => RevokeInv /\ LifeInv /\ CursorInv
  BY RevokeInvStart, LifeStart, CursorInvStart
<1>2. RevokeInv /\ LifeInv /\ CursorInv /\ [RevocationNext]_revVars
        => RevokeInv' /\ LifeInv' /\ CursorInv'
  BY RevokeInvNext, LifeNext, CursorInvNext DEF RevokeInv
<1>3. RevokeInv /\ LifeInv /\ CursorInv => RevocationSound
  <2> SUFFICES ASSUME RevokeInv, LifeInv, CursorInv PROVE RevocationTypeOK /\ CursorIsBacked
    BY DEF RevocationSound
  <2>1. CursorIsBacked
    BY DEF CursorInv, Backed, CursorIsBacked
  <2>2. RevocationTypeOK
    BY DEF RevokeInv, RevokeTypes, RevokeRequest, LifeInv, ShareTyped, CursorInv, PollTypes,
           Polls, RevocationTypeOK
  <2> QED BY <2>1, <2>2
<1> QED BY <1>1, <1>2, <1>3, PTL DEF RevocationSpec

--------------------------------------------------------------------------------
(***************************************************************************)
(* Quotas.  No tenant goes further over its limit than the other creations *)
(* in flight and what is never checked, and no replaced limit is applied   *)
(* longer than the lifetime and one answer.                                *)
(***************************************************************************)

USE QuotasAssumption

LEMMA QuotasNowTyped ==
  ASSUME QuotasTypeOK
  PROVE  QuotasNow \in Quotas
BY DEF QuotasTypeOK, QuotasNow, Quotas

(* A step of one creation keeps the table of creations well-formed.        *)
LEMMA OnlyTyped ==
  ASSUME QuotasTypeOK, NEW i \in Makers, NEW m \in MakerStates, Only(i, m)
  PROVE  maker' \in [Makers -> MakerStates]
BY DEF QuotasTypeOK, Only

LEMMA MakerCases ==
  ASSUME QuotasTypeOK, NEW i \in Makers
  PROVE  /\ maker[i].at \in {"asked", "answered"} =>
              maker[i].kind \in Kinds /\ maker[i].by \in Replicas /\ maker[i].when \in Nat
         /\ maker[i].at = "answered" => maker[i].quotas \in Quotas
         /\ maker[i].at \in {"count", "create"} => maker[i].kind \in Kinds
         /\ maker[i].at = "count" => maker[i].limit \in Nat
<1> DEFINE m == maker[i]
           Asked == [at : {"asked"}, kind : Kinds, by : Replicas, when : Nat]
           AnsweredMaker == [at : {"answered"}, kind : Kinds, by : Replicas, when : Nat,
                        quotas : Quotas]
           Count == [at : {"count"}, kind : Kinds, limit : Limits]
           Creating == [at : {"create"}, kind : Kinds]
<1>1. m = NoMaker \/ m \in Asked \/ m \in AnsweredMaker \/ m \in Count \/ m \in Creating
  BY DEF QuotasTypeOK, MakerStates
<1> HIDE DEF m
<1>2. CASE m = NoMaker
  BY <1>2 DEF NoMaker, m
<1>3. CASE m \in Asked
  BY <1>3 DEF m
<1>4. CASE m \in AnsweredMaker
  BY <1>4 DEF m
<1>5. CASE m \in Count
  BY <1>5 DEF m
<1>6. CASE m \in Creating
  BY <1>6 DEF m
<1> QED BY <1>1, <1>2, <1>3, <1>4, <1>5, <1>6

LEMMA NewRowTyped ==
  ASSUME QuotasTypeOK, NEW row \in {NoRow} \cup Quotas, NewRow(row)
  PROVE  /\ quotaRow' \in {NoRow} \cup Quotas
         /\ ruledAt' \in [Kinds -> [Limits -> {-1} \cup Nat]]
<1>1. QuotasNow \in Quotas
  BY QuotasNowTyped
<1>2. ASSUME NEW k \in Kinds
      PROVE  [ruledAt[k] EXCEPT ![QuotasNow[k]] = quotaTime] \in [Limits -> {-1} \cup Nat]
  BY DEF QuotasTypeOK
<1>3. ruledAt' \in [Kinds -> [Limits -> {-1} \cup Nat]]
  BY <1>2 DEF NewRow
<1> QED BY <1>3 DEF NewRow

--------------------------------------------------------------------------------
(* Quotas, patches, caches, creations and the ghosts have their types.     *)
LEMMA TypeInit == QuotasInit => QuotasTypeOK
BY DEF QuotasInit, QuotasTypeOK, MakerStates

LEMMA PatchTyped ==
  ASSUME QuotasTypeOK, NEW a \in Admins,
         PatchWrites(a) \/ \E k \in Kinds, l \in Limits : PatchReads(a, k, l)
  PROVE  QuotasTypeOK'
<1>1. CASE PatchWrites(a)
  <2> DEFINE row == [patch[a].row EXCEPT ![patch[a].kind] = patch[a].limit]
  <2>1. row \in Quotas
    BY <1>1 DEF QuotasTypeOK, PatchWrites, NoPatch, Quotas
  <2>2. NewRow(row)
    BY <1>1 DEF PatchWrites
  <2> HIDE DEF row
  <2>3. /\ quotaRow' \in {NoRow} \cup Quotas
        /\ ruledAt' \in [Kinds -> [Limits -> {-1} \cup Nat]]
    BY <2>1, <2>2, NewRowTyped
  <2>4. /\ patch' = [patch EXCEPT ![a] = NoPatch]
        /\ UNCHANGED <<held, maker, things, quotaTime, told, unasked>>
    BY <1>1 DEF PatchWrites, NewRow
  <2> QED BY <2>3, <2>4 DEF QuotasTypeOK
<1>2. ASSUME NEW k \in Kinds, NEW l \in Limits, PatchReads(a, k, l)
      PROVE  QuotasTypeOK'
  BY <1>2, QuotasNowTyped DEF QuotasTypeOK, PatchReads
<1> QED BY <1>1, <1>2

LEMMA ResetTyped ==
  ASSUME QuotasTypeOK, ResetQuotas
  PROVE  QuotasTypeOK'
<1>1. NewRow(NoRow) /\ patch' = patch
  BY DEF ResetQuotas
<1>2. /\ quotaRow' \in {NoRow} \cup Quotas
      /\ ruledAt' \in [Kinds -> [Limits -> {-1} \cup Nat]]
  BY <1>1, NewRowTyped
<1>3. UNCHANGED <<held, maker, things, quotaTime, told, unasked>>
  BY <1>1 DEF NewRow
<1> QED BY <1>1, <1>2, <1>3 DEF QuotasTypeOK

\* What a creation may do to its own record.
MakerMoves(i) ==
  \/ \E r \in Replicas, k \in Kinds : UseCached(i, r, k) \/ AskIdentity(i, r, k)
  \/ IdentityAnswers(i) \/ Received(i) \/ Degraded(i)
  \/ Admit(i) \/ QuotaExceeded(i) \/ Create(i) \/ NotCreated(i)

LEMMA MovesTyped ==
  ASSUME QuotasTypeOK, NEW i \in Makers, MakerMoves(i)
  PROVE  QuotasTypeOK'
<1> USE MakerCases, QuotasNowTyped DEF MakerStates
<1>1. ASSUME NEW r \in Replicas, NEW k \in Kinds, UseCached(i, r, k)
      PROVE  QuotasTypeOK'
  <2>1. held[r].quotas[k] \in Limits
    BY <1>1 DEF UseCached, Fresh, QuotasTypeOK, Quotas, NotHeld
  <2>2. maker' \in [Makers -> MakerStates]
    BY <1>1, <2>1, OnlyTyped DEF UseCached
  <2> QED BY <1>1, <2>2 DEF UseCached, Only, QuotasTypeOK
<1>2. ASSUME NEW r \in Replicas, NEW k \in Kinds, AskIdentity(i, r, k)
      PROVE  QuotasTypeOK'
  <2>1. maker' \in [Makers -> MakerStates]
    BY <1>2, OnlyTyped DEF AskIdentity, QuotasTypeOK
  <2> QED BY <1>2, <2>1 DEF AskIdentity, Only, QuotasTypeOK
<1>3. CASE IdentityAnswers(i)
  <2>1. maker' \in [Makers -> MakerStates]
    BY <1>3, OnlyTyped DEF IdentityAnswers
  <2> QED BY <1>3, <2>1 DEF IdentityAnswers, Only, QuotasTypeOK
<1>4. CASE Received(i)
  <2>1. maker[i].quotas[maker[i].kind] \in Limits
    BY <1>4 DEF Received, Quotas
  <2>2. maker' \in [Makers -> MakerStates]
    BY <1>4, <2>1, OnlyTyped DEF Received
  <2>3. held' \in [Replicas -> {NotHeld} \cup [quotas : Quotas, at : Nat]]
    BY <1>4 DEF Received, QuotasTypeOK
  <2> QED BY <1>4, <2>2, <2>3 DEF Received, Only, QuotasTypeOK
<1>5. CASE Degraded(i)
  <2>1. maker' \in [Makers -> MakerStates]
    BY <1>5, OnlyTyped DEF Degraded
  <2> QED BY <1>5, <2>1 DEF Degraded, Only, QuotasTypeOK
<1>6. CASE Admit(i)
  <2>1. maker' \in [Makers -> MakerStates]
    BY <1>6, OnlyTyped DEF Admit
  <2>2. told' \in [Kinds -> Nat] /\ unasked' \in [Kinds -> Nat]
    BY <1>6 DEF Admit, QuotasTypeOK
  <2> QED BY <1>6, <2>1, <2>2 DEF Admit, Only, QuotasTypeOK
<1>7. CASE QuotaExceeded(i)
  <2>1. maker' \in [Makers -> MakerStates]
    BY <1>7, OnlyTyped DEF QuotaExceeded
  <2> QED BY <1>7, <2>1 DEF QuotaExceeded, Only, QuotasTypeOK
<1>8. CASE Create(i)
  <2>1. maker' \in [Makers -> MakerStates]
    BY <1>8, OnlyTyped DEF Create
  <2>2. things' \in [Kinds -> Nat]
    BY <1>8 DEF Create, QuotasTypeOK
  <2> QED BY <1>8, <2>1, <2>2 DEF Create, Only, QuotasTypeOK
<1>9. CASE NotCreated(i)
  <2>1. maker' \in [Makers -> MakerStates]
    BY <1>9, OnlyTyped DEF NotCreated
  <2> QED BY <1>9, <2>1 DEF NotCreated, Only, QuotasTypeOK
<1> QED BY <1>1, <1>2, <1>3, <1>4, <1>5, <1>6, <1>7, <1>8, <1>9 DEF MakerMoves

LEMMA TypeStep ==
  ASSUME QuotasTypeOK, [QuotasNext]_quotaVars
  PROVE  QuotasTypeOK'
<1>1. ASSUME NEW a \in Admins,
             PatchWrites(a) \/ \E k \in Kinds, l \in Limits : PatchReads(a, k, l)
      PROVE  QuotasTypeOK'
  BY <1>1, PatchTyped
<1>2. CASE ResetQuotas
  BY <1>2, ResetTyped
<1>3. ASSUME NEW i \in Makers, MakerMoves(i)
      PROVE  QuotasTypeOK'
  BY <1>3, MovesTyped
<1>4. ASSUME NEW k \in Kinds, RemoveOne(k)
      PROVE  QuotasTypeOK'
  <2>1. things' \in [Kinds -> Nat]
    BY <1>4 DEF RemoveOne, QuotasTypeOK
  <2> QED BY <1>4, <2>1 DEF RemoveOne, QuotasTypeOK
<1>5. ASSUME NEW r \in Replicas, ReplicaRestarts(r)
      PROVE  QuotasTypeOK'
  BY <1>5 DEF ReplicaRestarts, QuotasTypeOK
<1>6. CASE QuotaTimePasses
  BY <1>6 DEF QuotaTimePasses, QuotasTypeOK
<1>7. CASE UNCHANGED quotaVars
  BY <1>7 DEF quotaVars, QuotasTypeOK
<1>8. ASSUME NEW k \in Kinds, NEW n \in 1..MaxThings, GrowUnasked(k, n)
      PROVE  QuotasTypeOK'
  <2>1. things' \in [Kinds -> Nat] /\ unasked' \in [Kinds -> Nat]
    BY <1>8 DEF GrowUnasked, QuotasTypeOK
  <2> QED BY <1>8, <2>1 DEF GrowUnasked, QuotasTypeOK
<1> QED BY <1>1, <1>2, <1>3, <1>4, <1>5, <1>6, <1>7, <1>8 DEF QuotasNext, MakerMoves

(* The quota row, patches, caches and creations are always well-formed.    *)
THEOREM QuotasTypeCorrect == QuotasSpec => []QuotasTypeOK
<1>1. QuotasInit => QuotasTypeOK
  BY TypeInit
<1>2. QuotasTypeOK /\ [QuotasNext]_quotaVars => QuotasTypeOK'
  BY TypeStep
<1> QED BY <1>1, <1>2, PTL DEF QuotasSpec

--------------------------------------------------------------------------------
(* The overshoot.  A creation between its check and its transaction counts *)
(* as if it were made: when it was admitted there was room for one, and of *)
(* the others at most all but this one were in the same place.  What comes *)
(* unasked later is counted apart.                                         *)
Admitted(k) == {i \in Makers : maker[i].at = "create" /\ maker[i].kind = k}
Made(k) == things[k] + Cardinality(Admitted(k))
Bound(k) == told[k] + Cardinality(Makers) - 1 + unasked[k]
Room == \A k \in Kinds : Made(k) > 0 => Made(k) <= Bound(k)

LEMMA AdmittedFinite ==
  ASSUME NEW k \in Kinds
  PROVE  /\ IsFiniteSet(Admitted(k)) /\ Cardinality(Admitted(k)) \in Nat
         /\ Cardinality(Makers) \in Nat /\ Cardinality(Admitted(k)) <= Cardinality(Makers)
BY FS_Subset, FS_CardinalityType DEF Admitted

LEMMA AdmittedFiniteNext ==
  ASSUME NEW k \in Kinds
  PROVE  /\ IsFiniteSet(Admitted(k)') /\ Cardinality(Admitted(k)') \in Nat
         /\ Cardinality(Admitted(k)') <= Cardinality(Makers)
BY FS_Subset, FS_CardinalityType DEF Admitted

\* One creation enters or leaves the set; the others stay.
LEMMA AdmittedMoves ==
  ASSUME QuotasTypeOK, NEW i \in Makers, NEW m, Only(i, m), NEW k \in Kinds
  PROVE  /\ i \notin Admitted(k) /\ m.at = "create" /\ m.kind = k
              => Cardinality(Admitted(k)') = Cardinality(Admitted(k)) + 1
         /\ i \in Admitted(k) /\ ~(m.at = "create" /\ m.kind = k)
              => Cardinality(Admitted(k)') = Cardinality(Admitted(k)) - 1
         /\ (i \in Admitted(k) <=> m.at = "create" /\ m.kind = k)
              => Admitted(k)' = Admitted(k)
<1>1. maker' = [maker EXCEPT ![i] = m]
  BY DEF Only
<1>2. \A j \in Makers : maker'[j] = IF j = i THEN m ELSE maker[j]
  BY <1>1 DEF QuotasTypeOK
<1>3. Admitted(k)' = {j \in Makers : maker'[j].at = "create" /\ maker'[j].kind = k}
  BY DEF Admitted
<1>4. ASSUME i \notin Admitted(k), m.at = "create" /\ m.kind = k
      PROVE  Cardinality(Admitted(k)') = Cardinality(Admitted(k)) + 1
  <2>1. Admitted(k)' = Admitted(k) \cup {i}
    BY <1>2, <1>3, <1>4 DEF Admitted
  <2> QED BY <2>1, <1>4, AdmittedFinite, FS_AddElement
<1>5. ASSUME i \in Admitted(k), ~(m.at = "create" /\ m.kind = k)
      PROVE  Cardinality(Admitted(k)') = Cardinality(Admitted(k)) - 1
  <2>1. Admitted(k)' = Admitted(k) \ {i}
    BY <1>2, <1>3, <1>5 DEF Admitted
  <2> QED BY <2>1, <1>5, AdmittedFinite, FS_RemoveElement
<1>6. ASSUME i \in Admitted(k) <=> m.at = "create" /\ m.kind = k
      PROVE  Admitted(k)' = Admitted(k)
  BY <1>2, <1>3, <1>6 DEF Admitted
<1> QED BY <1>4, <1>5, <1>6

LEMMA RoomSame ==
  ASSUME QuotasTypeOK, Room, NEW k \in Kinds,
         Made(k)' <= Made(k), told'[k] = told[k], unasked'[k] = unasked[k],
         Made(k)' \in Nat
  PROVE  Made(k)' > 0 => Made(k)' <= Bound(k)'
BY AdmittedFinite DEF Room, Made, Bound, QuotasTypeOK

LEMMA RoomMoves ==
  ASSUME QuotasTypeOK, QuotasTypeOK', Room, NEW i \in Makers, MakerMoves(i)
  PROVE  Room'
<1> SUFFICES ASSUME NEW k \in Kinds
             PROVE  Made(k)' > 0 => Made(k)' <= Bound(k)'
  BY DEF Room
<1>0. /\ Made(k) = things[k] + Cardinality(Admitted(k))
      /\ Made(k)' = things'[k] + Cardinality(Admitted(k)')
      /\ things[k] \in Nat /\ things'[k] \in Nat /\ told[k] \in Nat
      /\ told'[k] \in Nat /\ Made(k)' \in Nat
  BY AdmittedFinite, AdmittedFiniteNext DEF Made, QuotasTypeOK
\* Steps that stay outside of "create".
<1>1. ASSUME NEW m, Only(i, m), m.at # "create", maker[i].at # "create",
             UNCHANGED <<things, told, unasked>>
      PROVE  Made(k)' > 0 => Made(k)' <= Bound(k)'
  <2>1. i \notin Admitted(k)
    BY <1>1 DEF Admitted
  <2>2. Admitted(k)' = Admitted(k)
    BY <1>1, <2>1, AdmittedMoves
  <2> QED BY <1>0, <1>1, <2>2, RoomSame
<1>2. CASE Admit(i)
  <2>1. /\ maker[i].at = "count" /\ things[maker[i].kind] < maker[i].limit
        /\ Only(i, [at |-> "create", kind |-> maker[i].kind])
        /\ things' = things
        /\ told' = [told EXCEPT ![maker[i].kind] =
                      IF maker[i].limit > @ THEN maker[i].limit ELSE @]
        /\ unasked' = [unasked EXCEPT ![maker[i].kind] = 0]
    BY <1>2 DEF Admit, Allows
  <2>2. maker[i].limit \in Nat /\ maker[i].kind \in Kinds /\ i \notin Admitted(k)
    BY <2>1, MakerCases DEF Admitted
  <2>3. CASE maker[i].kind = k
    <3>1. Cardinality(Admitted(k)') = Cardinality(Admitted(k)) + 1
      BY <2>1, <2>2, <2>3, AdmittedMoves
    <3>2. told'[k] >= maker[i].limit /\ unasked'[k] = 0
      BY <2>1, <2>2, <2>3, <1>0 DEF QuotasTypeOK
    <3> QED BY <1>0, <2>1, <2>2, <2>3, <3>1, <3>2, AdmittedFinite, AdmittedFiniteNext
            DEF Bound
  <2>4. CASE maker[i].kind # k
    <3>1. Admitted(k)' = Admitted(k)
      BY <2>1, <2>2, <2>4, AdmittedMoves
    <3>2. told'[k] = told[k] /\ unasked'[k] = unasked[k]
      BY <2>1, <2>4 DEF QuotasTypeOK
    <3> QED BY <1>0, <2>1, <3>1, <3>2, RoomSame
  <2> QED BY <2>3, <2>4
\* Steps that leave "create", with the thing or without it.
<1>3. ASSUME maker[i].at = "create", Only(i, NoMaker), UNCHANGED <<told, unasked>>,
             \/ things' = [things EXCEPT ![maker[i].kind] = @ + 1]
             \/ things' = things
      PROVE  Made(k)' > 0 => Made(k)' <= Bound(k)'
  <2>1. maker[i].kind \in Kinds
    BY <1>3, MakerCases
  <2>2. NoMaker.at # "create"
    BY DEF NoMaker
  <2>3. CASE maker[i].kind = k
    <3>1. i \in Admitted(k)
      BY <1>3, <2>3 DEF Admitted
    <3>2. Cardinality(Admitted(k)') = Cardinality(Admitted(k)) - 1
      BY <1>3, <2>2, <3>1, AdmittedMoves
    <3>3. things'[k] <= things[k] + 1
      BY <1>0, <1>3, <2>3 DEF QuotasTypeOK
    <3> QED BY <1>0, <1>3, <3>2, <3>3, RoomSame, AdmittedFinite
  <2>4. CASE maker[i].kind # k
    <3>1. i \notin Admitted(k)
      BY <2>4 DEF Admitted
    <3>2. Admitted(k)' = Admitted(k)
      BY <1>3, <2>2, <3>1, AdmittedMoves
    <3>3. things'[k] = things[k]
      BY <1>3, <2>4 DEF QuotasTypeOK
    <3> QED BY <1>0, <1>3, <3>2, <3>3, RoomSame
  <2> QED BY <2>3, <2>4
<1>4. ASSUME NEW r \in Replicas, NEW kind \in Kinds, UseCached(i, r, kind) \/ AskIdentity(i, r, kind)
      PROVE  Made(k)' > 0 => Made(k)' <= Bound(k)'
  BY <1>1, <1>4 DEF UseCached, AskIdentity, NoMaker
<1>5. CASE IdentityAnswers(i)
  BY <1>1, <1>5 DEF IdentityAnswers
<1>6. CASE Received(i)
  BY <1>1, <1>6 DEF Received
<1>7. CASE Degraded(i)
  BY <1>1, <1>7 DEF Degraded
<1>8. CASE QuotaExceeded(i)
  BY <1>1, <1>8 DEF QuotaExceeded, NoMaker
<1>9. CASE Create(i)
  BY <1>3, <1>9 DEF Create
<1>10. CASE NotCreated(i)
  BY <1>3, <1>10 DEF NotCreated
<1> QED BY <1>2, <1>4, <1>5, <1>6, <1>7, <1>8, <1>9, <1>10 DEF MakerMoves

LEMMA RoomStep ==
  ASSUME QuotasTypeOK, QuotasTypeOK', Room, [QuotasNext]_quotaVars
  PROVE  Room'
<1>1. ASSUME NEW i \in Makers, MakerMoves(i)
      PROVE  Room'
  BY <1>1, RoomMoves
<1>2. ASSUME UNCHANGED <<maker, told, unasked>>, \A k \in Kinds : things'[k] <= things[k]
      PROVE  Room'
  <2> SUFFICES ASSUME NEW k \in Kinds
               PROVE  Made(k)' > 0 => Made(k)' <= Bound(k)'
    BY DEF Room
  <2>1. Admitted(k)' = Admitted(k)
    BY <1>2 DEF Admitted
  <2>2. Made(k)' <= Made(k) /\ Made(k)' \in Nat
    BY <1>2, <2>1, AdmittedFinite DEF Made, QuotasTypeOK
  <2> QED BY <1>2, <2>2, RoomSame
<1>3. ASSUME NEW k \in Kinds, RemoveOne(k)
      PROVE  Room'
  BY <1>2, <1>3 DEF RemoveOne, QuotasTypeOK
<1>4. ASSUME NEW a \in Admins,
             PatchWrites(a) \/ \E k \in Kinds, l \in Limits : PatchReads(a, k, l)
      PROVE  Room'
  BY <1>2, <1>4 DEF PatchWrites, PatchReads, NewRow, QuotasTypeOK
<1>5. CASE ResetQuotas
  BY <1>2, <1>5 DEF ResetQuotas, NewRow, QuotasTypeOK
<1>6. ASSUME NEW r \in Replicas, ReplicaRestarts(r)
      PROVE  Room'
  BY <1>2, <1>6 DEF ReplicaRestarts, QuotasTypeOK
<1>7. CASE QuotaTimePasses
  BY <1>2, <1>7 DEF QuotaTimePasses, QuotasTypeOK
<1>8. CASE UNCHANGED quotaVars
  BY <1>2, <1>8 DEF quotaVars, QuotasTypeOK
<1>9. ASSUME NEW kind \in Kinds, NEW n \in 1..MaxThings, GrowUnasked(kind, n)
      PROVE  Room'
  <2> SUFFICES ASSUME NEW k \in Kinds
               PROVE  Made(k)' > 0 => Made(k)' <= Bound(k)'
    BY DEF Room
  <2>1. Admitted(k)' = Admitted(k)
    BY <1>9 DEF GrowUnasked, Admitted
  <2>2. /\ things[k] \in Nat /\ told[k] \in Nat /\ unasked[k] \in Nat
        /\ told' = told /\ n \in Nat /\ n > 0
    BY <1>9 DEF GrowUnasked, QuotasTypeOK
  <2>3. CASE k = kind
    <3>1. /\ things'[k] = things[k] + n /\ unasked'[k] = unasked[k] + n
          /\ things[k] >= n
      BY <1>9, <2>2, <2>3 DEF GrowUnasked, QuotasTypeOK
    <3> QED BY <2>1, <2>2, <3>1, AdmittedFinite DEF Room, Made, Bound
  <2>4. CASE k # kind
    <3>1. things'[k] = things[k] /\ unasked'[k] = unasked[k]
      BY <1>9, <2>4 DEF GrowUnasked, QuotasTypeOK
    <3> QED BY <2>1, <2>2, <3>1, AdmittedFinite DEF Room, Made, Bound
  <2> QED BY <2>3, <2>4
<1> QED BY <1>1, <1>3, <1>4, <1>5, <1>6, <1>7, <1>8, <1>9 DEF QuotasNext, MakerMoves

LEMMA RoomInit == QuotasInit => Room
<1> SUFFICES ASSUME QuotasInit, NEW k \in Kinds
             PROVE  Made(k) = 0
  BY DEF Room
<1>1. Admitted(k) = {}
  BY DEF QuotasInit, Admitted, NoMaker
<1> QED BY <1>1, FS_EmptySet DEF Made, QuotasInit

(* However many creations pass their checks together, and whatever the     *)
(* replicas believe the limit to be, a tenant has at most the highest      *)
(* limit it was admitted by, all creations in flight but one, and what was *)
(* never checked and came since the last admission.                        *)
THEOREM QuotaOvershoot == QuotasSpec => []QuotaOvershootBounded
<1>1. QuotasInit => QuotasTypeOK /\ Room
  BY TypeInit, RoomInit
<1>2. (QuotasTypeOK /\ Room) /\ [QuotasNext]_quotaVars => (QuotasTypeOK /\ Room)'
  BY TypeStep, RoomStep
<1>3. QuotasTypeOK /\ Room => QuotaOvershootBounded
  <2> SUFFICES ASSUME QuotasTypeOK, Room, NEW k \in Kinds, things[k] > 0
               PROVE  things[k] <= told[k] + Cardinality(Makers) - 1 + unasked[k]
    BY DEF QuotaOvershootBounded
  <2> QED BY AdmittedFinite DEF Room, Made, Bound, QuotasTypeOK
<1> QED BY <1>1, <1>2, <1>3, PTL DEF QuotasSpec

--------------------------------------------------------------------------------
(* The age of a cached limit.  Limits that were identity's at some moment  *)
(* not before t stay so: a limit that is replaced gets the time of it.     *)
Since(q, t) == \A k \in Kinds : q[k] # QuotasNow[k] => ruledAt[k][q[k]] >= t

Asking(i) == maker[i].at \in {"asked", "answered"}
Punctual == \A i \in Makers : Asking(i) =>
              maker[i].when <= quotaTime /\ quotaTime <= maker[i].when + QuotaTimeout
AnswersSince == \A i \in Makers :
                  maker[i].at = "answered" => Since(maker[i].quotas, maker[i].when)
HeldSince == \A r \in Replicas : held[r] # NotHeld =>
               held[r].at <= quotaTime /\ Since(held[r].quotas, held[r].at - QuotaTimeout)
Aging == Punctual /\ AnswersSince /\ HeldSince

LEMMA HeldCases ==
  ASSUME QuotasTypeOK, NEW r \in Replicas, held[r] # NotHeld
  PROVE  held[r].quotas \in Quotas /\ held[r].at \in Nat
BY DEF QuotasTypeOK

LEMMA RuledInt ==
  ASSUME QuotasTypeOK, NEW k \in Kinds, NEW l \in Limits
  PROVE  ruledAt[k][l] \in Int
<1>1. ruledAt[k] \in [Limits -> {-1} \cup Nat]
  BY DEF QuotasTypeOK
<1>2. ruledAt[k][l] = -1 \/ ruledAt[k][l] \in Nat
  BY <1>1
<1> QED BY <1>2

LEMMA RuledKept ==
  ASSUME QuotasTypeOK, NEW k \in Kinds, NEW l \in Limits, NEW t \in Int, t <= quotaTime,
         l # QuotasNow[k] => ruledAt[k][l] >= t,
         UNCHANGED <<quotaRow, ruledAt>> \/ \E row : NewRow(row)
  PROVE  l # QuotasNow'[k] => ruledAt'[k][l] >= t
<1>0. QuotasNow[k] \in Limits
  BY QuotasNowTyped DEF Quotas
<1>1. CASE UNCHANGED <<quotaRow, ruledAt>>
  BY <1>1 DEF QuotasNow
<1>2. ASSUME NEW row, NewRow(row)
      PROVE  ruledAt'[k][l] >= t
  <2>1. ruledAt'[k] = [ruledAt[k] EXCEPT ![QuotasNow[k]] = quotaTime]
    BY <1>2 DEF NewRow
  <2>2. ruledAt[k] \in [Limits -> {-1} \cup Nat] /\ quotaTime \in Nat
    BY DEF QuotasTypeOK
  <2>3. CASE l = QuotasNow[k]
    BY <1>0, <2>1, <2>2, <2>3
  <2>4. CASE l # QuotasNow[k]
    BY <1>0, <2>1, <2>2, <2>4
  <2> QED BY <2>3, <2>4
<1> QED BY <1>1, <1>2

\* What an answer that is still in flight, and one that is held, know.
LEMMA AnswerKept ==
  ASSUME QuotasTypeOK, Aging, NEW i \in Makers, maker'[i] = maker[i],
         UNCHANGED <<quotaRow, ruledAt>> \/ \E row : NewRow(row)
  PROVE  (maker[i].at = "answered" => Since(maker[i].quotas, maker[i].when))'
<1> SUFFICES ASSUME maker[i].at = "answered", NEW k \in Kinds
             PROVE  maker[i].quotas[k] # QuotasNow'[k]
                      => ruledAt'[k][maker[i].quotas[k]] >= maker[i].when
  BY DEF Since
<1>1. maker[i].quotas[k] \in Limits /\ maker[i].when \in Nat /\ maker[i].when <= quotaTime
  <2>1. maker[i].quotas \in Quotas /\ maker[i].when \in Nat
    BY MakerCases
  <2>2. maker[i].quotas[k] \in Limits
    BY <2>1 DEF Quotas
  <2> QED BY <2>1, <2>2 DEF Aging, Punctual, Asking
<1>2. maker[i].quotas[k] # QuotasNow[k] => ruledAt[k][maker[i].quotas[k]] >= maker[i].when
  BY DEF Aging, AnswersSince, Since
<1>3. \A l \in Limits, t \in Int :
        t <= quotaTime /\ (l # QuotasNow[k] => ruledAt[k][l] >= t)
          => (l # QuotasNow'[k] => ruledAt'[k][l] >= t)
  BY RuledKept
<1>4. maker[i].when \in Int
  BY <1>1
<1> QED BY <1>1, <1>2, <1>3, <1>4

LEMMA HeldKept ==
  ASSUME QuotasTypeOK, Aging, NEW r \in Replicas, held[r] # NotHeld, held'[r] = held[r],
         UNCHANGED <<quotaRow, ruledAt>> \/ \E row : NewRow(row)
  PROVE  Since(held[r].quotas, held[r].at - QuotaTimeout)'
<1> SUFFICES ASSUME NEW k \in Kinds
             PROVE  held[r].quotas[k] # QuotasNow'[k]
                      => ruledAt'[k][held[r].quotas[k]] >= held[r].at - QuotaTimeout
  BY DEF Since
<1>1. held[r].quotas[k] \in Limits /\ held[r].at - QuotaTimeout \in Int
      /\ held[r].at - QuotaTimeout <= quotaTime
  BY HeldCases DEF Aging, HeldSince, Quotas, QuotasTypeOK
<1>2. held[r].quotas[k] # QuotasNow[k]
        => ruledAt[k][held[r].quotas[k]] >= held[r].at - QuotaTimeout
  BY DEF Aging, HeldSince, Since
<1> QED BY <1>1, <1>2, RuledKept

\* The steps that leave what replicas and creations know as it is.
LEMMA AgingKept ==
  ASSUME QuotasTypeOK, Aging, quotaTime' = quotaTime,
         UNCHANGED <<quotaRow, ruledAt>> \/ \E row : NewRow(row),
         \A r \in Replicas : held'[r] = held[r] \/ held'[r] = NotHeld,
         \A i \in Makers : maker'[i] = maker[i] \/ maker'[i].at \notin {"asked", "answered"}
  PROVE  Aging'
<1>1. Punctual'
  BY DEF Aging, Punctual, Asking
<1>2. ASSUME NEW i \in Makers
      PROVE  (maker[i].at = "answered" => Since(maker[i].quotas, maker[i].when))'
  BY AnswerKept
<1>3. ASSUME NEW r \in Replicas
      PROVE  (held[r] # NotHeld =>
               held[r].at <= quotaTime /\ Since(held[r].quotas, held[r].at - QuotaTimeout))'
  BY HeldKept DEF Aging, HeldSince
<1> QED BY <1>1, <1>2, <1>3 DEF Aging, AnswersSince, HeldSince

LEMMA AgingMoves ==
  ASSUME QuotasTypeOK, Aging, NEW i \in Makers, MakerMoves(i)
  PROVE  Aging'
<1> USE DEF Only
<1>1. ASSUME NEW r \in Replicas, NEW k \in Kinds, UseCached(i, r, k)
      PROVE  Aging'
  BY <1>1, AgingKept DEF UseCached, QuotasTypeOK
<1>2. ASSUME NEW r \in Replicas, NEW k \in Kinds, AskIdentity(i, r, k)
      PROVE  Aging'
  <2>1. /\ maker' = [maker EXCEPT ![i] =
              [at |-> "asked", kind |-> k, by |-> r, when |-> quotaTime]]
        /\ UNCHANGED <<quotaRow, ruledAt, quotaTime, held>>
    BY <1>2 DEF AskIdentity
  <2>2. Punctual'
    BY <2>1 DEF Aging, Punctual, Asking, QuotasTypeOK
  <2>3. ASSUME NEW j \in Makers
        PROVE  (maker[j].at = "answered" => Since(maker[j].quotas, maker[j].when))'
    <3>1. CASE j = i
      BY <2>1, <3>1 DEF QuotasTypeOK
    <3>2. CASE j # i
      BY <2>1, <3>2, AnswerKept DEF QuotasTypeOK
    <3> QED BY <3>1, <3>2
  <2>4. ASSUME NEW s \in Replicas
        PROVE  (held[s] # NotHeld =>
                 held[s].at <= quotaTime /\ Since(held[s].quotas, held[s].at - QuotaTimeout))'
    BY <2>1, HeldKept DEF Aging, HeldSince
  <2> QED BY <2>2, <2>3, <2>4 DEF Aging, AnswersSince, HeldSince
<1>3. CASE IdentityAnswers(i)
  <2>1. /\ maker' = [maker EXCEPT ![i] =
              [at |-> "answered", kind |-> maker[i].kind, by |-> maker[i].by,
               when |-> maker[i].when, quotas |-> QuotasNow]]
        /\ maker[i].at = "asked"
        /\ UNCHANGED <<quotaRow, ruledAt, quotaTime, held>>
    BY <1>3 DEF IdentityAnswers
  <2>2. Punctual'
    BY <2>1 DEF Aging, Punctual, Asking, QuotasTypeOK
  <2>3. ASSUME NEW j \in Makers
        PROVE  (maker[j].at = "answered" => Since(maker[j].quotas, maker[j].when))'
    <3>1. CASE j = i
      BY <2>1, <3>1 DEF QuotasTypeOK, Since, QuotasNow
    <3>2. CASE j # i
      BY <2>1, <3>2, AnswerKept DEF QuotasTypeOK
    <3> QED BY <3>1, <3>2
  <2>4. ASSUME NEW s \in Replicas
        PROVE  (held[s] # NotHeld =>
                 held[s].at <= quotaTime /\ Since(held[s].quotas, held[s].at - QuotaTimeout))'
    BY <2>1, HeldKept DEF Aging, HeldSince
  <2> QED BY <2>2, <2>3, <2>4 DEF Aging, AnswersSince, HeldSince
<1>4. CASE Received(i)
  <2>1. /\ maker[i].at = "answered"
        /\ held' = [held EXCEPT ![maker[i].by] =
                      [quotas |-> maker[i].quotas, at |-> quotaTime]]
        /\ maker' = [maker EXCEPT ![i] = [at |-> "count", kind |-> maker[i].kind,
                      limit |-> maker[i].quotas[maker[i].kind]]]
        /\ UNCHANGED <<quotaRow, ruledAt, quotaTime>>
    BY <1>4 DEF Received
  <2>2. Punctual'
    BY <2>1 DEF Aging, Punctual, Asking, QuotasTypeOK
  <2>3. ASSUME NEW j \in Makers
        PROVE  (maker[j].at = "answered" => Since(maker[j].quotas, maker[j].when))'
    <3>1. CASE j = i
      BY <2>1, <3>1 DEF QuotasTypeOK
    <3>2. CASE j # i
      BY <2>1, <3>2, AnswerKept DEF QuotasTypeOK
    <3> QED BY <3>1, <3>2
  <2>4. ASSUME NEW s \in Replicas
        PROVE  (held[s] # NotHeld =>
                 held[s].at <= quotaTime /\ Since(held[s].quotas, held[s].at - QuotaTimeout))'
    <3>1. CASE s = maker[i].by
      <4>1. held'[s] = [quotas |-> maker[i].quotas, at |-> quotaTime]
        BY <2>1, <3>1 DEF QuotasTypeOK
      <4>2. /\ maker[i].when \in Nat /\ maker[i].when <= quotaTime
            /\ quotaTime <= maker[i].when + QuotaTimeout /\ quotaTime \in Nat
            /\ maker[i].quotas \in Quotas
        BY <2>1, MakerCases DEF Aging, Punctual, Asking, QuotasTypeOK
      <4>3. ASSUME NEW k \in Kinds, maker[i].quotas[k] # QuotasNow[k]
            PROVE  ruledAt[k][maker[i].quotas[k]] >= quotaTime - QuotaTimeout
        <5>1. ruledAt[k][maker[i].quotas[k]] >= maker[i].when
          BY <2>1, <4>3 DEF Aging, AnswersSince, Since
        <5>2. ruledAt[k][maker[i].quotas[k]] \in Int
          <6>1. maker[i].quotas[k] \in Limits
            BY <4>2 DEF Quotas
          <6> QED BY <6>1, RuledInt
        <5> QED BY <4>2, <5>1, <5>2
      <4>4. Since(held[s].quotas, held[s].at - QuotaTimeout)'
        BY <2>1, <4>1, <4>3 DEF Since, QuotasNow
      <4>5. held'[s].at <= quotaTime'
        BY <2>1, <4>1, <4>2
      <4> QED BY <4>4, <4>5
    <3>2. CASE s # maker[i].by
      <4>1. held'[s] = held[s]
        BY <2>1, <3>2 DEF QuotasTypeOK
      <4> QED BY <2>1, <4>1, HeldKept DEF Aging, HeldSince
    <3> QED BY <3>1, <3>2
  <2> QED BY <2>2, <2>3, <2>4 DEF Aging, AnswersSince, HeldSince
<1>5. CASE Degraded(i)
  BY <1>5, AgingKept DEF Degraded, QuotasTypeOK
<1>6. CASE Admit(i)
  BY <1>6, AgingKept DEF Admit, QuotasTypeOK
<1>7. CASE QuotaExceeded(i)
  BY <1>7, AgingKept DEF QuotaExceeded, QuotasTypeOK, NoMaker
<1>8. CASE Create(i)
  BY <1>8, AgingKept DEF Create, QuotasTypeOK, NoMaker
<1>9. CASE NotCreated(i)
  BY <1>9, AgingKept DEF NotCreated, QuotasTypeOK, NoMaker
<1> QED BY <1>1, <1>2, <1>3, <1>4, <1>5, <1>6, <1>7, <1>8, <1>9 DEF MakerMoves

LEMMA AgingStep ==
  ASSUME QuotasTypeOK, Aging, [QuotasNext]_quotaVars
  PROVE  Aging'
<1>1. ASSUME NEW i \in Makers, MakerMoves(i)
      PROVE  Aging'
  BY <1>1, AgingMoves
<1>2. ASSUME NEW a \in Admins,
             PatchWrites(a) \/ \E k \in Kinds, l \in Limits : PatchReads(a, k, l)
      PROVE  Aging'
  <2>1. CASE PatchWrites(a)
    BY <2>1, AgingKept DEF PatchWrites, NewRow
  <2>2. CASE \E k \in Kinds, l \in Limits : PatchReads(a, k, l)
    BY <2>2, AgingKept DEF PatchReads
  <2> QED BY <1>2, <2>1, <2>2
<1>3. CASE ResetQuotas
  BY <1>3, AgingKept DEF ResetQuotas, NewRow
<1>4. ASSUME NEW k \in Kinds, RemoveOne(k)
      PROVE  Aging'
  BY <1>4, AgingKept DEF RemoveOne
<1>5. ASSUME NEW r \in Replicas, ReplicaRestarts(r)
      PROVE  Aging'
  BY <1>5, AgingKept DEF ReplicaRestarts, QuotasTypeOK
<1>6. CASE QuotaTimePasses
  <2>1. /\ quotaTime' = quotaTime + 1
        /\ \A i \in Makers : Asking(i) => quotaTime < maker[i].when + QuotaTimeout
        /\ UNCHANGED <<quotaRow, ruledAt, held, maker>>
    BY <1>6 DEF QuotaTimePasses, Asking
  <2>2. Punctual'
    <3> SUFFICES ASSUME NEW i \in Makers, Asking(i)
                 PROVE  maker[i].when <= quotaTime' /\ quotaTime' <= maker[i].when + QuotaTimeout
      BY <2>1 DEF Punctual, Asking
    <3>1. maker[i].when \in Nat /\ quotaTime \in Nat /\ maker[i].when <= quotaTime
      BY MakerCases DEF Asking, Aging, Punctual, QuotasTypeOK
    <3> QED BY <2>1, <3>1
  <2>3. ASSUME NEW j \in Makers
        PROVE  (maker[j].at = "answered" => Since(maker[j].quotas, maker[j].when))'
    BY <2>1, AnswerKept
  <2>4. ASSUME NEW s \in Replicas
        PROVE  (held[s] # NotHeld =>
                 held[s].at <= quotaTime /\ Since(held[s].quotas, held[s].at - QuotaTimeout))'
    <3>1. CASE held[s] = NotHeld
      BY <2>1, <3>1
    <3>2. CASE held[s] # NotHeld
      <4>1. held'[s].at <= quotaTime'
        BY <2>1, <3>2, HeldCases DEF Aging, HeldSince, QuotasTypeOK
      <4> QED BY <2>1, <3>2, <4>1, HeldKept
    <3> QED BY <3>1, <3>2
  <2> QED BY <2>2, <2>3, <2>4 DEF Aging, AnswersSince, HeldSince
<1>7. CASE UNCHANGED quotaVars
  BY <1>7, AgingKept DEF quotaVars
<1>8. ASSUME NEW k \in Kinds, NEW n \in 1..MaxThings, GrowUnasked(k, n)
      PROVE  Aging'
  BY <1>8, AgingKept DEF GrowUnasked
<1> QED BY <1>1, <1>2, <1>3, <1>4, <1>5, <1>6, <1>7, <1>8 DEF QuotasNext, MakerMoves

(* Whatever the lifetime, the timeout, the number of replicas and the      *)
(* order of patches and answers: a limit that identity has replaced is not *)
(* applied from a cache longer than the lifetime plus one answer.          *)
THEOREM OldLimitBrief == QuotasSpec => []OldLimitIsBrief
<1>1. QuotasInit => QuotasTypeOK /\ Aging
  BY TypeInit DEF QuotasInit, Aging, Punctual, Asking, AnswersSince, HeldSince, NoMaker
<1>2. (QuotasTypeOK /\ Aging) /\ [QuotasNext]_quotaVars => (QuotasTypeOK /\ Aging)'
  BY TypeStep, AgingStep
<1>3. QuotasTypeOK /\ Aging => OldLimitIsBrief
  <2> SUFFICES ASSUME QuotasTypeOK, Aging, NEW r \in Replicas, NEW k \in Kinds, Fresh(r),
                      held[r].quotas[k] # QuotasNow[k]
               PROVE  ruledAt[k][held[r].quotas[k]] + QuotaTtl + QuotaTimeout > quotaTime
    BY DEF OldLimitIsBrief
  <2>1. held[r] # NotHeld /\ quotaTime - held[r].at < QuotaTtl
    BY DEF Fresh
  <2>2. held[r].quotas[k] \in Limits /\ held[r].at \in Nat /\ quotaTime \in Nat
    BY <2>1, HeldCases DEF Quotas, QuotasTypeOK
  <2>3. ruledAt[k][held[r].quotas[k]] >= held[r].at - QuotaTimeout
    BY <2>1 DEF Aging, HeldSince, Since
  <2>4. ruledAt[k][held[r].quotas[k]] \in Int
    BY <2>2, RuledInt
  <2> QED BY <2>1, <2>2, <2>3, <2>4
<1> QED BY <1>1, <1>2, <1>3, PTL DEF QuotasSpec

(* Both, for every value of the constants.                                 *)
THEOREM QuotasAlwaysHold == QuotasSpec => []QuotasHold
<1>1. QuotaOvershootBounded /\ OldLimitIsBrief => QuotasHold
  BY DEF QuotasHold
<1> QED BY <1>1, QuotaOvershoot, OldLimitBrief, PTL

--------------------------------------------------------------------------------
(***************************************************************************)
(* The parts together.                                                     *)
(***************************************************************************)

(* Whatever rotations, revocations, creations and erasures run side by     *)
(* side: keys.py keeps one signer and the keys of live tokens, store.py    *)
(* and the pollers hold revocations there are, and quotas and erasures     *)
(* stay well-formed.                                                       *)
THEOREM IdentityIsSound == IdentitySpec => []IdentitySound
BY RotationIsSound, RevocationIsSound, QuotasTypeCorrect, ErasureTypeCorrect, PTL
   DEF IdentitySpec, IdentitySound

================================================================================
