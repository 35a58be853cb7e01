------------------------- MODULE CoordinationProofs -------------------------
(***************************************************************************)
(* Proofs about the resource locks, the worker loop and the schema         *)
(* migrations for every set of replicas, holders, workers, slots, versions *)
(* and runners.                                                            *)
(***************************************************************************)
EXTENDS Coordination, NatExtrema

--------------------------------------------------------------------------------
(***************************************************************************)
(* Resource locks.  What a holder was told is in the row its replica       *)
(* answers from.                                                           *)
(***************************************************************************)

LockRows == [holder : Holders, left : Left]
LockCalls ==
  [at : {"setnx", "getkey", "expire", "local", "undo", "poll", "update",
         "reread", "drop"},
   op : {"acquire", "heartbeat", "release"}, rep : Replicas,
   holder : Holders, ttl : Ttls]
CallsTyped == req \in [Requests -> LockCalls \cup {NULL}]

(* A handler that moves on, answers or is called keeps the types of calls. *)
LEMMA CallMoves ==
  ASSUME LockTypeOK, NEW q \in Requests, req[q] # NULL,
         NEW at \in {"setnx", "getkey", "expire", "local", "undo", "poll",
                     "update", "reread", "drop"},
         Step(q, at)
  PROVE  CallsTyped'
<1>1. req \in [Requests -> LockCalls \cup {NULL}]
  BY DEF LockTypeOK, LockCalls
<1> DEFINE c == [req[q] EXCEPT !.at = at]
<1>2. c \in LockCalls
  BY <1>1 DEF LockCalls
<1>3. req' = [req EXCEPT ![q] = c]
  BY DEF Step
<1> HIDE DEF c
<1> QED BY <1>1, <1>2, <1>3 DEF CallsTyped

LEMMA CallAnswered ==
  ASSUME LockTypeOK, NEW q \in Requests, Answer(q)
  PROVE  CallsTyped'
<1>1. req \in [Requests -> LockCalls \cup {NULL}]
  BY DEF LockTypeOK, LockCalls
<1> QED BY <1>1 DEF CallsTyped, Answer

LEMMA CallStarts ==
  ASSUME LockTypeOK, NEW q \in Requests, NEW r \in Replicas, NEW h \in Holders,
         NEW t \in Ttls, NEW op \in {"acquire", "heartbeat", "release"},
         NEW at \in {"setnx", "local", "update", "drop"},
         req' = [req EXCEPT ![q] = Call(at, op, r, h, t)]
  PROVE  CallsTyped'
<1>1. req \in [Requests -> LockCalls \cup {NULL}]
  BY DEF LockTypeOK, LockCalls
<1>2. Call(at, op, r, h, t) \in LockCalls
  BY DEF Call, LockCalls
<1> QED BY <1>1, <1>2 DEF CallsTyped

LEMMA CallGoesOn ==
  ASSUME LockTypeOK, NEW q \in Requests, req[q] # NULL,
         Granted(q) \/ Denied(q) \/ Refuse(q)
  PROVE  CallsTyped'
BY CallMoves, CallAnswered DEF Granted, Denied, Refuse

(* What the handlers know of their call.                                   *)
LEMMA CallHas ==
  ASSUME LockTypeOK, NEW q \in Requests, req[q] # NULL
  PROVE  req[q].rep \in Replicas /\ req[q].holder \in Holders /\ req[q].ttl \in Ttls
<1>1. req[q] \in LockCalls
  BY DEF LockTypeOK, LockCalls
<1> QED BY <1>1 DEF LockCalls

LEMMA LockConstants ==
  /\ MaxTtl \in Nat /\ \A t \in Ttls : t \in 1..MaxTtl /\ t \in Left
  /\ \A h \in Holders, t \in Left : Tagged(h, t) \in LockRows /\ Tagged(h, t) # NULL
  /\ \A h \in Holders : \A t : Tagged(h, t).holder = h /\ Tagged(h, t).left = t
<1>1. MaxTtl \in Nat /\ \A t \in Ttls : t \in 1..MaxTtl /\ t \in Left
  BY LockAssumption DEF Left
<1>2. NULL \notin LockRows
  BY LockAssumption DEF LockRows, Left
<1>3. \A h \in Holders, t \in Left : Tagged(h, t) \in LockRows
  BY DEF Tagged, LockRows
<1>4. \A h \in Holders : \A t : Tagged(h, t).holder = h /\ Tagged(h, t).left = t
  BY DEF Tagged
<1> QED BY <1>1, <1>2, <1>3, <1>4

(* The types, with names for the sets of records.                          *)
LockKeys == [holder : Holders, left : 1..MaxTtl] \cup {NULL}
SweepStates == [at : {"idle", "delete", "release"}, stale : SUBSET Holders]
RowsTyped == row \in [Replicas -> LockRows \cup {NULL}]
KeyTyped == key \in LockKeys
SweepersTyped == sweeper \in [Replicas -> SweepStates]
GrantTyped == grant \in [Replicas -> [Holders -> Left]]

LEMMA LockTypes ==
  /\ LockTypeOK <=> /\ clustered \in BOOLEAN
                    /\ RowsTyped /\ KeyTyped /\ CallsTyped /\ SweepersTyped /\ GrantTyped
  /\ LockTypeOK' <=> /\ clustered' \in BOOLEAN
                     /\ RowsTyped' /\ KeyTyped' /\ CallsTyped' /\ SweepersTyped' /\ GrantTyped'
BY DEF LockTypeOK, LockRows, LockCalls, CallsTyped, LockKeys, SweepStates, RowsTyped,
       KeyTyped, SweepersTyped, GrantTyped

LEMMA OlderIs ==
  ASSUME NEW t \in Left
  PROVE  /\ Older(t) \in Left /\ (Older(t) > 0 => t > 0)
         /\ \A u \in Left : t > 0 /\ u >= t => Older(u) >= Older(t)
BY LockAssumption DEF Left, Older

LockInv == LockTypeOK /\ PromiseKept

(* Nobody is promised a lock whose row is not active.                      *)
LEMMA NoPromise ==
  ASSUME LockInv, NEW r \in Replicas, row[r] = NULL \/ row[r].left < 0
  PROVE  \A h \in Holders : ~Promised(r, h)
<1>1. grant \in [Replicas -> [Holders -> Left]] /\ row \in [Replicas -> LockRows \cup {NULL}]
  BY LockTypes DEF LockInv, GrantTyped, RowsTyped
<1>2. row[r] # NULL => row[r].left \in Int
  BY <1>1 DEF LockRows, Left
<1>3. \A h \in Holders : grant[r][h] \in Int
  BY <1>1 DEF Left
<1> QED BY <1>2, <1>3 DEF LockInv, PromiseKept, Promised, Held

(* A promise that is made from a row the holder has, or may take.          *)
LEMMA PromiseMade ==
  ASSUME LockInv, NEW r \in Replicas, NEW h \in Holders, NEW t \in Ttls,
         Takeable(r) \/ Held(r, h),
         row' = [row EXCEPT ![r] = Tagged(h, t)],
         grant' = [grant EXCEPT ![r][h] = t]
  PROVE  /\ PromiseKept'
         /\ RowsTyped' /\ GrantTyped'
<1>1. grant \in [Replicas -> [Holders -> Left]] /\ row \in [Replicas -> LockRows \cup {NULL}]
  BY LockTypes DEF LockInv, GrantTyped, RowsTyped
<1>2. t \in Left /\ t \in Int /\ t > 0
  BY LockConstants
<1>3. /\ Tagged(h, t) \in LockRows /\ Tagged(h, t) # NULL
      /\ Tagged(h, t).holder = h /\ Tagged(h, t).left = t
  BY <1>2, LockConstants
<1>4. row' \in [Replicas -> LockRows \cup {NULL}] /\ row'[r] = Tagged(h, t)
  BY <1>1, <1>3
<1>5. grant' \in [Replicas -> [Holders -> Left]]
  BY <1>1, <1>2
<1>6. ASSUME NEW g \in Holders, g # h PROVE ~Promised(r, g)
  <2>1. CASE Takeable(r)
    BY <2>1, NoPromise DEF Takeable, Expired
  <2>2. CASE Held(r, h)
    BY <1>6, <2>2 DEF LockInv, PromiseKept, Held
  <2> QED BY <2>1, <2>2
<1>7. ASSUME NEW s \in Replicas, NEW g \in Holders, Promised(s, g)'
      PROVE  (Held(s, g) /\ row[s].left >= grant[s][g])'
  <2>1. CASE s = r /\ g = h
    <3>1. grant'[s][g] = t
      BY <1>1, <2>1
    <3> QED BY <1>2, <1>3, <1>4, <2>1, <3>1 DEF Held
  <2>2. CASE s = r /\ g # h
    <3>1. grant'[s][g] = grant[s][g]
      BY <1>1, <2>2
    <3> QED BY <1>6, <1>7, <2>2, <3>1 DEF Promised
  <2>3. CASE s # r
    <3>1. grant'[s][g] = grant[s][g] /\ row'[s] = row[s]
      BY <1>1, <2>3
    <3> QED BY <1>7, <3>1 DEF LockInv, PromiseKept, Promised, Held
  <2> QED BY <2>1, <2>2, <2>3
<1> QED BY <1>4, <1>5, <1>7 DEF PromiseKept, RowsTyped, GrantTyped

LEMMA LockStart == LockInit => LockInv
<1> SUFFICES ASSUME LockInit PROVE LockInv
  OBVIOUS
<1>1. LockTypeOK
  <2>1. GrantTyped
    BY LockConstants DEF LockInit, Left, GrantTyped
  <2>2. SweepersTyped
    BY DEF LockInit, SweepersTyped, SweepStates
  <2>3. RowsTyped /\ KeyTyped /\ CallsTyped /\ clustered \in BOOLEAN
    BY DEF LockInit, CallsTyped, RowsTyped, KeyTyped, LockKeys
  <2> QED BY <2>1, <2>2, <2>3, LockTypes
<1>2. PromiseKept
  <2>1. \A r \in Replicas, h \in Holders : ~Promised(r, h)
    BY DEF LockInit, Promised
  <2> QED BY <2>1 DEF PromiseKept
<1> QED BY <1>1, <1>2 DEF LockInv

(* A step that leaves rows and promises alone only has types to keep.      *)
LEMMA PromisesUntouched ==
  ASSUME LockInv, UNCHANGED <<clustered, row, grant>>,
         KeyTyped', CallsTyped', SweepersTyped'
  PROVE  LockInv'
<1>1. PromiseKept'
  BY DEF LockInv, PromiseKept, Promised, Held
<1>2. LockTypeOK'
  BY LockTypes DEF LockInv, RowsTyped, GrantTyped
<1> QED BY <1>1, <1>2 DEF LockInv

LEMMA KeyDropped ==
  ASSUME KeyTyped, NEW hs, DropKey(hs)
  PROVE  KeyTyped'
BY DEF KeyTyped, DropKey, LockKeys

LEMMA LockStep == LockInv /\ [LockNext]_lockVars => LockInv'
<1> SUFFICES ASSUME LockInv, [LockNext]_lockVars PROVE LockInv'
  OBVIOUS
<1>1. /\ LockTypeOK /\ clustered \in BOOLEAN
      /\ RowsTyped /\ KeyTyped /\ CallsTyped /\ SweepersTyped /\ GrantTyped
  BY LockTypes DEF LockInv
<1>2. ASSUME UNCHANGED sweeper PROVE SweepersTyped'
  BY <1>1, <1>2 DEF SweepersTyped
<1>3. ASSUME UNCHANGED key PROVE KeyTyped'
  BY <1>1, <1>3 DEF KeyTyped
<1>4. ASSUME UNCHANGED req PROVE CallsTyped'
  BY <1>1, <1>4 DEF CallsTyped
<1>5. ASSUME NEW q \in Requests, HandlerStep(q) PROVE LockInv'
  <2>1. CASE SetNx(q)
    <3>1. req[q] # NULL /\ UNCHANGED <<clustered, row, sweeper, grant>>
      BY <2>1 DEF SetNx, At
    <3>2. CASE key = NULL /\ key' = Tagged(req[q].holder, req[q].ttl) /\ Granted(q)
      <4>1. KeyTyped'
        BY <1>1, <3>1, <3>2, CallHas, LockConstants DEF KeyTyped, LockKeys, Tagged
      <4>2. CallsTyped'
        BY <1>1, <3>1, <3>2, CallGoesOn
      <4> QED BY <1>2, <3>1, <4>1, <4>2, PromisesUntouched
    <3>3. CASE Step(q, "getkey") /\ UNCHANGED key
      <4>1. CallsTyped'
        BY <1>1, <3>1, <3>3, CallMoves
      <4> QED BY <1>2, <1>3, <3>1, <3>3, <4>1, PromisesUntouched
    <3>4. CASE Denied(q) /\ UNCHANGED key
      <4>1. CallsTyped'
        BY <1>1, <3>1, <3>4, CallGoesOn
      <4> QED BY <1>2, <1>3, <3>1, <3>4, <4>1, PromisesUntouched
    <3> QED BY <2>1, <3>2, <3>3, <3>4 DEF SetNx
  <2>2. CASE GetKey(q)
    <3>1. /\ req[q] # NULL /\ UNCHANGED <<clustered, row, key, sweeper, grant>>
          /\ Step(q, "expire") \/ Denied(q)
      BY <2>2 DEF GetKey, At
    <3>2. CallsTyped'
      BY <1>1, <3>1, CallGoesOn, CallMoves
    <3> QED BY <1>2, <1>3, <3>1, <3>2, PromisesUntouched
  <2>3. CASE Expire(q)
    <3>1. /\ req[q] # NULL /\ UNCHANGED <<clustered, row, sweeper, grant>>
          /\ Granted(q) \/ Denied(q)
          /\ \/ key' = IF key = NULL THEN NULL ELSE [key EXCEPT !.left = req[q].ttl]
             \/ UNCHANGED key
      BY <2>3 DEF Expire, At
    <3>2. CallsTyped'
      BY <1>1, <3>1, CallGoesOn
    <3>3. KeyTyped'
      <4>1. req[q].ttl \in 1..MaxTtl
        BY <1>1, <3>1, CallHas, LockConstants
      <4> QED BY <1>1, <3>1, <4>1 DEF KeyTyped, LockKeys
    <3> QED BY <1>2, <3>1, <3>2, <3>3, PromisesUntouched
  <2>4. CASE Poll(q)
    <3>1. /\ req[q] # NULL /\ UNCHANGED <<clustered, row, key, sweeper, grant>>
          /\ Step(q, Gate) /\ Gate \in {"setnx", "local"}
      BY <2>4 DEF Poll, At, Gate
    <3>2. CallsTyped'
      BY <1>1, <3>1, CallMoves
    <3> QED BY <1>2, <1>3, <3>1, <3>2, PromisesUntouched
  <2>5. CASE AcquireRow(q)
    <3> DEFINE r == req[q].rep
               h == req[q].holder
               t == req[q].ttl
    <3>1. /\ req[q] # NULL /\ UNCHANGED <<clustered, key, sweeper>> /\ Answer(q)
          /\ Takeable(r)
          /\ row' = [row EXCEPT ![r] = Tagged(h, t)]
          /\ grant' = [grant EXCEPT ![r][h] = t]
      BY <2>5 DEF AcquireRow, At
    <3>2. r \in Replicas /\ h \in Holders /\ t \in Ttls
      BY <1>1, <3>1, CallHas
    <3>3. CallsTyped'
      BY <1>1, <3>1, CallAnswered
    <3> HIDE DEF r, h, t
    <3>4. PromiseKept' /\ RowsTyped' /\ GrantTyped'
      BY <3>1, <3>2, PromiseMade
    <3> QED BY <1>1, <1>2, <1>3, <3>1, <3>3, <3>4, LockTypes DEF LockInv
  <2>6. CASE AcquireRefused(q)
    <3>1. /\ req[q] # NULL /\ UNCHANGED <<clustered, row, key, sweeper, grant>>
          /\ Step(q, "undo") \/ Refuse(q)
      BY <2>6 DEF AcquireRefused, At
    <3>2. CallsTyped'
      BY <1>1, <3>1, CallGoesOn, CallMoves
    <3> QED BY <1>2, <1>3, <3>1, <3>2, PromisesUntouched
  <2>7. CASE AcquireUndo(q)
    <3>1. /\ req[q] # NULL /\ UNCHANGED <<clustered, row, sweeper, grant>>
          /\ Refuse(q) /\ DropKey({req[q].holder})
      BY <2>7 DEF AcquireUndo, At
    <3>2. CallsTyped' /\ KeyTyped'
      BY <1>1, <3>1, CallGoesOn, KeyDropped
    <3> QED BY <1>2, <3>1, <3>2, PromisesUntouched
  <2>8. CASE HeartbeatUpdate(q)
    <3> DEFINE r == req[q].rep
               h == req[q].holder
               t == req[q].ttl
    <3>1. /\ req[q] # NULL /\ UNCHANGED <<clustered, key, sweeper>> /\ Step(q, "reread")
          /\ \/ /\ Held(r, h)
                /\ row' = [row EXCEPT ![r] = Tagged(h, t)]
                /\ grant' = [grant EXCEPT ![r][h] = t]
             \/ UNCHANGED <<row, grant>>
      BY <2>8 DEF HeartbeatUpdate, At, RenewableBy
    <3>2. r \in Replicas /\ h \in Holders /\ t \in Ttls
      BY <1>1, <3>1, CallHas
    <3>3. CallsTyped'
      BY <1>1, <3>1, CallMoves
    <3> HIDE DEF r, h, t
    <3>4. CASE UNCHANGED <<row, grant>>
      BY <1>2, <1>3, <3>1, <3>3, <3>4, PromisesUntouched
    <3>5. CASE /\ Held(r, h)
               /\ row' = [row EXCEPT ![r] = Tagged(h, t)]
               /\ grant' = [grant EXCEPT ![r][h] = t]
      <4>1. PromiseKept' /\ RowsTyped' /\ GrantTyped'
        BY <3>2, <3>5, PromiseMade
      <4> QED BY <1>1, <1>2, <1>3, <3>1, <3>3, <4>1, LockTypes DEF LockInv
    <3> QED BY <3>1, <3>4, <3>5
  <2>9. CASE HeartbeatAnswer(q)
    <3>1. /\ req[q] # NULL /\ UNCHANGED <<clustered, row, key, sweeper, grant>>
          /\ Step(q, "setnx") \/ Answer(q)
      BY <2>9 DEF HeartbeatAnswer, At
    <3>2. CallsTyped'
      BY <1>1, <3>1, CallAnswered, CallMoves
    <3> QED BY <1>2, <1>3, <3>1, <3>2, PromisesUntouched
  <2>10. CASE ReleaseDrop(q)
    <3>1. /\ UNCHANGED <<clustered, row, sweeper, grant>>
          /\ Answer(q) /\ DropKey({req[q].holder})
      BY <2>10 DEF ReleaseDrop
    <3>2. CallsTyped' /\ KeyTyped'
      BY <1>1, <3>1, CallAnswered, KeyDropped
    <3> QED BY <1>2, <3>1, <3>2, PromisesUntouched
  <2> QED BY <1>5, <2>1, <2>2, <2>3, <2>4, <2>5, <2>6, <2>7, <2>8, <2>9, <2>10
          DEF HandlerStep
<1>6. ASSUME NEW q \in Requests, LoseCall(q) PROVE LockInv'
  <2>1. Answer(q) /\ UNCHANGED <<clustered, row, key, sweeper, grant>>
    BY <1>6 DEF LoseCall
  <2>2. CallsTyped'
    BY <1>1, <2>1, CallAnswered
  <2> QED BY <1>2, <1>3, <2>1, <2>2, PromisesUntouched
<1>7. ASSUME NEW q \in Requests, NEW r \in Replicas, NEW h \in Holders, NEW t \in Ttls,
             StartAcquire(q, r, h, t) \/ HeartbeatRead(q, r, h, t)
      PROVE  LockInv'
  <2>1. /\ UNCHANGED <<clustered, row, key, sweeper, grant>>
        /\ \/ req' = [req EXCEPT ![q] = Call(Gate, "acquire", r, h, t)]
           \/ req' = [req EXCEPT ![q] = Call("update", "heartbeat", r, h, t)]
        /\ Gate \in {"setnx", "local"}
    BY <1>7 DEF StartAcquire, HeartbeatRead, Gate
  <2>2. CallsTyped'
    BY <1>1, <2>1, CallStarts
  <2> QED BY <1>2, <1>3, <2>1, <2>2, PromisesUntouched
<1>8. ASSUME NEW q \in Requests, NEW r \in Replicas, NEW h \in Holders,
             ReleaseLock(q, r, h)
      PROVE  LockInv'
  <2>1. /\ UNCHANGED <<clustered, key, sweeper>>
        /\ row' = IF Held(r, h) THEN [row EXCEPT ![r] = NULL] ELSE row
        /\ grant' = [grant EXCEPT ![r][h] = -1]
        /\ \/ \E t \in Ttls : req' = [req EXCEPT ![q] = Call("drop", "release", r, h, t)]
           \/ UNCHANGED req
    BY <1>8 DEF ReleaseLock
  <2>2. CallsTyped'
    BY <1>1, <1>4, <2>1, CallStarts
  <2>3. RowsTyped' /\ GrantTyped'
    <3>1. -1 \in Left
      BY LockConstants DEF Left
    <3> QED BY <1>1, <2>1, <3>1 DEF RowsTyped, GrantTyped
  <2>4. PromiseKept'
    <3> SUFFICES ASSUME NEW s \in Replicas, NEW g \in Holders, Promised(s, g)'
                 PROVE  (Held(s, g) /\ row[s].left >= grant[s][g])'
      BY DEF PromiseKept
    <3>1. ~(s = r /\ g = h)
      BY <1>1, <2>1 DEF Promised, GrantTyped
    <3>2. grant'[s][g] = grant[s][g]
      BY <1>1, <2>1, <3>1 DEF GrantTyped
    <3>3. Held(s, g) /\ row[s].left >= grant[s][g]
      BY <3>2 DEF LockInv, PromiseKept, Promised
    <3>4. row'[s] = row[s]
      BY <1>1, <2>1, <3>1, <3>3 DEF Held, RowsTyped
    <3> QED BY <3>2, <3>3, <3>4 DEF Held
  <2> QED BY <1>1, <1>2, <1>3, <2>1, <2>2, <2>3, <2>4, LockTypes DEF LockInv
<1>9. ASSUME NEW r \in Replicas, SweepStep(r) PROVE LockInv'
  <2>1. CASE SweepSelect(r)
    <3>1. UNCHANGED <<clustered, row, key, req, grant>>
      BY <2>1 DEF SweepSelect
    <3>2. IF Expired(r) THEN {row[r].holder} \in SUBSET Holders ELSE TRUE
      BY <1>1 DEF RowsTyped, LockRows, Expired
    <3>3. SweepersTyped'
      <4> DEFINE st == IF Expired(r) THEN {row[r].holder} ELSE {}
                 w == [at |-> "delete", stale |-> st]
      <4>1. st \in SUBSET Holders
        BY <3>2
      <4>2. sweeper' = [sweeper EXCEPT ![r] = w]
        BY <2>1 DEF SweepSelect
      <4> HIDE DEF st
      <4>3. w \in SweepStates
        BY <4>1 DEF SweepStates
      <4> QED BY <1>1, <4>2, <4>3 DEF SweepersTyped
    <3> QED BY <1>3, <1>4, <3>1, <3>3, PromisesUntouched
  <2>2. CASE SweepDelete(r)
    <3> DEFINE w == [sweeper[r] EXCEPT !.at =
                       IF sweeper[r].stale # {} THEN "release" ELSE "idle"]
    <3>1. /\ UNCHANGED <<clustered, key, req, grant>>
          /\ row' = IF Expired(r) THEN [row EXCEPT ![r] = NULL] ELSE row
          /\ sweeper' = [sweeper EXCEPT ![r] = w]
      BY <2>2 DEF SweepDelete
    <3>2. w \in SweepStates
      <4>1. sweeper[r] \in SweepStates
        BY <1>1 DEF SweepersTyped
      <4> QED BY <4>1 DEF SweepStates
    <3>3. SweepersTyped' /\ RowsTyped' /\ GrantTyped'
      <4> HIDE DEF w
      <4> QED BY <1>1, <3>1, <3>2 DEF SweepersTyped, RowsTyped, GrantTyped
    <3>4. PromiseKept'
      <4> SUFFICES ASSUME NEW s \in Replicas, NEW g \in Holders, Promised(s, g)
                   PROVE  (Held(s, g) /\ row[s].left >= grant[s][g])'
        BY <3>1 DEF PromiseKept, Promised
      <4>1. ~(s = r /\ Expired(r))
        BY NoPromise DEF Expired
      <4>2. row'[s] = row[s]
        BY <1>1, <3>1, <4>1 DEF RowsTyped
      <4> QED BY <3>1, <4>2 DEF LockInv, PromiseKept, Held
    <3> QED BY <1>1, <1>3, <1>4, <3>1, <3>3, <3>4, LockTypes DEF LockInv
  <2>3. CASE SweepRelease(r)
    <3>1. /\ UNCHANGED <<clustered, row, req, grant>> /\ DropKey(sweeper[r].stale)
          /\ sweeper' = [sweeper EXCEPT ![r] = [at |-> "idle", stale |-> {}]]
      BY <2>3 DEF SweepRelease
    <3>2. KeyTyped'
      BY <1>1, <3>1, KeyDropped
    <3>3. SweepersTyped'
      BY <1>1, <3>1 DEF SweepersTyped, SweepStates
    <3> QED BY <1>4, <3>1, <3>2, <3>3, PromisesUntouched
  <2> QED BY <1>9, <2>1, <2>2, <2>3 DEF SweepStep
<1>10. CASE LockTick
  <2>1. /\ row' = [r \in Replicas |-> IF row[r] = NULL THEN NULL
                                      ELSE [row[r] EXCEPT !.left = Older(@)]]
        /\ grant' = [r \in Replicas |-> [h \in Holders |-> Older(grant[r][h])]]
        /\ UNCHANGED <<clustered, req, sweeper>>
    BY <1>10 DEF LockTick
  <2>2. ASSUME NEW r \in Replicas, row[r] # NULL
        PROVE  /\ row'[r] \in LockRows /\ row'[r] # NULL
               /\ row[r].left \in Left /\ row'[r].left = Older(row[r].left)
               /\ row'[r].holder = row[r].holder
    <3>1. row[r] \in LockRows /\ row'[r] = [row[r] EXCEPT !.left = Older(@)]
      BY <1>1, <2>1, <2>2 DEF RowsTyped
    <3>2. row[r].left \in Left /\ Older(row[r].left) \in Left
      BY <3>1, OlderIs DEF LockRows
    <3>3. /\ row'[r] \in LockRows /\ row'[r].left = Older(row[r].left)
          /\ row'[r].holder = row[r].holder
      BY <3>1, <3>2 DEF LockRows
    <3>4. NULL \notin LockRows
      BY LockAssumption DEF LockRows, Left
    <3> QED BY <3>2, <3>3, <3>4
  <2>3. RowsTyped'
    <3>1. \A r \in Replicas : row'[r] \in LockRows \cup {NULL}
      BY <2>1, <2>2
    <3> QED BY <2>1, <3>1 DEF RowsTyped
  <2>4. ASSUME NEW r \in Replicas, NEW h \in Holders
        PROVE  grant[r][h] \in Left /\ grant'[r][h] = Older(grant[r][h])
    BY <1>1, <2>1 DEF GrantTyped
  <2>5. GrantTyped'
    <3>1. \A r \in Replicas : \A h \in Holders : Older(grant[r][h]) \in Left
      BY <2>4, OlderIs
    <3> QED BY <2>1, <3>1 DEF GrantTyped
  <2>6. KeyTyped'
    <3>1. CASE key' = NULL
      BY <3>1 DEF KeyTyped, LockKeys
    <3>2. CASE key' # NULL
      <4>1. key # NULL /\ key.left # 1 /\ key' = [key EXCEPT !.left = Older(@)]
        BY <1>10, <3>2 DEF LockTick
      <4>2. key.left \in 1..MaxTtl /\ MaxTtl \in Nat
        BY <1>1, <4>1, LockConstants DEF KeyTyped, LockKeys
      <4>3. Older(key.left) \in 1..MaxTtl
        BY <4>1, <4>2 DEF Older
      <4> QED BY <1>1, <4>1, <4>3 DEF KeyTyped, LockKeys
    <3> QED BY <3>1, <3>2
  <2>7. PromiseKept'
    <3> SUFFICES ASSUME NEW s \in Replicas, NEW g \in Holders, Promised(s, g)'
                 PROVE  (Held(s, g) /\ row[s].left >= grant[s][g])'
      BY DEF PromiseKept
    <3>1. grant[s][g] \in Left /\ grant'[s][g] = Older(grant[s][g])
      BY <2>4
    <3>2. grant[s][g] > 0
      BY <3>1, OlderIs DEF Promised
    <3>3. Held(s, g) /\ row[s].left >= grant[s][g]
      BY <3>2 DEF LockInv, PromiseKept, Promised
    <3>4. /\ row'[s] # NULL /\ row'[s].holder = row[s].holder
          /\ row[s].left \in Left /\ row'[s].left = Older(row[s].left)
      BY <2>2, <3>3 DEF Held
    <3>5. Older(row[s].left) >= Older(grant[s][g])
      BY <3>1, <3>2, <3>3, <3>4, OlderIs
    <3> QED BY <3>1, <3>3, <3>4, <3>5 DEF Held
  <2> QED BY <1>1, <1>2, <1>4, <2>1, <2>3, <2>5, <2>6, <2>7, LockTypes DEF LockInv
<1>11. CASE UNCHANGED lockVars
  BY <1>2, <1>3, <1>4, <1>11, PromisesUntouched DEF lockVars
<1> QED BY <1>5, <1>6, <1>7, <1>8, <1>9, <1>10, <1>11 DEF LockNext

(* A replica never promises a lock to two holders for the same time and    *)
(* never takes a promised lock away, for any number of replicas, holders   *)
(* and requests.                                                           *)
THEOREM PromisesAreKept == LockSpec => []PromisesHold
<1>1. LockInv => PromisesHold
  <2> SUFFICES ASSUME LockInv PROVE PromisesHold
    OBVIOUS
  <2>1. GrantsExclusive
    BY DEF LockInv, PromiseKept, GrantsExclusive, Held
  <2> QED BY <2>1 DEF LockInv, PromisesHold
<1> QED BY <1>1, LockStart, LockStep, PTL DEF LockSpec

--------------------------------------------------------------------------------
(***************************************************************************)
(* The worker.  A slot at work holds the lease, and only one does.         *)
(***************************************************************************)

LeaseRows == [worker : Workers, status : {"running", "released", "expired"}, left : -1..Ttl]
Places == {"idle", "handler", "completed", "failed", "out"}
Phases == {"new", "up", "stopping", "cancelled", "drained", "dead"}
Entries == {"none", "active", "draining", "gone"}

LeaseTyped == lease \in LeaseRows \cup {NoLease}
SlotsTyped == slot \in [Workers -> [Slots -> Places]]
BeatsTyped == beat \in [Workers -> [Slots -> BOOLEAN]]
PhaseTyped == phase \in [Workers -> Phases]
RegistryTyped == registry \in [Workers -> Entries]
StepTyped == step \in {"pending", "running", "completed", "failed"} /\ tries \in 1..MaxAttempts

LEMMA WorkerTypes ==
  /\ WorkerTypeOK <=> /\ timely \in BOOLEAN /\ StepTyped /\ LeaseTyped
                      /\ SlotsTyped /\ BeatsTyped /\ PhaseTyped /\ RegistryTyped
  /\ WorkerTypeOK' <=> /\ timely' \in BOOLEAN /\ StepTyped' /\ LeaseTyped'
                       /\ SlotsTyped' /\ BeatsTyped' /\ PhaseTyped' /\ RegistryTyped'
BY DEF WorkerTypeOK, LeaseRows, Places, Phases, Entries, LeaseTyped, SlotsTyped,
       BeatsTyped, PhaseTyped, RegistryTyped, StepTyped

(* A slot that has the step: its handler runs, or its release is due.      *)
Busy(w, i) == slot[w][i] \in {"handler", "completed", "failed"}

OneAtWork == timely =>
  \A w, v \in Workers : \A i, j \in Slots : Busy(w, i) /\ Busy(v, j) => w = v /\ i = j

(* A slot is at work only under an active lease, which its heartbeat keeps. *)
WorkIsLeased == timely =>
  \A w \in Workers : \A i \in Slots :
    Busy(w, i) => /\ Running(w) /\ lease.left > 0
                  /\ Working(w, i) => beat[w][i]

(* worker.ts holds no lease that none of its slots will release.           *)
LeaseIsWorked == timely =>
  \A w \in Workers \ Python :
    phase[w] # "dead" /\ Running(w) => \E i \in Slots : Busy(w, i)

OffIsOut == \A w \in Workers : phase[w] \in {"new", "drained", "dead"} => AllOut(w)

WorkerInv == /\ WorkerTypeOK /\ OneAtWork /\ WorkIsLeased /\ LeaseIsWorked
             /\ OffIsOut /\ DrainIsRecorded

LEMMA LeaseRowHas ==
  /\ Ttl \in Nat /\ Ttl > 0
  /\ \A w \in Workers, st \in {"running", "released", "expired"}, t \in -1..Ttl :
       /\ Row(w, st, t) \in LeaseRows
       /\ Row(w, st, t).worker = w /\ Row(w, st, t).status = st /\ Row(w, st, t).left = t
  /\ \A r \in LeaseRows : r.worker \in Workers /\ r.left \in -1..Ttl /\ r # NoLease
  /\ NoLease.status = "none"
<1>1. Ttl \in Nat /\ Ttl > 0
  BY WorkerAssumption
<1>2. \A w \in Workers, st \in {"running", "released", "expired"}, t \in -1..Ttl :
       /\ Row(w, st, t) \in LeaseRows
       /\ Row(w, st, t).worker = w /\ Row(w, st, t).status = st /\ Row(w, st, t).left = t
  BY DEF Row, LeaseRows
<1>3. \A r \in LeaseRows : r.worker \in Workers /\ r.left \in -1..Ttl
                           /\ r.status \in {"running", "released", "expired"}
  BY DEF LeaseRows
<1>4. NoLease.status = "none"
  BY DEF NoLease
<1> QED BY <1>1, <1>2, <1>3, <1>4

LEMMA WorkerStart == WorkerInit => WorkerInv
<1> SUFFICES ASSUME WorkerInit PROVE WorkerInv
  OBVIOUS
<1>1. /\ \A w \in Workers : phase[w] = "new"
      /\ \A w \in Workers : \A i \in Slots : slot[w][i] = "out"
      /\ lease = NoLease
  BY DEF WorkerInit
<1>2. WorkerTypeOK
  <2>1. StepTyped
    BY WorkerAssumption DEF WorkerInit, StepTyped
  <2>2. /\ timely \in BOOLEAN /\ LeaseTyped /\ SlotsTyped /\ BeatsTyped
        /\ PhaseTyped /\ RegistryTyped
    BY DEF WorkerInit, LeaseTyped, SlotsTyped, BeatsTyped, PhaseTyped, RegistryTyped,
           Places, Phases, Entries
  <2> QED BY <2>1, <2>2, WorkerTypes
<1>3. \A w \in Workers : ~Running(w) /\ \A i \in Slots : ~Busy(w, i)
  BY <1>1 DEF Running, LeasedBy, Busy
<1> QED BY <1>1, <1>2, <1>3
        DEF WorkerInv, OneAtWork, WorkIsLeased, LeaseIsWorked, OffIsOut, DrainIsRecorded,
            AllOut

LEMMA LeaseKept ==
  ASSUME LeaseTyped, lease.status = "running", NEW t \in -1..Ttl,
         lease' = [lease EXCEPT !.left = t]
  PROVE  /\ LeaseTyped' /\ lease'.left = t /\ lease'.status = "running"
         /\ \A v \in Workers : Running(v)' <=> Running(v)
<1>1. lease \in LeaseRows
  BY LeaseRowHas DEF LeaseTyped
<1>2. /\ lease' \in LeaseRows /\ lease'.left = t
      /\ lease'.status = lease.status /\ lease'.worker = lease.worker
  BY <1>1 DEF LeaseRows
<1>3. lease # NoLease /\ lease' # NoLease
  BY <1>1, <1>2, LeaseRowHas
<1> QED BY <1>2, <1>3 DEF LeaseTyped, Running, LeasedBy

LEMMA SlotSet ==
  ASSUME SlotsTyped, NEW w \in Workers, NEW i \in Slots, NEW at \in Places,
         SetSlot(w, i, at)
  PROVE  /\ SlotsTyped'
         /\ \A v \in Workers : \A j \in Slots :
              slot'[v][j] = IF v = w /\ j = i THEN at ELSE slot[v][j]
BY DEF SlotsTyped, SetSlot

LEMMA WorkerSteps == WorkerInv /\ [WorkerNext]_workVars => WorkerInv'
<1> SUFFICES ASSUME WorkerInv, [WorkerNext]_workVars PROVE WorkerInv'
  OBVIOUS
<1>0. /\ timely \in BOOLEAN /\ StepTyped /\ LeaseTyped
      /\ SlotsTyped /\ BeatsTyped /\ PhaseTyped /\ RegistryTyped
  BY WorkerTypes DEF WorkerInv
<1>1. ASSUME UNCHANGED <<timely, slot>>,
             \A v \in Workers : (Running(v)' => Running(v)) /\ (phase'[v] # "dead" => phase[v] # "dead")
      PROVE  LeaseIsWorked'
  BY <1>1 DEF WorkerInv, LeaseIsWorked, Busy
<1>2. ASSUME UNCHANGED <<slot, lease, beat, timely>>
      PROVE  OneAtWork' /\ WorkIsLeased'
  BY <1>2 DEF WorkerInv, OneAtWork, WorkIsLeased, Busy, Working, Running, LeasedBy
<1>3. ASSUME NEW w \in Workers, Register(w) PROVE WorkerInv'
  <2>1. /\ phase[w] = "new"
        /\ phase' = [phase EXCEPT ![w] = "up"]
        /\ slot' = [slot EXCEPT ![w] = [i \in Slots |-> "idle"]]
        /\ registry' = [registry EXCEPT ![w] = "active"]
        /\ UNCHANGED <<timely, step, tries, lease, beat>>
    BY <1>3 DEF Register, stepVars
  <2>2. /\ \A v \in Workers : phase'[v] = IF v = w THEN "up" ELSE phase[v]
        /\ \A v \in Workers : registry'[v] = IF v = w THEN "active" ELSE registry[v]
        /\ \A v \in Workers : \A j \in Slots :
             slot'[v][j] = IF v = w THEN "idle" ELSE slot[v][j]
        /\ SlotsTyped' /\ PhaseTyped' /\ RegistryTyped'
    BY <1>0, <2>1 DEF SlotsTyped, PhaseTyped, RegistryTyped, Places, Phases, Entries
  <2>3. WorkerTypeOK'
    BY <1>0, <2>1, <2>2, WorkerTypes DEF StepTyped, LeaseTyped, BeatsTyped
  <2>4. OneAtWork' /\ WorkIsLeased'
    BY <2>1, <2>2 DEF WorkerInv, OneAtWork, WorkIsLeased, Busy, Working, Running, LeasedBy
  <2>5. LeaseIsWorked'
    <3>1. \A j \in Slots : ~Busy(w, j)
      BY <2>1 DEF WorkerInv, OffIsOut, AllOut, Busy
    <3> QED BY <2>1, <2>2, <3>1 DEF WorkerInv, LeaseIsWorked, Busy, Running, LeasedBy
  <2>6. OffIsOut' /\ DrainIsRecorded'
    BY <2>1, <2>2 DEF WorkerInv, OffIsOut, DrainIsRecorded, AllOut
  <2> QED BY <2>3, <2>4, <2>5, <2>6 DEF WorkerInv
<1>4. ASSUME NEW w \in Workers, NEW i \in Slots, Claim(w, i) PROVE WorkerInv'
  <2>1. /\ phase[w] = "up" /\ ~Active
        /\ step' = "running" /\ lease' = Row(w, "running", Ttl)
        /\ \/ SetSlot(w, i, "handler") /\ SetBeat(w, i, TRUE)
           \/ w \in Python /\ UNCHANGED <<slot, beat>>
        /\ UNCHANGED <<timely, tries, phase, registry>>
    BY <1>4 DEF Claim, Claimable
  <2>2. /\ Ttl \in -1..Ttl /\ LeaseTyped'
        /\ lease'.left = Ttl /\ Ttl > 0
        /\ \A v \in Workers : Running(v)' <=> v = w
    <3>1. Ttl \in -1..Ttl /\ Ttl > 0
      BY LeaseRowHas
    <3>2. /\ lease' \in LeaseRows /\ lease' # NoLease
          /\ lease'.worker = w /\ lease'.status = "running" /\ lease'.left = Ttl
      BY <2>1, <3>1, LeaseRowHas
    <3> QED BY <3>1, <3>2 DEF LeaseTyped, Running, LeasedBy
  <2>3. timely => \A v \in Workers : \A j \in Slots : ~Busy(v, j)
    BY <2>1 DEF WorkerInv, WorkIsLeased, Running, Active
  <2>4. OffIsOut' /\ DrainIsRecorded'
    <3>1. \A v \in Workers : v # w => slot'[v] = slot[v]
      BY <1>0, <2>1 DEF SetSlot, SlotsTyped
    <3> QED BY <2>1, <3>1 DEF WorkerInv, OffIsOut, DrainIsRecorded, AllOut
  <2>5. CASE SetSlot(w, i, "handler") /\ SetBeat(w, i, TRUE)
    <3>1. /\ SlotsTyped' /\ BeatsTyped'
          /\ \A v \in Workers : \A j \in Slots :
               /\ slot'[v][j] = IF v = w /\ j = i THEN "handler" ELSE slot[v][j]
               /\ beat'[v][j] = IF v = w /\ j = i THEN TRUE ELSE beat[v][j]
      <4>1. "handler" \in Places
        BY DEF Places
      <4>2. /\ SlotsTyped'
            /\ \A v \in Workers : \A j \in Slots :
                 slot'[v][j] = IF v = w /\ j = i THEN "handler" ELSE slot[v][j]
        BY <1>0, <2>5, <4>1, SlotSet
      <4>3. /\ BeatsTyped'
            /\ \A v \in Workers : \A j \in Slots :
                 beat'[v][j] = IF v = w /\ j = i THEN TRUE ELSE beat[v][j]
        BY <1>0, <2>5 DEF SetBeat, BeatsTyped
      <4> QED BY <4>2, <4>3
    <3>2. WorkerTypeOK'
      BY <1>0, <2>1, <2>2, <3>1, WorkerTypes DEF StepTyped, PhaseTyped, RegistryTyped
    <3>3. /\ \A v \in Workers : \A j \in Slots : timely /\ Busy(v, j)' => v = w /\ j = i
          /\ Busy(w, i)' /\ beat'[w][i]
      BY <2>3, <3>1 DEF Busy
    <3>4. OneAtWork' /\ WorkIsLeased'
      BY <2>1, <2>2, <3>3 DEF OneAtWork, WorkIsLeased
    <3>5. LeaseIsWorked'
      BY <2>2, <3>3 DEF LeaseIsWorked
    <3> QED BY <2>4, <3>2, <3>4, <3>5 DEF WorkerInv
  <2>6. CASE w \in Python /\ UNCHANGED <<slot, beat>>
    <3>1. WorkerTypeOK'
      BY <1>0, <2>1, <2>2, <2>6, WorkerTypes
         DEF StepTyped, PhaseTyped, RegistryTyped, SlotsTyped, BeatsTyped
    <3>2. timely' => \A v \in Workers : \A j \in Slots : ~Busy(v, j)'
      BY <2>1, <2>3, <2>6 DEF Busy
    <3>3. OneAtWork' /\ WorkIsLeased' /\ LeaseIsWorked'
      BY <2>2, <2>6, <3>2 DEF OneAtWork, WorkIsLeased, LeaseIsWorked
    <3> QED BY <2>4, <3>1, <3>3 DEF WorkerInv
  <2> QED BY <2>1, <2>5, <2>6
<1>5. ASSUME NEW w \in Workers, NEW i \in Slots, NEW o \in {"completed", "failed"},
             HandlerEnds(w, i, o)
      PROVE  WorkerInv'
  <2>1. /\ slot[w][i] = "handler"
        /\ SetSlot(w, i, o) /\ SetBeat(w, i, w \notin Python)
        /\ UNCHANGED <<timely, step, tries, lease, phase, registry>>
    BY <1>5 DEF HandlerEnds, stepVars
  <2>2. /\ SlotsTyped' /\ BeatsTyped'
        /\ \A v \in Workers : \A j \in Slots :
             /\ slot'[v][j] = IF v = w /\ j = i THEN o ELSE slot[v][j]
             /\ beat'[v][j] = IF v = w /\ j = i THEN w \notin Python ELSE beat[v][j]
    <3>1. o \in Places
      BY DEF Places
    <3>2. /\ SlotsTyped'
          /\ \A v \in Workers : \A j \in Slots :
               slot'[v][j] = IF v = w /\ j = i THEN o ELSE slot[v][j]
      BY <1>0, <2>1, <3>1, SlotSet
    <3>3. /\ BeatsTyped'
          /\ \A v \in Workers : \A j \in Slots :
               beat'[v][j] = IF v = w /\ j = i THEN w \notin Python ELSE beat[v][j]
      BY <1>0, <2>1 DEF SetBeat, BeatsTyped
    <3> QED BY <3>2, <3>3
  <2>3. WorkerTypeOK'
    BY <1>0, <2>1, <2>2, WorkerTypes DEF StepTyped, LeaseTyped, PhaseTyped, RegistryTyped
  <2>4. \A v \in Workers : \A j \in Slots :
          /\ Busy(v, j)' <=> Busy(v, j)
          /\ Working(v, j)' => Working(v, j) /\ beat'[v][j] = beat[v][j]
    BY <2>1, <2>2 DEF Busy, Working
  <2>5. \A v \in Workers : Running(v)' <=> Running(v)
    BY <2>1 DEF Running, LeasedBy
  <2>6. OneAtWork' /\ WorkIsLeased' /\ LeaseIsWorked'
    BY <2>1, <2>4, <2>5 DEF WorkerInv, OneAtWork, WorkIsLeased, LeaseIsWorked
  <2>7. OffIsOut' /\ DrainIsRecorded'
    <3>1. phase[w] \notin {"new", "drained", "dead"}
      BY <2>1 DEF WorkerInv, OffIsOut, AllOut
    <3>2. OffIsOut'
      BY <2>1, <2>2, <3>1 DEF WorkerInv, OffIsOut, AllOut
    <3>3. DrainIsRecorded'
      BY <2>1 DEF WorkerInv, DrainIsRecorded
    <3> QED BY <3>2, <3>3
  <2> QED BY <2>3, <2>6, <2>7 DEF WorkerInv
<1>6. ASSUME NEW w \in Workers, NEW i \in Slots, ReleaseLease(w, i) PROVE WorkerInv'
  <2> DEFINE to == IF phase[w] = "up" THEN "idle" ELSE "out"
  <2>1. /\ slot[w][i] \in {"completed", "failed"}
        /\ \/ Releasable(w) /\ ReleaseStep(w, slot[w][i])
           \/ (Releasable(w) => ~timely) /\ UNCHANGED <<step, tries, lease>>
        /\ SetSlot(w, i, to) /\ SetBeat(w, i, FALSE)
        /\ UNCHANGED <<timely, phase, registry>>
    BY <1>6 DEF ReleaseLease, stepVars
  <2>2. /\ SlotsTyped' /\ BeatsTyped'
        /\ \A v \in Workers : \A j \in Slots :
             /\ slot'[v][j] = IF v = w /\ j = i THEN to ELSE slot[v][j]
             /\ beat'[v][j] = IF v = w /\ j = i THEN FALSE ELSE beat[v][j]
    <3>1. to \in Places
      BY DEF Places
    <3> HIDE DEF to
    <3>2. /\ SlotsTyped'
          /\ \A v \in Workers : \A j \in Slots :
               slot'[v][j] = IF v = w /\ j = i THEN to ELSE slot[v][j]
      BY <1>0, <2>1, <3>1, SlotSet
    <3>3. /\ BeatsTyped'
          /\ \A v \in Workers : \A j \in Slots :
               beat'[v][j] = IF v = w /\ j = i THEN FALSE ELSE beat[v][j]
      BY <1>0, <2>1 DEF SetBeat, BeatsTyped
    <3> QED BY <3>2, <3>3
  <2>3. to \in {"idle", "out"}
    OBVIOUS
  <2> HIDE DEF to
  <2>4. LeaseTyped' /\ StepTyped'
    <3>1. CASE UNCHANGED <<step, tries, lease>>
      BY <1>0, <3>1 DEF LeaseTyped, StepTyped
    <3>2. CASE ReleaseStep(w, slot[w][i])
      <4>1. LeaseTyped'
        BY <3>2, LeaseRowHas DEF ReleaseStep, LeaseTyped
      <4>2. StepTyped'
        BY <1>0, <2>1, <3>2, WorkerAssumption DEF ReleaseStep, Retried, StepTyped
      <4> QED BY <4>1, <4>2
    <3> QED BY <2>1, <3>1, <3>2
  <2>5. WorkerTypeOK'
    BY <1>0, <2>1, <2>2, <2>4, WorkerTypes DEF PhaseTyped, RegistryTyped
  <2>6. timely => \A v \in Workers : ~Running(v)'
    <3> SUFFICES ASSUME timely PROVE \A v \in Workers : ~Running(v)'
      OBVIOUS
    <3>1. LeasedBy(w)
      BY <2>1 DEF WorkerInv, WorkIsLeased, Busy, Running
    <3>2. lease' = Row(w, "released", 0) /\ 0 \in -1..Ttl
      BY <2>1, <3>1, LeaseRowHas DEF Releasable, ReleaseStep
    <3>3. lease'.status = "released"
      BY <3>2, LeaseRowHas
    <3> QED BY <3>3 DEF Running
  <2>7. timely => \A v \in Workers : \A j \in Slots : ~Busy(v, j)'
    <3>1. Busy(w, i)
      BY <2>1 DEF Busy
    <3>2. \A v \in Workers : \A j \in Slots : Busy(v, j)' => Busy(v, j) /\ ~(v = w /\ j = i)
      BY <2>2, <2>3 DEF Busy
    <3> QED BY <3>1, <3>2 DEF WorkerInv, OneAtWork
  <2>8. OneAtWork' /\ WorkIsLeased' /\ LeaseIsWorked'
    BY <2>1, <2>6, <2>7 DEF OneAtWork, WorkIsLeased, LeaseIsWorked
  <2>9. OffIsOut' /\ DrainIsRecorded'
    <3>1. phase[w] \notin {"new", "drained", "dead"}
      BY <2>1 DEF WorkerInv, OffIsOut, AllOut
    <3>2. OffIsOut'
      <4> SUFFICES ASSUME NEW v \in Workers, NEW j \in Slots,
                          phase[v] \in {"new", "drained", "dead"}
                   PROVE  slot'[v][j] = "out"
        BY <2>1 DEF OffIsOut, AllOut
      <4>1. v # w /\ slot[v][j] = "out"
        BY <3>1 DEF WorkerInv, OffIsOut, AllOut
      <4> QED BY <2>2, <4>1
    <3>3. DrainIsRecorded'
      BY <2>1 DEF WorkerInv, DrainIsRecorded
    <3> QED BY <3>2, <3>3
  <2> QED BY <2>5, <2>8, <2>9 DEF WorkerInv
<1>7. ASSUME NEW w \in Workers, NEW i \in Slots, Heartbeat(w, i) PROVE WorkerInv'
  <2>1. /\ \/ Running(w) /\ lease' = [lease EXCEPT !.left = Ttl] /\ UNCHANGED beat
           \/ /\ Running(w) => ~timely
              /\ SetBeat(w, i, w \notin Python)
              /\ UNCHANGED lease
        /\ UNCHANGED <<timely, step, tries, phase, slot, registry>>
    BY <1>7 DEF Heartbeat
  <2>2. OffIsOut' /\ DrainIsRecorded'
    BY <2>1 DEF WorkerInv, OffIsOut, DrainIsRecorded, AllOut
  <2>3. \A v \in Workers : \A j \in Slots :
          (Busy(v, j)' <=> Busy(v, j)) /\ (Working(v, j)' <=> Working(v, j))
    BY <2>1 DEF Busy, Working
  <2>4. CASE Running(w) /\ lease' = [lease EXCEPT !.left = Ttl] /\ UNCHANGED beat
    <3>1. lease.status = "running" /\ Ttl \in -1..Ttl /\ Ttl > 0
      BY <2>4, LeaseRowHas DEF Running
    <3>2. LeaseTyped' /\ lease'.left = Ttl /\ \A v \in Workers : Running(v)' <=> Running(v)
      BY <1>0, <2>4, <3>1, LeaseKept
    <3>3. WorkerTypeOK'
      BY <1>0, <2>1, <2>4, <3>2, WorkerTypes
         DEF StepTyped, PhaseTyped, RegistryTyped, SlotsTyped, BeatsTyped
    <3>4. OneAtWork' /\ WorkIsLeased' /\ LeaseIsWorked'
      BY <2>1, <2>3, <2>4, <3>1, <3>2 DEF WorkerInv, OneAtWork, WorkIsLeased, LeaseIsWorked
    <3> QED BY <2>2, <3>3, <3>4 DEF WorkerInv
  <2>5. CASE (Running(w) => ~timely) /\ SetBeat(w, i, w \notin Python) /\ UNCHANGED lease
    <3>1. /\ BeatsTyped'
          /\ \A v \in Workers : \A j \in Slots :
               beat'[v][j] = IF v = w /\ j = i THEN w \notin Python ELSE beat[v][j]
      BY <1>0, <2>5 DEF SetBeat, BeatsTyped
    <3>2. WorkerTypeOK'
      BY <1>0, <2>1, <2>5, <3>1, WorkerTypes
         DEF StepTyped, LeaseTyped, PhaseTyped, RegistryTyped, SlotsTyped
    <3>3. timely => \A j \in Slots : ~Busy(w, j)
      BY <2>5 DEF WorkerInv, WorkIsLeased
    <3>4. \A v \in Workers : Running(v)' <=> Running(v)
      BY <2>5 DEF Running, LeasedBy
    <3>5. OneAtWork' /\ WorkIsLeased' /\ LeaseIsWorked'
      BY <2>1, <2>3, <2>5, <3>1, <3>3, <3>4
         DEF WorkerInv, OneAtWork, WorkIsLeased, LeaseIsWorked
    <3> QED BY <2>2, <3>2, <3>5 DEF WorkerInv
  <2> QED BY <2>1, <2>4, <2>5
<1>8. ASSUME NEW w \in Workers, Stop(w) PROVE WorkerInv'
  <2>1. /\ phase[w] = "up" /\ phase' = [phase EXCEPT ![w] = "stopping"]
        /\ UNCHANGED <<timely, step, tries, lease, slot, beat, registry>>
    BY <1>8 DEF Stop, stepVars
  <2>2. PhaseTyped' /\ \A v \in Workers : phase'[v] = IF v = w THEN "stopping" ELSE phase[v]
    BY <1>0, <2>1 DEF PhaseTyped, Phases
  <2>3. WorkerTypeOK'
    BY <1>0, <2>1, <2>2, WorkerTypes
       DEF StepTyped, LeaseTyped, RegistryTyped, SlotsTyped, BeatsTyped
  <2>4. LeaseIsWorked'
    BY <1>1, <2>1, <2>2 DEF Running, LeasedBy
  <2>5. OffIsOut' /\ DrainIsRecorded'
    BY <2>1, <2>2 DEF WorkerInv, OffIsOut, DrainIsRecorded, AllOut
  <2> QED BY <1>2, <2>1, <2>3, <2>4, <2>5 DEF WorkerInv
<1>9. ASSUME NEW w \in Workers, CancelSlots(w) PROVE WorkerInv'
  <2>1. /\ w \in Python /\ phase[w] = "stopping"
        /\ phase' = [phase EXCEPT ![w] = "cancelled"]
        /\ slot' = [slot EXCEPT ![w] = [i \in Slots |-> Cancelled(slot[w][i])]]
        /\ UNCHANGED <<timely, step, tries, lease, beat, registry>>
    BY <1>9 DEF CancelSlots, stepVars
  <2>2. PhaseTyped' /\ \A v \in Workers : phase'[v] = IF v = w THEN "cancelled" ELSE phase[v]
    BY <1>0, <2>1 DEF PhaseTyped, Phases
  <2>3. /\ SlotsTyped'
        /\ \A v \in Workers : \A j \in Slots :
             slot'[v][j] = IF v = w THEN Cancelled(slot[v][j]) ELSE slot[v][j]
    BY <1>0, <2>1 DEF SlotsTyped, Cancelled, Places
  <2>4. WorkerTypeOK'
    BY <1>0, <2>1, <2>2, <2>3, WorkerTypes DEF StepTyped, LeaseTyped, RegistryTyped, BeatsTyped
  <2>5. \A v \in Workers : \A j \in Slots :
          /\ Busy(v, j)' => Busy(v, j)
          /\ Working(v, j)' => Working(v, j)
          /\ v # w => (Busy(v, j)' <=> Busy(v, j))
    BY <2>3 DEF Busy, Working, Cancelled
  <2>6. \A v \in Workers : Running(v)' <=> Running(v)
    BY <2>1 DEF Running, LeasedBy
  <2>7. OneAtWork' /\ WorkIsLeased'
    BY <2>1, <2>5, <2>6 DEF WorkerInv, OneAtWork, WorkIsLeased
  <2>8. LeaseIsWorked'
    BY <2>1, <2>2, <2>5, <2>6 DEF WorkerInv, LeaseIsWorked
  <2>9. OffIsOut' /\ DrainIsRecorded'
    BY <2>1, <2>2, <2>3 DEF WorkerInv, OffIsOut, DrainIsRecorded, AllOut
  <2> QED BY <2>4, <2>7, <2>8, <2>9 DEF WorkerInv
<1>10. ASSUME NEW w \in Workers, NEW i \in Slots, SlotEnds(w, i) PROVE WorkerInv'
  <2>1. /\ slot[w][i] = "idle" /\ SetSlot(w, i, "out")
        /\ UNCHANGED <<timely, step, tries, lease, phase, beat, registry>>
    BY <1>10 DEF SlotEnds, stepVars
  <2>2. /\ SlotsTyped'
        /\ \A v \in Workers : \A j \in Slots :
             slot'[v][j] = IF v = w /\ j = i THEN "out" ELSE slot[v][j]
    BY <1>0, <2>1, SlotSet DEF Places
  <2>3. WorkerTypeOK'
    BY <1>0, <2>1, <2>2, WorkerTypes
       DEF StepTyped, LeaseTyped, PhaseTyped, RegistryTyped, BeatsTyped
  <2>4. \A v \in Workers : \A j \in Slots :
          (Busy(v, j)' <=> Busy(v, j)) /\ (Working(v, j)' <=> Working(v, j))
    BY <2>1, <2>2 DEF Busy, Working
  <2>5. \A v \in Workers : Running(v)' <=> Running(v)
    BY <2>1 DEF Running, LeasedBy
  <2>6. OneAtWork' /\ WorkIsLeased' /\ LeaseIsWorked'
    BY <2>1, <2>4, <2>5 DEF WorkerInv, OneAtWork, WorkIsLeased, LeaseIsWorked
  <2>7. OffIsOut' /\ DrainIsRecorded'
    BY <2>1, <2>2 DEF WorkerInv, OffIsOut, DrainIsRecorded, AllOut
  <2> QED BY <2>3, <2>6, <2>7 DEF WorkerInv
<1>11. ASSUME NEW w \in Workers, Drain(w) PROVE WorkerInv'
  <2>1. /\ phase[w] \in {"cancelled", "stopping"} /\ AllOut(w)
        /\ phase' = [phase EXCEPT ![w] = "drained"]
        /\ \/ registry' = [registry EXCEPT ![w] = "draining"]
           \/ ~timely /\ UNCHANGED registry
        /\ UNCHANGED <<timely, step, tries, lease, slot, beat>>
    BY <1>11 DEF Drain, stepVars
  <2>2. PhaseTyped' /\ \A v \in Workers : phase'[v] = IF v = w THEN "drained" ELSE phase[v]
    BY <1>0, <2>1 DEF PhaseTyped, Phases
  <2>3. /\ RegistryTyped'
        /\ timely => \A v \in Workers :
                       registry'[v] = IF v = w THEN "draining" ELSE registry[v]
    BY <1>0, <2>1 DEF RegistryTyped, Entries
  <2>4. WorkerTypeOK'
    BY <1>0, <2>1, <2>2, <2>3, WorkerTypes DEF StepTyped, LeaseTyped, SlotsTyped, BeatsTyped
  <2>5. LeaseIsWorked'
    BY <1>1, <2>1, <2>2 DEF Running, LeasedBy
  <2>6. OffIsOut'
    BY <2>1, <2>2 DEF WorkerInv, OffIsOut, AllOut
  <2>7. DrainIsRecorded'
    BY <2>1, <2>2, <2>3 DEF WorkerInv, DrainIsRecorded
  <2> QED BY <1>2, <2>1, <2>4, <2>5, <2>6, <2>7 DEF WorkerInv
<1>12. ASSUME NEW w \in Workers, Die(w) PROVE WorkerInv'
  <2>1. /\ phase' = [phase EXCEPT ![w] = "dead"]
        /\ slot' = [slot EXCEPT ![w] = [i \in Slots |-> "out"]]
        /\ beat' = [beat EXCEPT ![w] = [i \in Slots |-> FALSE]]
        /\ UNCHANGED <<timely, step, tries, lease, registry>>
    BY <1>12 DEF Die, stepVars
  <2>2. PhaseTyped' /\ \A v \in Workers : phase'[v] = IF v = w THEN "dead" ELSE phase[v]
    BY <1>0, <2>1 DEF PhaseTyped, Phases
  <2>3. /\ SlotsTyped' /\ BeatsTyped'
        /\ \A v \in Workers : \A j \in Slots :
             /\ slot'[v][j] = IF v = w THEN "out" ELSE slot[v][j]
             /\ beat'[v][j] = IF v = w THEN FALSE ELSE beat[v][j]
    BY <1>0, <2>1 DEF SlotsTyped, BeatsTyped, Places
  <2>4. WorkerTypeOK'
    BY <1>0, <2>1, <2>2, <2>3, WorkerTypes DEF StepTyped, LeaseTyped, RegistryTyped
  <2>5. \A v \in Workers : \A j \in Slots :
          /\ Busy(v, j)' => Busy(v, j) /\ v # w
          /\ Working(v, j)' => Working(v, j)
          /\ v # w => (Busy(v, j)' <=> Busy(v, j)) /\ beat'[v][j] = beat[v][j]
    BY <2>3 DEF Busy, Working
  <2>6. \A v \in Workers : Running(v)' <=> Running(v)
    BY <2>1 DEF Running, LeasedBy
  <2>7. OneAtWork' /\ WorkIsLeased'
    <3>1. OneAtWork'
      BY <2>1, <2>5 DEF WorkerInv, OneAtWork
    <3>2. WorkIsLeased'
      BY <2>1, <2>5, <2>6 DEF WorkerInv, WorkIsLeased
    <3> QED BY <3>1, <3>2
  <2>8. LeaseIsWorked'
    BY <2>1, <2>2, <2>5, <2>6 DEF WorkerInv, LeaseIsWorked
  <2>9. OffIsOut' /\ DrainIsRecorded'
    <3>1. OffIsOut'
      <4> SUFFICES ASSUME NEW v \in Workers, NEW j \in Slots,
                          phase'[v] \in {"new", "drained", "dead"}
                   PROVE  slot'[v][j] = "out"
        BY DEF OffIsOut, AllOut
      <4>1. v # w => slot[v][j] = "out"
        BY <2>2 DEF WorkerInv, OffIsOut, AllOut
      <4> QED BY <2>3, <4>1
    <3>2. DrainIsRecorded'
      BY <2>1, <2>2 DEF WorkerInv, DrainIsRecorded
    <3> QED BY <3>1, <3>2
  <2> QED BY <2>4, <2>7, <2>8, <2>9 DEF WorkerInv
<1>13. ASSUME NEW w \in Workers, MarkInactive(w) PROVE WorkerInv'
  <2>1. /\ registry[w] = "active" /\ registry' = [registry EXCEPT ![w] = "gone"]
        /\ UNCHANGED <<timely, step, tries, lease, phase, slot, beat>>
    BY <1>13 DEF MarkInactive, Listed, stepVars, procVars
  <2>2. RegistryTyped' /\ \A v \in Workers : registry'[v] = IF v = w THEN "gone" ELSE registry[v]
    BY <1>0, <2>1 DEF RegistryTyped, Entries
  <2>3. WorkerTypeOK'
    BY <1>0, <2>1, <2>2, WorkerTypes DEF StepTyped, LeaseTyped, PhaseTyped, SlotsTyped, BeatsTyped
  <2>4. LeaseIsWorked'
    BY <1>1, <2>1 DEF Running, LeasedBy
  <2>5. OffIsOut' /\ DrainIsRecorded'
    BY <2>1, <2>2 DEF WorkerInv, OffIsOut, DrainIsRecorded, AllOut
  <2> QED BY <1>2, <2>1, <2>3, <2>4, <2>5 DEF WorkerInv
<1>14. CASE Sweep
  <2>1. /\ lease.status = "running" /\ lease.left < 0
        /\ lease' = Row(lease.worker, "expired", 0)
        /\ step' \in {step, "pending"}
        /\ UNCHANGED <<timely, tries, phase, slot, beat, registry>>
    BY <1>14 DEF Sweep, Stale, Reclaimed, procVars
  <2>2. lease \in LeaseRows /\ lease.worker \in Workers /\ lease.left \in Int /\ 0 \in -1..Ttl
    BY <1>0, <2>1, LeaseRowHas DEF LeaseTyped
  <2>3. lease' \in LeaseRows /\ lease'.status = "expired"
    BY <2>1, <2>2, LeaseRowHas
  <2>4. WorkerTypeOK'
    BY <1>0, <2>1, <2>3, WorkerTypes
       DEF StepTyped, LeaseTyped, PhaseTyped, RegistryTyped, SlotsTyped, BeatsTyped
  <2>5. timely' => \A v \in Workers : \A j \in Slots : ~Busy(v, j)'
    BY <2>1, <2>2 DEF WorkerInv, WorkIsLeased, Busy
  <2>6. \A v \in Workers : ~Running(v)'
    BY <2>3 DEF Running
  <2>7. OneAtWork' /\ WorkIsLeased' /\ LeaseIsWorked'
    BY <2>5, <2>6 DEF OneAtWork, WorkIsLeased, LeaseIsWorked
  <2>8. OffIsOut' /\ DrainIsRecorded'
    BY <2>1 DEF WorkerInv, OffIsOut, DrainIsRecorded, AllOut
  <2> QED BY <2>4, <2>7, <2>8 DEF WorkerInv
<1>15. CASE LeaseTick
  <2>1. /\ lease.status = "running" /\ lease.left >= 0
        /\ timely /\ Attended => lease.left > 1
        /\ lease' = [lease EXCEPT !.left = lease.left - 1]
        /\ UNCHANGED <<timely, step, tries, phase, slot, beat, registry>>
    BY <1>15 DEF LeaseTick, procVars
  <2>2. lease.left \in 0..Ttl /\ lease.left - 1 \in -1..Ttl
    <3>1. lease \in LeaseRows /\ lease.left \in -1..Ttl /\ Ttl \in Nat
      BY <1>0, <2>1, LeaseRowHas DEF LeaseTyped
    <3> QED BY <2>1, <3>1
  <2>3. /\ LeaseTyped' /\ lease'.left = lease.left - 1
        /\ \A v \in Workers : Running(v)' <=> Running(v)
    BY <1>0, <2>1, <2>2, LeaseKept
  <2>4. WorkerTypeOK'
    BY <1>0, <2>1, <2>3, WorkerTypes
       DEF StepTyped, PhaseTyped, RegistryTyped, SlotsTyped, BeatsTyped
  <2>5. \A v \in Workers : \A j \in Slots :
          (Busy(v, j)' <=> Busy(v, j)) /\ (Working(v, j)' <=> Working(v, j))
    BY <2>1 DEF Busy, Working
  <2>6. ASSUME timely, NEW v \in Workers, NEW j \in Slots, Busy(v, j) PROVE lease'.left > 0
    <3>1. Running(v) /\ (slot[v][j] = "handler" => beat[v][j])
      BY <2>6 DEF WorkerInv, WorkIsLeased, Working
    <3>2. Attended
      BY <2>6, <3>1 DEF Attended, Busy
    <3> QED BY <2>1, <2>2, <2>3, <2>6, <3>2
  <2>7. OneAtWork' /\ LeaseIsWorked'
    BY <2>1, <2>3, <2>5 DEF WorkerInv, OneAtWork, LeaseIsWorked
  <2>8. WorkIsLeased'
    BY <2>1, <2>3, <2>5, <2>6 DEF WorkerInv, WorkIsLeased
  <2>9. OffIsOut' /\ DrainIsRecorded'
    BY <2>1 DEF WorkerInv, OffIsOut, DrainIsRecorded, AllOut
  <2> QED BY <2>4, <2>7, <2>8, <2>9 DEF WorkerInv
<1>16. CASE UNCHANGED workVars
  <2>1. UNCHANGED <<timely, step, tries, lease, phase, slot, beat, registry>>
    BY <1>16 DEF workVars
  <2>2. WorkerTypeOK'
    BY <1>0, <2>1, WorkerTypes
       DEF StepTyped, LeaseTyped, PhaseTyped, RegistryTyped, SlotsTyped, BeatsTyped
  <2>3. LeaseIsWorked'
    BY <1>1, <2>1 DEF Running, LeasedBy
  <2>4. OffIsOut' /\ DrainIsRecorded'
    BY <2>1 DEF WorkerInv, OffIsOut, DrainIsRecorded, AllOut
  <2> QED BY <1>2, <2>1, <2>2, <2>3, <2>4 DEF WorkerInv
<1> QED BY <1>3, <1>4, <1>5, <1>6, <1>7, <1>8, <1>9, <1>10, <1>11, <1>12, <1>13,
           <1>14, <1>15, <1>16
        DEF WorkerNext, WorkerStep, SlotStep, Crash, Exit

(* With timely calls a worker that shut down gracefully leaves nothing     *)
(* behind, for any number of workers and slots: one that drains runs no    *)
(* step any more, and the registry has it as draining.                     *)
THEOREM DrainLeavesNothing == WorkerSpec => []DrainIsClean
<1>1. WorkerInv => DrainIsClean
  <2> SUFFICES ASSUME WorkerInv PROVE DrainIsClean
    OBVIOUS
  <2>1. DrainedHoldsNothing
    BY DEF WorkerInv, LeaseIsWorked, OffIsOut, AllOut, Busy, DrainedHoldsNothing
  <2> QED BY <2>1 DEF WorkerInv, DrainIsClean
<1> QED BY <1>1, WorkerStart, WorkerSteps, PTL DEF WorkerSpec

(* With timely calls a step is never run by two handlers at once, for any  *)
(* number of workers and slots, whatever they do.                          *)
THEOREM StepHasOneHandler == WorkerSpec => []OneHandler
<1>1. WorkerInv => OneHandler
  <2> SUFFICES ASSUME WorkerInv, timely
               PROVE  Cardinality({p \in Workers \X Slots : Working(p[1], p[2])}) <= 1
    BY DEF OneHandler
  <2> DEFINE S == {p \in Workers \X Slots : Working(p[1], p[2])}
  <2>1. \A p, q \in S : p = q
    BY DEF WorkerInv, OneAtWork, Busy, Working
  <2>2. CASE S = {}
    BY <2>2, FS_EmptySet
  <2>3. CASE S # {}
    <3>1. PICK p \in S : S = {p}
      BY <2>1, <2>3
    <3>2. Cardinality(S) = 1
      <4> HIDE DEF S
      <4> QED BY <3>1, FS_Singleton
    <3> QED BY <3>2
  <2> QED BY <2>2, <2>3
<1> QED BY <1>1, WorkerStart, WorkerSteps, PTL DEF WorkerSpec

--------------------------------------------------------------------------------
(***************************************************************************)
(* Migrations.  What a runner is about to apply or undo fits the schema it *)
(* was planned on.                                                         *)
(***************************************************************************)

(* Every version's files are among those of the last.                      *)
LEMMA FilesOfVersions ==
  /\ Last \in Nat
  /\ \A n \in Versions : n \in Nat /\ Files(n) \subseteq Files(Last)
<1>1. Versions \in SUBSET Nat /\ Versions # {} /\ IsFiniteSet(Versions)
  BY MigrationsAssumption
<1>2. Last \in Versions /\ \A n \in Versions : n <= Last
  BY <1>1, MaxIs DEF Last
<1> QED BY <1>1, <1>2 DEF Files

LEMMA FilesAreNats ==
  ASSUME NEW n \in Nat
  PROVE  Files(n) \in SUBSET Nat /\ IsFiniteSet(Files(n))
BY FS_Interval DEF Files

(* What a runner holds in each of its places.                              *)
Booting == [at : {"boot"}, version : Versions, todo : SUBSET Files(Last)]
Applying == [at : {"wait apply", "apply"}, todo : SUBSET Files(Last)]
Undoing == [at : {"wait undo", "undo"}, todo : SUBSET Files(Last),
            seen : SUBSET Files(Last)]

LEMMA StatesAre ==
  /\ States = {Off} \cup Booting \cup Applying \cup Undoing
  /\ Off.at = "off"
  /\ \A s \in Booting : s.at = "boot" /\ s.version \in Versions /\ s.todo \subseteq Files(Last)
  /\ \A s \in Applying : s.at \in {"wait apply", "apply"} /\ s.todo \subseteq Files(Last)
  /\ \A s \in Undoing : /\ s.at \in {"wait undo", "undo"}
                        /\ s.todo \subseteq Files(Last) /\ s.seen \subseteq Files(Last)
<1>1. States = {Off} \cup Booting \cup Applying \cup Undoing
  BY Zenon DEF States, Booting, Applying, Undoing
<1>2. Off.at = "off"
  BY DEF Off
<1>3. \A s \in Booting : s.at = "boot" /\ s.version \in Versions /\ s.todo \subseteq Files(Last)
  BY DEF Booting
<1>4. \A s \in Applying : s.at \in {"wait apply", "apply"} /\ s.todo \subseteq Files(Last)
  BY DEF Applying
<1>5. \A s \in Undoing : /\ s.at \in {"wait undo", "undo"}
                         /\ s.todo \subseteq Files(Last) /\ s.seen \subseteq Files(Last)
  BY DEF Undoing
<1> QED BY <1>1, <1>2, <1>3, <1>4, <1>5

LEMMA RunnerHas ==
  ASSUME MigrationsTypeOK, NEW r \in Runners
  PROVE  /\ runner[r].at \in {"off", "boot", "wait apply", "apply", "wait undo", "undo"}
         /\ runner[r].at # "off" => runner[r].todo \subseteq Files(Last)
         /\ runner[r] # Off => runner[r].at # "off"
         /\ runner[r].at = "boot" => runner[r] \in Booting
         /\ runner[r].at \in {"wait apply", "apply"} => runner[r] \in Applying
         /\ runner[r].at \in {"wait undo", "undo"} => runner[r] \in Undoing
<1>1. runner[r] \in States
  BY DEF MigrationsTypeOK
<1> QED BY <1>1, StatesAre

(* A list of files that leaves none out before the ones it has.            *)
NoneBefore(S, T) == \A i \in S : 1..i \subseteq T

Tail(S, T) == S \subseteq T /\ \A i \in S : \A j \in T : j > i => j \in S

(* Only the holder of the lock is at work.  What is to be applied has no   *)
(* gap, together with what is recorded once the lock is held; what is to   *)
(* be undone is the end of what is recorded, unless the plan is out of date. *)
RunnerInv(r) ==
  /\ runner[r].at \in {"apply", "undo"} => holder = r
  /\ runner[r].at = "wait apply" => NoneBefore(runner[r].todo, runner[r].todo)
  /\ runner[r].at = "apply" => NoneBefore(runner[r].todo, recorded \cup runner[r].todo)
  /\ runner[r].at = "wait undo" => Tail(runner[r].todo, runner[r].seen)
  /\ runner[r].at = "undo" => outdated \/ Tail(runner[r].todo, recorded)

SchemaInv == MigrationsTypeOK /\ SchemaHasNoGap /\ \A r \in Runners : RunnerInv(r)

LEMMA SchemaInit == MigrationsInit => SchemaInv
<1> SUFFICES ASSUME MigrationsInit PROVE SchemaInv
  OBVIOUS
<1>1. MigrationsTypeOK
  <2>1. runner \in [Runners -> States]
    BY StatesAre DEF MigrationsInit
  <2>2. starts \in 0..MaxStarts
    BY MigrationsAssumption DEF MigrationsInit
  <2>3. recorded \subseteq Files(Last) /\ made \subseteq Files(Last)
    BY FilesOfVersions DEF MigrationsInit
  <2> QED BY <2>1, <2>2, <2>3 DEF MigrationsInit, MigrationsTypeOK
<1>2. \A r \in Runners : runner[r].at = "off"
  BY DEF MigrationsInit, Off
<1>3. SchemaHasNoGap
  BY DEF MigrationsInit, SchemaHasNoGap
<1> QED BY <1>1, <1>2, <1>3 DEF SchemaInv, RunnerInv

(* A step of one runner leaves the others as they were: what is recorded   *)
(* changes only under the lock, where no other runner is at work.          *)
LEMMA OthersKept ==
  ASSUME SchemaInv, NEW r \in Runners, NEW q,
         runner' = [runner EXCEPT ![r] = q],
         UNCHANGED recorded \/ holder = r,
         outdated => outdated',
         \A x \in Runners : x # r /\ holder = x => holder' = x
  PROVE  \A x \in Runners : x # r => RunnerInv(x)'
<1> SUFFICES ASSUME NEW x \in Runners, x # r PROVE RunnerInv(x)'
  OBVIOUS
<1>1. runner'[x] = runner[x] /\ RunnerInv(x)
  BY DEF SchemaInv, MigrationsTypeOK
<1>2. CASE holder = r
  <2>1. runner[x].at \notin {"apply", "undo"}
    BY <1>1, <1>2 DEF RunnerInv
  <2> QED BY <1>1, <2>1 DEF RunnerInv
<1>3. CASE UNCHANGED recorded
  BY <1>1, <1>3 DEF RunnerInv
<1> QED BY <1>2, <1>3

(* A runner that comes to a state of its own kind keeps the types.         *)
LEMMA RunnerTyped ==
  ASSUME MigrationsTypeOK, NEW r \in Runners, NEW q \in States,
         runner' = [runner EXCEPT ![r] = q]
  PROVE  runner' \in [Runners -> States] /\ runner'[r] = q
BY DEF MigrationsTypeOK

LEMMA StartsCounted ==
  ASSUME MigrationsTypeOK, starts < MaxStarts, starts' = starts + 1
  PROVE  starts' \in 0..MaxStarts
BY MigrationsAssumption DEF MigrationsTypeOK

LEMMA SchemaBegin ==
  ASSUME SchemaInv, NEW r \in Runners, NEW q \in Booting \cup Applying \cup Undoing,
         Begin(r, q), q.at \notin {"apply", "undo"},
         q.at = "wait apply" => NoneBefore(q.todo, q.todo),
         q.at = "wait undo" => Tail(q.todo, q.seen)
  PROVE  SchemaInv'
<1>1. /\ runner' = [runner EXCEPT ![r] = q] /\ UNCHANGED <<recorded, made, holder, outdated>>
      /\ starts' = starts + 1 /\ starts < MaxStarts
  BY DEF Begin
<1>2. q \in States
  BY StatesAre
<1>3. runner' \in [Runners -> States] /\ runner'[r] = q
  BY <1>1, <1>2, RunnerTyped DEF SchemaInv
<1>4. starts' \in 0..MaxStarts
  BY <1>1, StartsCounted DEF SchemaInv
<1>5. MigrationsTypeOK'
  BY <1>1, <1>3, <1>4 DEF SchemaInv, MigrationsTypeOK
<1>6. RunnerInv(r)'
  BY <1>3 DEF RunnerInv
<1>7. \A x \in Runners : x # r => RunnerInv(x)'
  BY <1>1, OthersKept
<1>8. SchemaHasNoGap'
  BY <1>1 DEF SchemaInv, SchemaHasNoGap
<1> QED BY <1>5, <1>6, <1>7, <1>8 DEF SchemaInv

LEMMA SchemaNext == SchemaInv /\ [MigrationsNext]_migVars => SchemaInv'
<1> SUFFICES ASSUME SchemaInv, [MigrationsNext]_migVars PROVE SchemaInv'
  OBVIOUS
<1>1. ASSUME UNCHANGED migVars PROVE SchemaInv'
  BY <1>1 DEF migVars, SchemaInv, MigrationsTypeOK, SchemaHasNoGap, RunnerInv
<1>2. ASSUME NEW r \in Runners, NEW n \in Versions, Boot(r, n) PROVE SchemaInv'
  <2> DEFINE q == [at |-> "boot", version |-> n, todo |-> Files(n)]
  <2>1. q \in Booting /\ q.at = "boot"
    BY FilesOfVersions DEF Booting
  <2>2. Begin(r, q)
    BY <1>2 DEF Boot
  <2> HIDE DEF q
  <2> QED BY <2>1, <2>2, SchemaBegin
<1>3. ASSUME NEW r \in Runners, NEW n \in Nat, Files(n) \subseteq Files(Last),
             Begin(r, [at |-> "wait apply", todo |-> Files(n)])
      PROVE  SchemaInv'
  <2> DEFINE q == [at |-> "wait apply", todo |-> Files(n)]
  <2>1. q \in Applying /\ q.at = "wait apply" /\ q.todo = Files(n)
    BY <1>3 DEF Applying
  <2>2. NoneBefore(Files(n), Files(n))
    BY DEF NoneBefore, Files
  <2>3. Begin(r, q)
    BY <1>3
  <2> HIDE DEF q
  <2> QED BY <2>1, <2>2, <2>3, SchemaBegin
<1>4. ASSUME NEW r \in Runners, NEW n \in Versions, ApplyPending(r, n) PROVE SchemaInv'
  BY <1>3, <1>4, FilesOfVersions DEF ApplyPending
<1>5. ASSUME NEW r \in Runners, NEW n \in Versions, NEW t \in Files(n), ApplyTo(r, n, t)
      PROVE  SchemaInv'
  <2>1. t \in Nat /\ Files(t) \subseteq Files(Last)
    BY FilesOfVersions DEF Files
  <2>2. Begin(r, [at |-> "wait apply", todo |-> Files(t)])
    BY <1>5 DEF ApplyTo, Files
  <2> QED BY <1>3, <2>1, <2>2
<1>6. ASSUME NEW r \in Runners, NEW n \in Versions, NEW t \in Files(n), RollbackTo(r, n, t)
      PROVE  SchemaInv'
  <2> DEFINE q == [at |-> "wait undo", todo |-> Plan(t), seen |-> recorded]
  <2>1. recorded \subseteq Files(Last) /\ t \in Nat /\ Files(Last) \subseteq Nat
    BY FilesOfVersions DEF SchemaInv, MigrationsTypeOK, Files
  <2>2. Plan(t) \subseteq recorded /\ Tail(Plan(t), recorded)
    BY <2>1 DEF Plan, Tail
  <2>3. /\ q \in Undoing /\ q.at = "wait undo"
        /\ q.todo = Plan(t) /\ q.seen = recorded
    BY <2>1, <2>2 DEF Undoing
  <2>4. Begin(r, q)
    BY <1>6 DEF RollbackTo
  <2> HIDE DEF q
  <2> QED BY <2>2, <2>3, <2>4, SchemaBegin
<1>7. ASSUME NEW r \in Runners, BootOne(r) PROVE SchemaInv'
  <2>1. runner[r].at = "boot" /\ runner[r] \in Booting /\ runner[r].todo # {}
    BY <1>7, RunnerHas DEF BootOne, SchemaInv
  <2>2. UNCHANGED <<recorded, holder, starts, outdated>>
    BY <1>7 DEF BootOne
  <2> DEFINE i == Min(runner[r].todo)
  <2>3. i \in Files(Last) /\ made \subseteq Files(Last)
    <3>1. runner[r].todo \in SUBSET Nat
      BY <2>1, StatesAre, FilesOfVersions, FilesAreNats
    <3> QED BY <2>1, <3>1, MinIs, StatesAre DEF SchemaInv, MigrationsTypeOK
  <2> DEFINE q == [runner[r] EXCEPT !.todo = @ \ {i}]
  <2>4. \E p \in {q, Off} : /\ runner' = [runner EXCEPT ![r] = p]
                             /\ made' \in {made, made \cup {i}}
    BY <1>7 DEF BootOne
  <2>5. q \in Booting
    <3> HIDE DEF i
    <3> QED BY <2>1 DEF Booting
  <2>6. PICK p : /\ p \in States /\ p.at \in {"boot", "off"}
                 /\ runner' = [runner EXCEPT ![r] = p]
    <3> HIDE DEF q
    <3> QED BY <2>4, <2>5, StatesAre
  <2>7. runner' \in [Runners -> States] /\ runner'[r] = p
    BY <2>6, RunnerTyped DEF SchemaInv
  <2>8. made' \subseteq Files(Last) /\ made \subseteq made'
    <3> HIDE DEF i
    <3> QED BY <2>3, <2>4
  <2>9. MigrationsTypeOK'
    BY <2>2, <2>7, <2>8 DEF SchemaInv, MigrationsTypeOK
  <2>10. RunnerInv(r)'
    BY <2>6, <2>7 DEF RunnerInv
  <2>11. \A x \in Runners : x # r => RunnerInv(x)'
    BY <2>2, <2>6, OthersKept
  <2>12. SchemaHasNoGap'
    BY <2>2, <2>8 DEF SchemaInv, SchemaHasNoGap
  <2> QED BY <2>9, <2>10, <2>11, <2>12 DEF SchemaInv
<1>8. ASSUME NEW r \in Runners, BootEnds(r) PROVE SchemaInv'
  <2>1. runner[r] \in Booting
    BY <1>8, RunnerHas DEF BootEnds, SchemaInv
  <2> DEFINE n == runner[r].version
           q == [at |-> "wait apply", todo |-> Files(n)]
  <2>2. n \in Nat /\ Files(n) \subseteq Files(Last)
    BY <2>1, StatesAre, FilesOfVersions
  <2>3. NoneBefore(Files(n), Files(n))
    <3> HIDE DEF n
    <3> QED BY <2>2 DEF NoneBefore, Files
  <2>4. q \in Applying /\ q.at = "wait apply" /\ q.todo = Files(n)
    BY <2>2 DEF Applying
  <2>5. /\ runner' = [runner EXCEPT ![r] = q]
        /\ UNCHANGED <<recorded, made, holder, starts, outdated>>
    BY <1>8 DEF BootEnds
  <2> HIDE DEF n, q
  <2>6. q \in States
    BY <2>4, StatesAre
  <2>7. runner' \in [Runners -> States] /\ runner'[r] = q
    BY <2>5, <2>6, RunnerTyped DEF SchemaInv
  <2>8. MigrationsTypeOK'
    BY <2>5, <2>7 DEF SchemaInv, MigrationsTypeOK
  <2>9. RunnerInv(r)'
    BY <2>3, <2>4, <2>7 DEF RunnerInv
  <2>10. \A x \in Runners : x # r => RunnerInv(x)'
    BY <2>5, OthersKept
  <2>11. SchemaHasNoGap'
    BY <2>5 DEF SchemaInv, SchemaHasNoGap
  <2> QED BY <2>8, <2>9, <2>10, <2>11 DEF SchemaInv
<1>9. ASSUME NEW r \in Runners, ApplyLocked(r) PROVE SchemaInv'
  <2>1. /\ runner[r].at = "wait apply" /\ runner[r] \in Applying
        /\ RunnerInv(r) /\ runner[r].todo \subseteq Files(Last)
    BY <1>9, RunnerHas DEF ApplyLocked, SchemaInv
  <2> DEFINE q == [at |-> "apply", todo |-> runner[r].todo \ recorded]
  <2>2. /\ runner' = [runner EXCEPT ![r] = q] /\ holder = Nobody /\ holder' = r
        /\ UNCHANGED <<recorded, made, starts, outdated>>
    BY <1>9 DEF ApplyLocked, Take
  <2>3. q \in Applying /\ q.at = "apply" /\ q.todo = runner[r].todo \ recorded
    BY <2>1 DEF Applying
  <2> HIDE DEF q
  <2>4. q \in States
    BY <2>3, StatesAre
  <2>5. runner' \in [Runners -> States] /\ runner'[r] = q
    BY <2>2, <2>4, RunnerTyped DEF SchemaInv
  <2>6. NoneBefore(q.todo, recorded \cup q.todo)
    BY <2>1, <2>3 DEF RunnerInv, NoneBefore
  <2>7. MigrationsTypeOK'
    BY <2>2, <2>5 DEF SchemaInv, MigrationsTypeOK
  <2>8. RunnerInv(r)'
    BY <2>2, <2>3, <2>5, <2>6 DEF RunnerInv
  <2>9. \A x \in Runners : x # r => RunnerInv(x)'
    BY <2>2, MigrationsAssumption, OthersKept
  <2>10. SchemaHasNoGap'
    BY <2>2 DEF SchemaInv, SchemaHasNoGap
  <2> QED BY <2>7, <2>8, <2>9, <2>10 DEF SchemaInv
<1>10. ASSUME NEW r \in Runners, ApplySingle(r) PROVE SchemaInv'
  <2>1. /\ runner[r].at = "apply" /\ runner[r] \in Applying /\ runner[r].todo # {}
        /\ RunnerInv(r) /\ runner[r].todo \subseteq Files(Last)
    BY <1>10, RunnerHas DEF ApplySingle, SchemaInv
  <2> DEFINE i == Min(runner[r].todo)
           q == [runner[r] EXCEPT !.todo = @ \ {i}]
  <2>2. /\ made' = made \cup {i} /\ recorded' = recorded \cup {i}
        /\ runner' = [runner EXCEPT ![r] = q]
        /\ UNCHANGED <<holder, starts, outdated>>
    BY <1>10 DEF ApplySingle
  <2>3. /\ i \in runner[r].todo /\ \A j \in runner[r].todo : i <= j
        /\ i \in Nat /\ Files(Last) \subseteq Nat
    <3>1. runner[r].todo \in SUBSET Nat /\ Files(Last) \subseteq Nat
      BY <2>1, FilesOfVersions, FilesAreNats
    <3>2. i \in runner[r].todo /\ \A j \in runner[r].todo : i <= j
      BY <2>1, <3>1, MinIs
    <3> QED BY <3>1, <3>2
  <2>4. q \in Applying /\ q.at = "apply" /\ q.todo = runner[r].todo \ {i}
    <3> HIDE DEF i
    <3> QED BY <2>1 DEF Applying
  <2> HIDE DEF i, q
  <2>5. q \in States
    BY <2>4, StatesAre
  <2>6. runner' \in [Runners -> States] /\ runner'[r] = q
    BY <2>2, <2>5, RunnerTyped DEF SchemaInv
  <2>7. holder = r /\ NoneBefore(runner[r].todo, recorded \cup runner[r].todo)
    BY <2>1 DEF RunnerInv
  <2>8. MigrationsTypeOK'
    <3>1. made' \subseteq Files(Last) /\ recorded' \subseteq Files(Last)
      BY <2>1, <2>2, <2>3 DEF SchemaInv, MigrationsTypeOK
    <3> QED BY <2>2, <2>6, <3>1 DEF SchemaInv, MigrationsTypeOK
  <2>9. RunnerInv(r)'
    <3>1. recorded' \cup q.todo = recorded \cup runner[r].todo
      BY <2>2, <2>3, <2>4
    <3>2. NoneBefore(q.todo, recorded' \cup q.todo)
      BY <2>4, <2>7, <3>1 DEF NoneBefore
    <3> QED BY <2>2, <2>4, <2>6, <2>7, <3>2 DEF RunnerInv
  <2>10. \A x \in Runners : x # r => RunnerInv(x)'
    BY <2>2, <2>7, OthersKept
  <2>11. SchemaHasNoGap'
    <3>1. 1..i \subseteq recorded \cup {i}
      <4> SUFFICES ASSUME NEW j \in 1..i, j # i PROVE j \in recorded
        OBVIOUS
      <4>1. j \in recorded \cup runner[r].todo
        BY <2>3, <2>7 DEF NoneBefore
      <4>2. ~(i <= j)
        BY <2>3
      <4> QED BY <2>3, <4>1, <4>2
    <3> QED BY <2>2, <3>1 DEF SchemaInv, SchemaHasNoGap
  <2> QED BY <2>8, <2>9, <2>10, <2>11 DEF SchemaInv
<1>11. ASSUME NEW r \in Runners, RollbackLocked(r) PROVE SchemaInv'
  <2>1. runner[r].at = "wait undo" /\ runner[r] \in Undoing /\ RunnerInv(r)
    BY <1>11, RunnerHas DEF RollbackLocked, SchemaInv
  <2> DEFINE q == [runner[r] EXCEPT !.at = "undo"]
  <2>2. /\ runner' = [runner EXCEPT ![r] = q] /\ holder = Nobody /\ holder' = r
        /\ outdated' = (outdated \/ runner[r].seen # recorded)
        /\ UNCHANGED <<recorded, made, starts>>
    BY <1>11 DEF RollbackLocked, Take
  <2>3. q \in Undoing /\ q.at = "undo" /\ q.todo = runner[r].todo
    BY <2>1 DEF Undoing
  <2> HIDE DEF q
  <2>4. q \in States
    BY <2>3, StatesAre
  <2>5. runner' \in [Runners -> States] /\ runner'[r] = q
    BY <2>2, <2>4, RunnerTyped DEF SchemaInv
  <2>6. outdated' \/ Tail(q.todo, recorded)
    BY <2>1, <2>2, <2>3 DEF RunnerInv
  <2>7. MigrationsTypeOK'
    BY <2>2, <2>5 DEF SchemaInv, MigrationsTypeOK
  <2>8. RunnerInv(r)'
    BY <2>2, <2>3, <2>5, <2>6 DEF RunnerInv
  <2>9. \A x \in Runners : x # r => RunnerInv(x)'
    BY <2>2, MigrationsAssumption, OthersKept
  <2>10. SchemaHasNoGap'
    BY <2>2 DEF SchemaInv, SchemaHasNoGap
  <2> QED BY <2>7, <2>8, <2>9, <2>10 DEF SchemaInv
<1>12. ASSUME NEW r \in Runners, RollbackOne(r) PROVE SchemaInv'
  <2>1. /\ runner[r].at = "undo" /\ runner[r] \in Undoing /\ runner[r].todo # {}
        /\ RunnerInv(r) /\ runner[r].todo \subseteq Files(Last)
    BY <1>12, RunnerHas DEF RollbackOne, SchemaInv
  <2> DEFINE i == Newest(runner[r].todo)
           q == [runner[r] EXCEPT !.todo = @ \ {i}]
           lost == {i} \cup {j \in Files(Last) : Parent[j] = i}
  <2>2. /\ made' = made \ lost /\ recorded' = recorded \ {i}
        /\ runner' = [runner EXCEPT ![r] = q]
        /\ UNCHANGED <<holder, starts, outdated>>
    BY <1>12 DEF RollbackOne
  <2>3. /\ i \in runner[r].todo /\ \A j \in runner[r].todo : j <= i
        /\ i \in Nat /\ Files(Last) \subseteq Nat
    <3>1. Files(Last) \subseteq Nat /\ IsFiniteSet(Files(Last))
      BY FilesOfVersions, FilesAreNats
    <3>2. runner[r].todo \in SUBSET Nat /\ IsFiniteSet(runner[r].todo)
      BY <2>1, <3>1, FS_Subset
    <3>3. i \in runner[r].todo /\ \A j \in runner[r].todo : j <= i
      BY <2>1, <3>2, MaxIs DEF Newest
    <3> QED BY <3>1, <3>2, <3>3
  <2>4. q \in Undoing /\ q.at = "undo" /\ q.todo = runner[r].todo \ {i}
    <3> HIDE DEF i
    <3> QED BY <2>1 DEF Undoing
  <2>5. \A j \in lost : j >= i
    <3>1. \A j \in Files(Last) : Parent[j] \in Nat /\ Parent[j] < j
      BY MigrationsAssumption
    <3> HIDE DEF i
    <3> QED BY <2>3, <3>1
  <2>6. i \in lost
    OBVIOUS
  <2> HIDE DEF i, q, lost
  <2>7. q \in States
    BY <2>4, StatesAre
  <2>8. runner' \in [Runners -> States] /\ runner'[r] = q
    BY <2>2, <2>7, RunnerTyped DEF SchemaInv
  <2>9. holder = r /\ (outdated \/ Tail(runner[r].todo, recorded))
    BY <2>1 DEF RunnerInv
  <2>10. MigrationsTypeOK'
    BY <2>2, <2>8 DEF SchemaInv, MigrationsTypeOK
  <2>11. RunnerInv(r)'
    <3>1. outdated' \/ Tail(q.todo, recorded')
      BY <2>2, <2>4, <2>9 DEF Tail
    <3> QED BY <2>2, <2>4, <2>8, <2>9, <3>1 DEF RunnerInv
  <2>12. \A x \in Runners : x # r => RunnerInv(x)'
    BY <2>2, <2>9, OthersKept
  <2>13. SchemaHasNoGap'
    <3> SUFFICES ASSUME ~outdated
                 PROVE  /\ \A j \in recorded' : 1..j \subseteq recorded'
                        /\ recorded' \subseteq made'
      BY <2>2 DEF SchemaHasNoGap
    <3>1. /\ \A j \in recorded : 1..j \subseteq recorded
          /\ recorded \subseteq made
          /\ recorded \subseteq Nat
      BY <2>3 DEF SchemaInv, SchemaHasNoGap, MigrationsTypeOK
    <3>2. ASSUME NEW j \in recorded' PROVE j \in recorded /\ j \in Nat /\ j < i
      <4>1. j \in recorded /\ j # i /\ j \in Nat /\ i \in Nat
        BY <2>2, <2>3, <3>1
      <4>2. ~(j > i)
        BY <2>3, <2>9, <4>1 DEF Tail
      <4> QED BY <4>1, <4>2
    <3>3. recorded' \subseteq made'
      <4> SUFFICES ASSUME NEW j \in recorded' PROVE j \in made'
        OBVIOUS
      <4>1. j \notin lost
        BY <2>3, <2>5, <3>2
      <4> QED BY <2>2, <3>1, <3>2, <4>1
    <3>4. ASSUME NEW j \in recorded' PROVE 1..j \subseteq recorded'
      BY <2>2, <2>3, <3>1, <3>2
    <3> QED BY <3>3, <3>4
  <2> QED BY <2>10, <2>11, <2>12, <2>13 DEF SchemaInv
<1>13. ASSUME NEW r \in Runners, Ends(r) PROVE SchemaInv'
  <2>1. /\ runner' = [runner EXCEPT ![r] = Off]
        /\ holder' = IF holder = r THEN Nobody ELSE holder
        /\ UNCHANGED <<recorded, made, starts, outdated>>
    BY <1>13 DEF Ends
  <2>2. Off \in States /\ Off.at = "off"
    BY StatesAre
  <2>3. runner' \in [Runners -> States] /\ runner'[r] = Off
    BY <2>1, <2>2, RunnerTyped DEF SchemaInv
  <2>4. MigrationsTypeOK'
    BY <2>1, <2>3 DEF SchemaInv, MigrationsTypeOK
  <2>5. RunnerInv(r)'
    BY <2>2, <2>3 DEF RunnerInv
  <2>6. \A x \in Runners : x # r => RunnerInv(x)'
    BY <2>1, OthersKept
  <2>7. SchemaHasNoGap'
    BY <2>1 DEF SchemaInv, SchemaHasNoGap
  <2> QED BY <2>4, <2>5, <2>6, <2>7 DEF SchemaInv
<1> QED BY <1>1, <1>2, <1>4, <1>5, <1>6, <1>7, <1>8, <1>9, <1>10, <1>11, <1>12, <1>13
        DEF MigrationsNext

(* What is recorded is a beginning of the list of files and everything it  *)
(* made exists, for every list of files, every set of versions and any     *)
(* number of runners, until a runner begins a rollback from an outdated    *)
(* plan.                                                                   *)
THEOREM NoGapWithoutRace == MigrationsSpec => []SchemaHasNoGap
<1>1. SchemaInv => SchemaHasNoGap
  BY DEF SchemaInv
<1> QED BY <1>1, SchemaInit, SchemaNext, PTL DEF MigrationsSpec

--------------------------------------------------------------------------------
(* Together: every lock, promise, call, worker, slot, lease and migration  *)
(* is what its module says it is, and no step has two handlers, for any    *)
(* replicas, holders, workers, slots, versions and runners.                *)
THEOREM CoordinationIsSound == CoordinationSpec => []CoordinationSound
<1>1. LockSpec => []LockTypeOK
  <2>1. LockInv => LockTypeOK
    BY DEF LockInv
  <2> QED BY <2>1, LockStart, LockStep, PTL DEF LockSpec
<1>2. WorkerSpec => []WorkerTypeOK
  <2>1. WorkerInv => WorkerTypeOK
    BY DEF WorkerInv
  <2> QED BY <2>1, WorkerStart, WorkerSteps, PTL DEF WorkerSpec
<1>3. MigrationsSpec => []MigrationsTypeOK
  <2>1. SchemaInv => MigrationsTypeOK
    BY DEF SchemaInv
  <2> QED BY <2>1, SchemaInit, SchemaNext, PTL DEF MigrationsSpec
<1>4. LockTypeOK /\ WorkerTypeOK /\ MigrationsTypeOK /\ OneHandler => CoordinationSound
  BY DEF CoordinationSound
<1> QED BY <1>1, <1>2, <1>3, <1>4, StepHasOneHandler, PTL DEF CoordinationSpec

================================================================================
