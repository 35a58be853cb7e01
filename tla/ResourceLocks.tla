----------------------------- MODULE ResourceLocks -----------------------------
(***************************************************************************)
(* The named resource locks of the workspace service: ResourceLockStore    *)
(* (resource_locks.py) behind the cluster lock of RedisBackend             *)
(* (coordination.py), for one lock name.                                   *)
(*                                                                         *)
(* Every replica of the service has its own database, hence its own row    *)
(* row[r]; the Redis key is shared.  The row moves in transactions, the    *)
(* key in single Redis commands, and a handler that makes several of them  *)
(* may be interleaved with others or be lost between any two.  Without a   *)
(* cluster backend (clustered = FALSE) the handlers skip the key.          *)
(*                                                                         *)
(* Times are what is left of a TTL: positive while the lock is active,     *)
(* zero at the instant expires_at = now, negative afterwards.  LockTick    *)
(* lets one unit pass.                                                     *)
(***************************************************************************)
EXTENDS Integers

CONSTANTS Replicas,   \* service instances, each with a database of its own
          Holders,    \* the opaque holder names clients send
          Requests,   \* slots for API calls in flight
          Ttls,       \* what ttl_seconds may be
          MaxTtl,     \* bound on Ttls
          NULL        \* no row, no key, no call

ASSUME LockAssumption == /\ MaxTtl \in Nat
                         /\ Ttls \subseteq 1..MaxTtl
                         /\ NULL \notin Holders
                         /\ NULL \notin [holder: Holders, left: -1..MaxTtl]

VARIABLES clustered,  \* is a Redis backend configured
          row,        \* resource_locks: the row of each replica's database
          key,        \* the Redis key: its holder and what is left of its TTL
          req,        \* the API calls in flight
          sweeper,    \* the reaper loop of each replica
          grant       \* what each holder was last promised by each replica

lockVars == <<clustered, row, key, req, sweeper, grant>>

Left == -1..MaxTtl
Tagged(h, t) == [holder |-> h, left |-> t]
Call(at, op, r, h, t) ==
  [at |-> at, op |-> op, rep |-> r, holder |-> h, ttl |-> t]

LockTypeOK ==
  /\ clustered \in BOOLEAN
  /\ row \in [Replicas -> [holder: Holders, left: Left] \cup {NULL}]
  /\ key \in [holder: Holders, left: 1..MaxTtl] \cup {NULL}
  /\ req \in [Requests ->
               [at: {"setnx", "getkey", "expire", "local", "undo", "poll",
                     "update", "reread", "drop"},
                op: {"acquire", "heartbeat", "release"}, rep: Replicas,
                holder: Holders, ttl: Ttls] \cup {NULL}]
  /\ sweeper \in [Replicas -> [at: {"idle", "delete", "release"},
                               stale: SUBSET Holders]]
  /\ grant \in [Replicas -> [Holders -> Left]]

LockInit ==
  /\ clustered \in BOOLEAN
  /\ row = [r \in Replicas |-> NULL]
  /\ key = NULL
  /\ req = [q \in Requests |-> NULL]
  /\ sweeper = [r \in Replicas |-> [at |-> "idle", stale |-> {}]]
  /\ grant = [r \in Replicas |-> [h \in Holders |-> -1]]

At(q, at) == req[q] # NULL /\ req[q].at = at
Held(r, h) == row[r] # NULL /\ row[r].holder = h
Expired(r) == row[r] # NULL /\ row[r].left < 0
Step(q, at) == req' = [req EXCEPT ![q].at = at]
Answer(q) == req' = [req EXCEPT ![q] = NULL]

\* Where an attempt to acquire begins: at the cluster gate, if there is one.
Gate == IF clustered THEN "setnx" ELSE "local"

\* LockHeld: a caller with wait_ms left polls again.
Refuse(q) == Answer(q) \/ Step(q, "poll")

\* What acquire_lock's two answers mean to its caller: acquire goes on to the
\* row or is refused, heartbeat ignores the answer.
Granted(q) == IF req[q].op = "acquire" THEN Step(q, "local") ELSE Answer(q)
Denied(q) == IF req[q].op = "acquire" THEN Refuse(q) ELSE Answer(q)
--------------------------------------------------------------------------------
(***************************************************************************)
(* RedisBackend.  A command that raises is answered like a refusal, and a  *)
(* release that raises is ignored.                                         *)
(***************************************************************************)
SetNx(q) ==
  /\ At(q, "setnx")
  /\ \/ key = NULL /\ key' = Tagged(req[q].holder, req[q].ttl) /\ Granted(q)
     \/ key # NULL /\ Step(q, "getkey") /\ UNCHANGED key
     \/ Denied(q) /\ UNCHANGED key
  /\ UNCHANGED <<clustered, row, sweeper, grant>>

GetKey(q) ==
  /\ At(q, "getkey")
  /\ \/ key # NULL /\ key.holder = req[q].holder /\ Step(q, "expire")
     \/ Denied(q)
  /\ UNCHANGED <<clustered, row, key, sweeper, grant>>

\* EXPIRE moves the TTL of whatever key is there, and acquire_lock answers True
\* even if there is none any more.
Expire(q) ==
  /\ At(q, "expire")
  /\ \/ /\ key' = IF key = NULL THEN NULL ELSE [key EXCEPT !.left = req[q].ttl]
        /\ Granted(q)
     \/ Denied(q) /\ UNCHANGED key
  /\ UNCHANGED <<clustered, row, sweeper, grant>>

DropKey(hs) ==
  \/ key # NULL /\ key.holder \in hs /\ key' = NULL
  \/ UNCHANGED key
--------------------------------------------------------------------------------
StartAcquire(q, r, h, t) ==
  /\ req[q] = NULL
  /\ req' = [req EXCEPT ![q] = Call(Gate, "acquire", r, h, t)]
  /\ UNCHANGED <<clustered, row, key, sweeper, grant>>

Poll(q) ==
  /\ At(q, "poll")
  /\ Step(q, Gate)
  /\ UNCHANGED <<clustered, row, key, sweeper, grant>>

\* The BEGIN IMMEDIATE transaction.  An active row refuses whoever asks; at the
\* instant of expiry the row is neither active nor does the upsert's WHERE let
\* it be taken.
MutTakeable(r) == TRUE   \* mutant: an upsert without its WHERE
Takeable(r) == row[r] = NULL \/ Expired(r)

AcquireRow(q) ==
  LET r == req[q].rep
      h == req[q].holder
  IN /\ At(q, "local")
     /\ Takeable(r)
     /\ row' = [row EXCEPT ![r] = Tagged(h, req[q].ttl)]
     /\ grant' = [grant EXCEPT ![r][h] = req[q].ttl]
     /\ Answer(q)
     /\ UNCHANGED <<clustered, key, sweeper>>

\* An active row, or a database that is busy.
AcquireRefused(q) ==
  /\ At(q, "local")
  /\ IF clustered THEN Step(q, "undo") ELSE Refuse(q)
  /\ UNCHANGED <<clustered, row, key, sweeper, grant>>

AcquireUndo(q) ==
  /\ At(q, "undo")
  /\ DropKey({req[q].holder})
  /\ Refuse(q)
  /\ UNCHANGED <<clustered, row, sweeper, grant>>

\* heartbeat reads the row, updates WHERE holder = ?, and reads again.
HeartbeatRead(q, r, h, t) ==
  /\ req[q] = NULL
  /\ Held(r, h)
  /\ req' = [req EXCEPT ![q] = Call("update", "heartbeat", r, h, t)]
  /\ UNCHANGED <<clustered, row, key, sweeper, grant>>

RenewableBy(r, h) == Held(r, h)

HeartbeatUpdate(q) ==
  LET r == req[q].rep
      h == req[q].holder
  IN /\ At(q, "update")
     /\ IF RenewableBy(r, h)
        THEN /\ row' = [row EXCEPT ![r] = Tagged(h, req[q].ttl)]
             /\ grant' = [grant EXCEPT ![r][h] = req[q].ttl]
        ELSE UNCHANGED <<row, grant>>
     /\ Step(q, "reread")
     /\ UNCHANGED <<clustered, key, sweeper>>

\* A row that is gone by now fails an assertion; any other row is the answer.
HeartbeatAnswer(q) ==
  /\ At(q, "reread")
  /\ IF row[req[q].rep] # NULL /\ clustered THEN Step(q, "setnx") ELSE Answer(q)
  /\ UNCHANGED <<clustered, row, key, sweeper, grant>>

ReleaseLock(q, r, h) ==
  /\ req[q] = NULL
  /\ row' = IF Held(r, h) THEN [row EXCEPT ![r] = NULL] ELSE row
  /\ grant' = [grant EXCEPT ![r][h] = -1]
  /\ IF clustered
     THEN \E t \in Ttls :
            req' = [req EXCEPT ![q] = Call("drop", "release", r, h, t)]
     ELSE UNCHANGED req
  /\ UNCHANGED <<clustered, key, sweeper>>

ReleaseDrop(q) ==
  /\ At(q, "drop")
  /\ DropKey({req[q].holder})
  /\ Answer(q)
  /\ UNCHANGED <<clustered, row, sweeper, grant>>

LoseCall(q) ==
  /\ req[q] # NULL
  /\ Answer(q)
  /\ UNCHANGED <<clustered, row, key, sweeper, grant>>
--------------------------------------------------------------------------------
(***************************************************************************)
(* expire_stale_locks: with a cluster backend the stale rows are read      *)
(* first, and the keys of what was read are dropped after the deletion.    *)
(***************************************************************************)
SweepSelect(r) ==
  /\ clustered /\ sweeper[r].at = "idle"
  /\ sweeper' = [sweeper EXCEPT ![r] =
       [at |-> "delete", stale |-> IF Expired(r) THEN {row[r].holder} ELSE {}]]
  /\ UNCHANGED <<clustered, row, key, req, grant>>

SweepDelete(r) ==
  /\ sweeper[r].at = IF clustered THEN "delete" ELSE "idle"
  /\ row' = IF Expired(r) THEN [row EXCEPT ![r] = NULL] ELSE row
  /\ sweeper' = [sweeper EXCEPT ![r].at =
                   IF sweeper[r].stale # {} THEN "release" ELSE "idle"]
  /\ UNCHANGED <<clustered, key, req, grant>>

SweepRelease(r) ==
  /\ sweeper[r].at = "release"
  /\ DropKey(sweeper[r].stale)
  /\ sweeper' = [sweeper EXCEPT ![r] = [at |-> "idle", stale |-> {}]]
  /\ UNCHANGED <<clustered, row, req, grant>>
--------------------------------------------------------------------------------
Older(t) == IF t < 0 THEN t ELSE t - 1

LockTick ==
  /\ row' = [r \in Replicas |-> IF row[r] = NULL THEN NULL
                                ELSE [row[r] EXCEPT !.left = Older(@)]]
  /\ key' = IF key = NULL \/ key.left = 1 THEN NULL
            ELSE [key EXCEPT !.left = Older(@)]
  /\ grant' = [r \in Replicas |-> [h \in Holders |-> Older(grant[r][h])]]
  /\ UNCHANGED <<clustered, req, sweeper>>

HandlerStep(q) ==
  \/ SetNx(q) \/ GetKey(q) \/ Expire(q) \/ Poll(q)
  \/ AcquireRow(q) \/ AcquireRefused(q) \/ AcquireUndo(q)
  \/ HeartbeatUpdate(q) \/ HeartbeatAnswer(q) \/ ReleaseDrop(q)

SweepStep(r) == SweepSelect(r) \/ SweepDelete(r) \/ SweepRelease(r)

LockNext ==
  \/ \E q \in Requests :
       \/ HandlerStep(q) \/ LoseCall(q)
       \/ \E r \in Replicas, h \in Holders :
            \/ ReleaseLock(q, r, h)
            \/ \E t \in Ttls : StartAcquire(q, r, h, t) \/ HeartbeatRead(q, r, h, t)
  \/ \E r \in Replicas : SweepStep(r)
  \/ LockTick

LockSpec == LockInit /\ [][LockNext]_lockVars
--------------------------------------------------------------------------------
(***************************************************************************)
(* Properties.                                                             *)
(***************************************************************************)
Promised(r, h) == grant[r][h] > 0

\* One replica never has two holders at once: what a holder was promised by an
\* acquire or a heartbeat ends before anybody else is promised the lock,
\* however acquires, renewals, releases and sweeps interleave, and also at the
\* instant of expiry, where acquire and the sweep compare differently.
GrantsExclusive ==
  \A r \in Replicas : \A a, b \in Holders :
    Promised(r, a) /\ Promised(r, b) => a = b

\* A promise is backed by the row it was made from until it ends: nothing but
\* the holder's own release removes or shortens a lock that is still promised.
PromiseKept ==
  \A r \in Replicas, h \in Holders :
    Promised(r, h) => Held(r, h) /\ row[r].left >= grant[r][h]

\* What a replica answers holds: it never promises a lock to two holders for
\* the same time, and never takes a promised lock away.
PromisesHold == GrantsExclusive /\ PromiseKept

\* A lock whose holder vanished does not stay for ever: the sweep removes the
\* expired row unless somebody acquires or renews it first.
Lapsed(r) == row[r] # NULL /\ row[r].left < 0
LapsedLockGoes == \A r \in Replicas : Lapsed(r) ~> ~Lapsed(r)
================================================================================
