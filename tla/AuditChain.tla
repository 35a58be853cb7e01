------------------------------- MODULE AuditChain -------------------------------
(***************************************************************************)
(* The hash chain over audit_events (audit.py of the gateway).             *)
(*                                                                         *)
(* A row is named by its id, a ULID: the millisecond it was drawn in and a *)
(* random part.  Its event_hash is a hash of its contents and of           *)
(* prev_hash; hashes do not collide, so the hash of an untouched row is    *)
(* named by the row's id as well.                                          *)
(***************************************************************************)
EXTENDS Naturals, FiniteSets, FiniteSetsExt

CONSTANTS Recorders,  \* requests that record an event at the same time
          MaxMillis,  \* bound on the clock
          MaxEvents,  \* bound on the events recorded
          MaxPurges   \* bound on deletions of a tenant's rows

ASSUME AuditAssumption ==
  {MaxMillis, MaxEvents, MaxPurges} \subseteq Nat /\ MaxMillis >= 1

VARIABLES millis,   \* clock
          events,   \* the rows of audit_events
          link,     \* prev_hash of each row
          rec,      \* records in flight
          drawn,    \* events so far
          purges,   \* deletions so far
          overlap   \* history: two records were once in flight together

auditVars == <<millis, events, link, rec, drawn, purges, overlap>>

\* A random part of MaxEvents values tells every two ids apart.
EventIds == (1..MaxMillis) \X (1..MaxEvents)
Genesis == <<0, 0>>
NoRecord == [at |-> "none"]

Earlier(a, b) == a[1] < b[1] \/ (a[1] = b[1] /\ a[2] < b[2])

AuditTypeOK ==
  /\ millis \in 1..MaxMillis
  /\ events \subseteq EventIds
  /\ link \in [events -> EventIds \cup {Genesis}]
  /\ \A e \in events : link[e] # e
  /\ rec \in [Recorders -> {NoRecord}
                \cup [at: {"read"}, id: EventIds]
                \cup [at: {"insert"}, id: EventIds, prev: EventIds \cup {Genesis}]]
  /\ drawn \in 0..MaxEvents /\ purges \in 0..MaxPurges
  /\ overlap \in BOOLEAN

AuditInit ==
  /\ millis = 1
  /\ events = {} /\ link = [e \in {} |-> Genesis]
  /\ rec = [r \in Recorders |-> NoRecord]
  /\ drawn = 0 /\ purges = 0
  /\ overlap = FALSE

InFlight == {rec[r].id : r \in {q \in Recorders : rec[q] # NoRecord}}
LatestOf(S) == CHOOSE e \in S : \A f \in S \ {e} : Earlier(f, e)

\* mutant: the earliest row is taken for the latest.
MutLatest == IF events = {} THEN Genesis
             ELSE CHOOSE e \in events : \A f \in events \ {e} : Earlier(e, f)

\* _latest_event_hash: by id, not by insertion.
Latest == IF events = {} THEN Genesis ELSE LatestOf(events)
--------------------------------------------------------------------------------
(* record: draw an id, read the latest hash, insert.                       *)
DrawId(r) ==
  /\ rec[r] = NoRecord /\ drawn < MaxEvents
  /\ \E n \in 1..MaxEvents :
       /\ <<millis, n>> \notin events \cup InFlight
       /\ rec' = [rec EXCEPT ![r] = [at |-> "read", id |-> <<millis, n>>]]
  /\ drawn' = drawn + 1
  /\ overlap' = (overlap \/ InFlight # {})
  /\ UNCHANGED <<millis, events, link, purges>>

ReadLatest(r) ==
  /\ rec[r].at = "read"
  /\ rec' = [rec EXCEPT ![r] = [at |-> "insert", id |-> @.id, prev |-> Latest]]
  /\ UNCHANGED <<millis, events, link, drawn, purges, overlap>>

LinkTo(r) == rec[r].prev

InsertEvent(r) ==
  /\ rec[r].at = "insert"
  /\ events' = events \cup {rec[r].id}
  /\ link' = [e \in events' |-> IF e = rec[r].id THEN LinkTo(r) ELSE link[e]]
  /\ rec' = [rec EXCEPT ![r] = NoRecord]
  /\ UNCHANGED <<millis, drawn, purges, overlap>>

RecordLost(r) ==
  /\ rec[r] # NoRecord
  /\ rec' = [rec EXCEPT ![r] = NoRecord]
  /\ UNCHANGED <<millis, events, link, drawn, purges, overlap>>

\* delete_tenant_data: the rows of one tenant, in one statement.
PurgeTenant(S) ==
  /\ purges < MaxPurges /\ S # {}
  /\ purges' = purges + 1
  /\ events' = events \ S
  /\ link' = [e \in events' |-> link[e]]
  /\ UNCHANGED <<millis, rec, drawn, overlap>>

AuditTick ==
  /\ millis < MaxMillis
  /\ millis' = millis + 1
  /\ UNCHANGED <<events, link, rec, drawn, purges, overlap>>

AuditNext ==
  \/ \E r \in Recorders : DrawId(r) \/ ReadLatest(r) \/ InsertEvent(r) \/ RecordLost(r)
  \/ \E S \in SUBSET events : PurgeTenant(S)
  \/ AuditTick

AuditSpec == AuditInit /\ [][AuditNext]_auditVars
--------------------------------------------------------------------------------
(* verify_chain over a window of rows that were not edited: the prev_hash  *)
(* of every row but the first is compared with the row before it.          *)
Verifies(W) ==
  \A e \in W :
    LET earlier == {f \in W : Earlier(f, e)}
    IN  earlier # {} => link[e] = LatestOf(earlier)

\* From the start of the table, or from the timestamp a caller gives.
Windows == {{e \in events : e[1] >= since} : since \in 1..MaxMillis}

(* A log verifies, from its start and from any later time, provided that   *)
(* no two records were ever in flight together, no tenant was deleted and  *)
(* no two ids share a millisecond: each id drawn is then larger than every *)
(* row there is, so a record links to the row before it.                   *)
QuietLogVerifies ==
  (/\ ~overlap /\ purges = 0
   /\ \A e, f \in events : e[1] = f[1] => e = f)
  => \A W \in Windows : Verifies(W)
================================================================================
