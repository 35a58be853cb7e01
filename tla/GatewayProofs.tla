---------------------------- MODULE GatewayProofs ----------------------------
(***************************************************************************)
(* Proofs about the gateway: its audit chain, token broker, tool calls and *)
(* transactions, for every set of recorders, connections, agents,          *)
(* requests, handlers and calls.                                           *)
(***************************************************************************)
EXTENDS Gateway, Transactions, NatExtrema, FiniteSetTheorems

--------------------------------------------------------------------------------
(***************************************************************************)
(* The audit chain.  As long as records do not overlap, each row names the *)
(* one before it.                                                          *)
(***************************************************************************)

(* What a record in flight is.                                             *)
ReadRec == [at : {"read"}, id : EventIds]
InsertRec == [at : {"insert"}, id : EventIds, prev : EventIds \cup {Genesis}]
RecTyped == rec \in [Recorders -> {NoRecord} \cup ReadRec \cup InsertRec]

(* Ids in flight are those of no row and of no other record.               *)
IdsApart ==
  /\ \A r \in Recorders : rec[r] # NoRecord => rec[r].id \notin events
  /\ \A r, q \in Recorders : rec[r] # NoRecord /\ rec[q] # NoRecord /\ rec[r].id = rec[q].id
                               => r = q
  /\ \A r \in Recorders : rec[r].at = "insert" => rec[r].prev # rec[r].id

IsLast(m, S) == m \in S /\ \A f \in S \ {m} : Earlier(f, m)
Before(e) == {f \in events : Earlier(f, e)}
OneEach == \A e, f \in events : e[1] = f[1] => e = f

(* While it is quiet one record is in flight, with an id after those of    *)
(* all rows, and it links to the last row.                                 *)
Alone ==
  /\ \A r, q \in Recorders : rec[r] # NoRecord /\ rec[q] # NoRecord => r = q
  /\ \A e \in events : e[1] <= millis
  /\ \A r \in Recorders : rec[r] # NoRecord =>
       rec[r].id[1] <= millis /\ \A e \in events : e[1] <= rec[r].id[1]
  /\ \A r \in Recorders : rec[r].at = "insert" => rec[r].prev = Latest

Chained ==
  OneEach => \A e \in events : Before(e) # {} => IsLast(link[e], Before(e))

ChainInv == AuditTypeOK /\ IdsApart /\ (~overlap /\ purges = 0 => Alone /\ Chained)

LEMMA AuditConstants == MaxMillis \in Nat /\ MaxMillis >= 1 /\ MaxEvents \in Nat /\ MaxPurges \in Nat
  BY AuditAssumption

LEMMA RecHas ==
  /\ \A x \in ReadRec \cup InsertRec : x # NoRecord /\ x.id \in EventIds
  /\ NoRecord.at = "none"
  /\ \A x \in {NoRecord} \cup ReadRec \cup InsertRec :
       /\ x.at = "read" <=> x \in ReadRec
       /\ x.at = "insert" <=> x \in InsertRec
       /\ x # NoRecord => x \in ReadRec \cup InsertRec
  /\ \A x \in InsertRec : x.prev \in EventIds \cup {Genesis}
  /\ \A e \in EventIds : e[1] \in Nat /\ e[2] \in Nat /\ e = <<e[1], e[2]>> /\ e # Genesis
                         /\ e[1] \in 1..MaxMillis
<1>1. \A e \in EventIds : e[1] \in Nat /\ e[2] \in Nat /\ e = <<e[1], e[2]>> /\ e # Genesis
                          /\ e[1] \in 1..MaxMillis
  BY AuditConstants DEF EventIds, Genesis
<1>2. NoRecord.at = "none"
  BY DEF NoRecord
<1>3. \A x \in ReadRec : x.at = "read" /\ x.id \in EventIds
  BY DEF ReadRec
<1>4. \A x \in InsertRec : x.at = "insert" /\ x.id \in EventIds /\ x.prev \in EventIds \cup {Genesis}
  BY DEF InsertRec
<1> QED BY <1>1, <1>2, <1>3, <1>4

(* Ids are ordered, and a set of them has one last member at most.         *)
LEMMA EarlierOrders ==
  ASSUME NEW a \in EventIds, NEW b \in EventIds
  PROVE  /\ ~(Earlier(a, b) /\ Earlier(b, a))
         /\ a # b => Earlier(a, b) \/ Earlier(b, a)
         /\ \A c \in EventIds : Earlier(a, b) /\ Earlier(b, c) => Earlier(a, c)
BY RecHas DEF Earlier

LEMMA LastIs ==
  ASSUME NEW S \in SUBSET EventIds, NEW m, IsLast(m, S)
  PROVE  LatestOf(S) = m
<1>1. \A e \in S : (\A f \in S \ {e} : Earlier(f, e)) => e = m
  BY EarlierOrders DEF IsLast
<1> QED BY <1>1 DEF LatestOf, IsLast

LEMMA LastExists ==
  ASSUME NEW S \in SUBSET EventIds, S # {}
  PROVE  LatestOf(S) \in S /\ IsLast(LatestOf(S), S)
<1> DEFINE M == {e[1] : e \in S}
<1>1. M \in SUBSET Nat /\ M # {} /\ \A n \in M : n <= MaxMillis
  BY RecHas, AuditConstants
<1>2. PICK m \in M : \A n \in M : n <= m
  <2> HIDE DEF M
  <2> QED BY <1>1, Greatest, AuditConstants
<1> DEFINE N == {e[2] : e \in {f \in S : f[1] = m}}
<1>3. N \in SUBSET Nat /\ N # {} /\ \A n \in N : n <= MaxEvents
  BY RecHas, AuditConstants, <1>2 DEF EventIds
<1>4. PICK n \in N : \A k \in N : k <= n
  <2> HIDE DEF N
  <2> QED BY <1>3, Greatest, AuditConstants
<1>5. PICK e \in S : e[1] = m /\ e[2] = n
  BY <1>4
<1>6. ASSUME NEW f \in S \ {e} PROVE Earlier(f, e)
  <2>1. f[1] \in M /\ f[1] <= m /\ f[1] \in Nat /\ f[2] \in Nat /\ f \in EventIds
    BY <1>2, RecHas
  <2>2. f[1] = m => f[2] \in N /\ f[2] <= n
    BY <1>4
  <2>3. e[1] \in Nat /\ e[2] \in Nat /\ e = <<e[1], e[2]>> /\ f = <<f[1], f[2]>>
    BY <2>1, RecHas
  <2>4. ~(f[1] = m /\ f[2] = n)
    BY <1>5, <2>3
  <2> HIDE DEF M, N
  <2> QED BY <1>5, <2>1, <2>2, <2>3, <2>4 DEF Earlier
<1>7. IsLast(e, S)
  BY <1>6 DEF IsLast
<1> QED BY <1>7, LastIs DEF IsLast

LEMMA AuditTypes ==
  /\ AuditTypeOK <=> /\ millis \in 1..MaxMillis /\ events \subseteq EventIds
                     /\ link \in [events -> EventIds \cup {Genesis}]
                     /\ \A e \in events : link[e] # e
                     /\ RecTyped /\ drawn \in 0..MaxEvents /\ purges \in 0..MaxPurges
                     /\ overlap \in BOOLEAN
  /\ AuditTypeOK' <=> /\ millis' \in 1..MaxMillis /\ events' \subseteq EventIds
                      /\ link' \in [events' -> EventIds \cup {Genesis}]
                      /\ \A e \in events' : link'[e] # e
                      /\ RecTyped' /\ drawn' \in 0..MaxEvents /\ purges' \in 0..MaxPurges
                      /\ overlap' \in BOOLEAN
BY DEF AuditTypeOK, RecTyped, ReadRec, InsertRec

LEMMA ChainStart == AuditInit => ChainInv
<1> SUFFICES ASSUME AuditInit PROVE ChainInv
  OBVIOUS
<1>1. /\ millis = 1 /\ events = {} /\ link = [e \in {} |-> Genesis]
      /\ rec = [r \in Recorders |-> NoRecord] /\ drawn = 0 /\ purges = 0 /\ overlap = FALSE
  BY DEF AuditInit
<1>2. \A r \in Recorders : rec[r] = NoRecord /\ rec[r].at # "insert"
  BY <1>1, RecHas
<1>3. RecTyped
  BY <1>1 DEF RecTyped
<1>4. link \in [events -> EventIds \cup {Genesis}]
  BY <1>1
<1>5. millis = 1 /\ drawn = 0 /\ purges = 0 /\ overlap = FALSE /\ events = {}
  BY <1>1
<1>6. AuditTypeOK
  <2>1. millis \in 1..MaxMillis /\ drawn \in 0..MaxEvents /\ purges \in 0..MaxPurges
    BY <1>5, AuditConstants
  <2>2. events \subseteq EventIds /\ \A e \in events : link[e] # e
    BY <1>5
  <2> QED BY <1>3, <1>4, <1>5, <2>1, <2>2, AuditTypes
<1>7. IdsApart
  BY <1>1, <1>2 DEF IdsApart
<1>8. Alone
  BY <1>1, <1>2 DEF Alone
<1>9. Chained
  BY <1>1 DEF Chained
<1> QED BY <1>6, <1>7, <1>8, <1>9 DEF ChainInv

(* The records a step leaves, from those it found.                         *)
LEMMA RecMoves ==
  ASSUME ChainInv, NEW r \in Recorders, NEW q \in {NoRecord} \cup ReadRec \cup InsertRec,
         rec' = [rec EXCEPT ![r] = q]
  PROVE  RecTyped' /\ \A p \in Recorders : rec'[p] = IF p = r THEN q ELSE rec[p]
<1>1. RecTyped
  BY AuditTypes DEF ChainInv
<1> QED BY <1>1 DEF RecTyped

LEMMA RecIs ==
  ASSUME ChainInv, NEW r \in Recorders
  PROVE  /\ rec[r] \in {NoRecord} \cup ReadRec \cup InsertRec
         /\ rec[r].at = "read" => rec[r] \in ReadRec
         /\ rec[r].at = "insert" => rec[r] \in InsertRec
         /\ rec[r] # NoRecord => rec[r] \in ReadRec \cup InsertRec /\ rec[r].id \in EventIds
         /\ rec[r].at \in {"read", "insert"} => rec[r] # NoRecord
<1>1. rec[r] \in {NoRecord} \cup ReadRec \cup InsertRec
  BY AuditTypes DEF ChainInv, RecTyped
<1> QED BY <1>1, RecHas

LEMMA DrawKeeps ==
  ASSUME ChainInv, NEW r \in Recorders, DrawId(r)
  PROVE  ChainInv'
<1>1. PICK n \in 1..MaxEvents :
        /\ <<millis, n>> \notin events \cup InFlight
        /\ rec' = [rec EXCEPT ![r] = [at |-> "read", id |-> <<millis, n>>]]
  BY DEF DrawId
<1>2. /\ rec[r] = NoRecord /\ drawn < MaxEvents /\ drawn' = drawn + 1
      /\ overlap' = (overlap \/ InFlight # {})
      /\ UNCHANGED <<millis, events, link, purges>>
  BY DEF DrawId
<1> DEFINE d == <<millis, n>>
           q == [at |-> "read", id |-> d]
<1>3. /\ millis \in 1..MaxMillis /\ events \subseteq EventIds /\ drawn \in 0..MaxEvents
      /\ link \in [events -> EventIds \cup {Genesis}] /\ \A e \in events : link[e] # e
      /\ RecTyped /\ purges \in 0..MaxPurges /\ overlap \in BOOLEAN
  BY AuditTypes DEF ChainInv
<1>4. d \in EventIds /\ d[1] = millis
  BY <1>3 DEF EventIds
<1>5. d \notin events /\ \A p \in Recorders : rec[p] # NoRecord => rec[p].id # d
  BY <1>1 DEF InFlight
<1> HIDE DEF d
<1>6. q \in ReadRec /\ q.id = d /\ q.at = "read" /\ q # NoRecord
  BY <1>4, RecHas DEF ReadRec
<1>7. rec' = [rec EXCEPT ![r] = q]
  BY <1>1 DEF d
<1> HIDE DEF q
<1>8. RecTyped' /\ \A p \in Recorders : rec'[p] = IF p = r THEN q ELSE rec[p]
  BY <1>6, <1>7, RecMoves
<1>9. AuditTypeOK'
  <2>1. drawn' \in 0..MaxEvents
    BY <1>2, <1>3, AuditConstants
  <2>2. overlap' \in BOOLEAN
    BY <1>2, <1>3
  <2> QED BY <1>2, <1>3, <1>8, <2>1, <2>2, AuditTypes
<1>10. IdsApart'
  <2>1. IdsApart
    BY DEF ChainInv
  <2> QED BY <1>2, <1>5, <1>6, <1>8, <2>1 DEF IdsApart
<1>11. ASSUME ~overlap', purges' = 0 PROVE Alone' /\ Chained'
  <2>1. ~overlap /\ purges = 0 /\ InFlight = {}
    BY <1>2, <1>3, <1>11
  <2>2. \A p \in Recorders : rec[p] = NoRecord
    BY <2>1 DEF InFlight
  <2>3. Alone /\ Chained
    BY <2>1 DEF ChainInv
  <2>4. Alone'
    <3>1. \A e \in events : e[1] <= millis
      BY <2>3 DEF Alone
    <3>2. \A p \in Recorders : rec'[p] # NoRecord => p = r /\ rec'[p] = q
      BY <1>8, <2>2
    <3>3. \A p \in Recorders : rec'[p].at # "insert"
      BY <1>6, <1>8, <2>2, RecHas
    <3>4. millis <= millis
      BY <1>3
    <3> QED BY <1>2, <1>4, <1>6, <3>1, <3>2, <3>3, <3>4 DEF Alone
  <2>5. Chained'
    BY <1>2, <2>3 DEF Chained, OneEach, Before
  <2> QED BY <2>4, <2>5
<1> QED BY <1>9, <1>10, <1>11 DEF ChainInv

LEMMA ReadKeeps ==
  ASSUME ChainInv, NEW r \in Recorders, ReadLatest(r)
  PROVE  ChainInv'
<1> DEFINE q == [at |-> "insert", id |-> rec[r].id, prev |-> Latest]
<1>1. /\ rec[r].at = "read" /\ rec' = [rec EXCEPT ![r] = q]
      /\ UNCHANGED <<millis, events, link, drawn, purges, overlap>>
  BY DEF ReadLatest
<1>2. rec[r] # NoRecord /\ rec[r].id \in EventIds
  BY <1>1, RecIs
<1>3. /\ millis \in 1..MaxMillis /\ events \subseteq EventIds /\ drawn \in 0..MaxEvents
      /\ link \in [events -> EventIds \cup {Genesis}] /\ \A e \in events : link[e] # e
      /\ RecTyped /\ purges \in 0..MaxPurges /\ overlap \in BOOLEAN
  BY AuditTypes DEF ChainInv
<1>4. Latest \in events \cup {Genesis}
  BY <1>3, LastExists DEF Latest
<1>5. Latest \in EventIds \cup {Genesis} /\ Latest # rec[r].id
  BY <1>2, <1>3, <1>4, RecHas DEF ChainInv, IdsApart
<1>6. q \in InsertRec /\ q.id = rec[r].id /\ q.at = "insert" /\ q.prev = Latest /\ q # NoRecord
  BY <1>2, <1>5, RecHas DEF InsertRec
<1> HIDE DEF q
<1>7. RecTyped' /\ \A p \in Recorders : rec'[p] = IF p = r THEN q ELSE rec[p]
  BY <1>1, <1>6, RecMoves
<1>8. AuditTypeOK'
  BY <1>1, <1>3, <1>7, AuditTypes
<1>9. IdsApart'
  <2>1. IdsApart
    BY DEF ChainInv
  <2> QED BY <1>1, <1>2, <1>5, <1>6, <1>7, <2>1 DEF IdsApart
<1>10. ASSUME ~overlap', purges' = 0 PROVE Alone' /\ Chained'
  <2>1. Alone /\ Chained
    BY <1>1, <1>10 DEF ChainInv
  <2>2. Latest' = Latest
    BY <1>1 DEF Latest
  <2>3. Alone'
    BY <1>1, <1>2, <1>6, <1>7, <2>1, <2>2 DEF Alone
  <2>4. Chained'
    BY <1>1, <2>1 DEF Chained, OneEach, Before
  <2> QED BY <2>3, <2>4
<1> QED BY <1>8, <1>9, <1>10 DEF ChainInv

(* A record that ends without a row.                                       *)
LEMMA LostKeeps ==
  ASSUME ChainInv, NEW r \in Recorders, RecordLost(r)
  PROVE  ChainInv'
<1>1. /\ rec' = [rec EXCEPT ![r] = NoRecord]
      /\ UNCHANGED <<millis, events, link, drawn, purges, overlap>>
  BY DEF RecordLost
<1>2. RecTyped' /\ \A p \in Recorders : rec'[p] = IF p = r THEN NoRecord ELSE rec[p]
  BY <1>1, RecMoves
<1>3. AuditTypeOK'
  BY <1>1, <1>2, AuditTypes DEF ChainInv
<1>4. NoRecord.at # "insert"
  BY RecHas
<1>5. IdsApart'
  BY <1>1, <1>2, <1>4 DEF ChainInv, IdsApart
<1>6. ASSUME ~overlap', purges' = 0 PROVE Alone' /\ Chained'
  <2>1. Alone /\ Chained
    BY <1>1, <1>6 DEF ChainInv
  <2>2. Latest' = Latest
    BY <1>1 DEF Latest
  <2>3. Alone'
    BY <1>1, <1>2, <1>4, <2>1, <2>2 DEF Alone
  <2>4. Chained'
    BY <1>1, <2>1 DEF Chained, OneEach, Before
  <2> QED BY <2>3, <2>4
<1> QED BY <1>3, <1>5, <1>6 DEF ChainInv

(* A row is added after all others, linked to the last of them.            *)
LEMMA InsertKeeps ==
  ASSUME ChainInv, NEW r \in Recorders, InsertEvent(r)
  PROVE  ChainInv'
<1> DEFINE d == rec[r].id
           p == rec[r].prev
<1>1. /\ rec[r].at = "insert" /\ rec' = [rec EXCEPT ![r] = NoRecord]
      /\ events' = events \cup {d} /\ UNCHANGED <<millis, drawn, purges, overlap>>
      /\ link' = [e \in events' |-> IF e = d THEN p ELSE link[e]]
  BY DEF InsertEvent, LinkTo
<1>2. /\ rec[r] # NoRecord /\ d \in EventIds /\ p \in EventIds \cup {Genesis}
  BY <1>1, RecIs, RecHas
<1>3. /\ millis \in 1..MaxMillis /\ events \subseteq EventIds /\ drawn \in 0..MaxEvents
      /\ link \in [events -> EventIds \cup {Genesis}] /\ \A e \in events : link[e] # e
      /\ RecTyped /\ purges \in 0..MaxPurges /\ overlap \in BOOLEAN
  BY AuditTypes DEF ChainInv
<1>4. d \notin events /\ p # d /\ \A q \in Recorders \ {r} : rec[q] # NoRecord => rec[q].id # d
  BY <1>1, <1>2 DEF ChainInv, IdsApart
<1>5. RecTyped' /\ \A q \in Recorders : rec'[q] = IF q = r THEN NoRecord ELSE rec[q]
  BY <1>1, RecMoves
<1>6. NoRecord.at # "insert"
  BY RecHas
<1>7. IdsApart'
  <2>1. IdsApart
    BY DEF ChainInv
  <2> HIDE DEF d
  <2> QED BY <1>1, <1>4, <1>5, <1>6, <2>1 DEF IdsApart
<1>8. ASSUME ~overlap', purges' = 0 PROVE Alone
  BY <1>1, <1>8 DEF ChainInv
<1>9. ASSUME ~overlap', purges' = 0 PROVE Chained
  BY <1>1, <1>9 DEF ChainInv
<1>10. ASSUME ~overlap', purges' = 0
       PROVE  /\ p = Latest /\ d[1] <= millis /\ \A e \in events : e[1] <= d[1]
              /\ \A q \in Recorders \ {r} : rec[q] = NoRecord
  BY <1>1, <1>2, <1>8, <1>10 DEF Alone
<1> HIDE DEF d, p
<1>11. AuditTypeOK'
  <2>1. link' \in [events' -> EventIds \cup {Genesis}] /\ \A e \in events' : link'[e] # e
    BY <1>1, <1>2, <1>3, <1>4
  <2>2. events' \subseteq EventIds
    BY <1>1, <1>2, <1>3
  <2> QED BY <1>1, <1>3, <1>5, <2>1, <2>2, AuditTypes
<1>12. ASSUME ~overlap', purges' = 0 PROVE Alone'
  <2>1. \A q \in Recorders : rec'[q] = NoRecord
    BY <1>5, <1>10, <1>12
  <2>2. \A e \in events' : e[1] <= millis'
    BY <1>1, <1>8, <1>10, <1>12 DEF Alone
  <2> QED BY <1>6, <2>1, <2>2 DEF Alone
<1>13. ASSUME ~overlap', purges' = 0 PROVE Chained'
  <2> SUFFICES ASSUME OneEach', NEW e \in events',
                      {f \in events' : Earlier(f, e)} # {}
               PROVE  IsLast(link'[e], {f \in events' : Earlier(f, e)})
    BY DEF Chained, Before
  <2>1. OneEach /\ \A f \in events : f[1] # d[1]
    BY <1>1, <1>4 DEF OneEach
  <2>2. \A f \in events : f \in EventIds /\ f[1] \in Nat /\ f[1] < d[1] /\ d[1] \in Nat
    <3>1. \A f \in events : f[1] <= d[1] /\ f[1] \in Nat /\ d[1] \in Nat /\ f \in EventIds
      BY <1>2, <1>3, <1>10, <1>13, RecHas
    <3> QED BY <2>1, <3>1
  <2>3. \A f \in events : Earlier(f, d) /\ ~Earlier(d, f)
    BY <2>2 DEF Earlier
  <2>4. ~Earlier(d, d)
    BY <1>2, EarlierOrders
  <2>5. CASE e = d
    <3>1. {f \in events' : Earlier(f, e)} = events
      BY <1>1, <2>3, <2>4, <2>5
    <3>2. link'[e] = p
      BY <1>1, <2>5
    <3>3. events # {}
      BY <3>1
    <3>4. p = LatestOf(events)
      BY <1>10, <1>13, <3>3 DEF Latest
    <3> QED BY <1>3, <3>1, <3>2, <3>3, <3>4, LastExists
  <2>6. CASE e # d
    <3>1. e \in events /\ link'[e] = link[e]
      BY <1>1, <2>6
    <3>2. {f \in events' : Earlier(f, e)} = Before(e)
      BY <1>1, <2>3, <3>1 DEF Before
    <3> QED BY <1>9, <1>13, <2>1, <3>1, <3>2 DEF Chained
  <2> QED BY <2>5, <2>6
<1> QED BY <1>7, <1>11, <1>12, <1>13 DEF ChainInv

LEMMA PurgeKeeps ==
  ASSUME ChainInv, NEW S \in SUBSET events, PurgeTenant(S)
  PROVE  ChainInv'
<1>1. /\ purges < MaxPurges /\ purges' = purges + 1 /\ events' = events \ S
      /\ link' = [e \in events' |-> link[e]] /\ UNCHANGED <<millis, rec, drawn, overlap>>
  BY DEF PurgeTenant
<1>2. /\ millis \in 1..MaxMillis /\ events \subseteq EventIds /\ drawn \in 0..MaxEvents
      /\ link \in [events -> EventIds \cup {Genesis}] /\ \A e \in events : link[e] # e
      /\ RecTyped /\ purges \in 0..MaxPurges /\ overlap \in BOOLEAN
  BY AuditTypes DEF ChainInv
<1>3. purges' \in 0..MaxPurges /\ purges' # 0
  BY <1>1, <1>2, AuditConstants
<1>4. link' \in [events' -> EventIds \cup {Genesis}] /\ \A e \in events' : link'[e] # e
  BY <1>1, <1>2
<1>5. RecTyped'
  BY <1>1, <1>2 DEF RecTyped
<1>6. AuditTypeOK'
  BY <1>1, <1>2, <1>3, <1>4, <1>5, AuditTypes
<1>7. IdsApart'
  BY <1>1 DEF ChainInv, IdsApart
<1> QED BY <1>3, <1>6, <1>7 DEF ChainInv

LEMMA ClockKeeps ==
  ASSUME ChainInv, AuditTick \/ UNCHANGED auditVars
  PROVE  ChainInv'
<1>1. UNCHANGED <<events, link, rec, drawn, purges, overlap>>
  BY DEF AuditTick, auditVars
<1>2. AuditTypeOK
  BY DEF ChainInv
<1>3. millis' \in 1..MaxMillis /\ millis' >= millis /\ millis \in 1..MaxMillis
  BY <1>2, AuditConstants DEF AuditTick, auditVars, AuditTypeOK
<1>4. AuditTypeOK'
  BY <1>1, <1>2, <1>3, AuditTypes DEF RecTyped
<1>5. IdsApart'
  BY <1>1 DEF ChainInv, IdsApart
<1>6. ASSUME ~overlap', purges' = 0 PROVE Alone' /\ Chained'
  <2>1. Alone /\ Chained
    BY <1>1, <1>6 DEF ChainInv
  <2>2. Latest' = Latest
    BY <1>1 DEF Latest
  <2>3. \A n \in Nat : n <= millis => n <= millis'
    BY <1>3
  <2>4. \A e \in events : e[1] \in Nat
    BY <1>2, RecHas DEF AuditTypeOK
  <2>5. \A r \in Recorders : rec[r] # NoRecord => rec[r].id[1] \in Nat
    BY RecIs, RecHas
  <2>6. Alone'
    BY <1>1, <2>1, <2>2, <2>3, <2>4, <2>5 DEF Alone
  <2>7. Chained'
    BY <1>1, <2>1 DEF Chained, OneEach, Before
  <2> QED BY <2>6, <2>7
<1> QED BY <1>4, <1>5, <1>6 DEF ChainInv

LEMMA ChainStep == ChainInv /\ [AuditNext]_auditVars => ChainInv'
BY DrawKeeps, ReadKeeps, InsertKeeps, LostKeeps, PurgeKeeps, ClockKeeps DEF AuditNext

(* As long as no two records overlap, nothing was purged and no two ids    *)
(* share a millisecond, the audit log verifies from its start and from any *)
(* later time (gateway/audit.py verify_chain), for any number of requests  *)
(* that record events and any clock.                                       *)
THEOREM QuietLogsVerify == AuditSpec => []QuietLogVerifies
<1>1. ChainInv => QuietLogVerifies
  <2> SUFFICES ASSUME ChainInv, ~overlap, purges = 0, OneEach,
                      NEW since \in 1..MaxMillis,
                      NEW e \in events, e[1] >= since,
                      {f \in {g \in events : g[1] >= since} : Earlier(f, e)} # {}
               PROVE  link[e] = LatestOf({f \in {g \in events : g[1] >= since} : Earlier(f, e)})
    BY DEF QuietLogVerifies, OneEach, Windows, Verifies
  <2> DEFINE B == {f \in {g \in events : g[1] >= since} : Earlier(f, e)}
             m == link[e]
  <2>1. Chained /\ events \subseteq EventIds
    BY AuditTypes DEF ChainInv
  <2>2. B \subseteq Before(e) /\ B # {} /\ B \in SUBSET EventIds /\ Before(e) \in SUBSET EventIds
    BY <2>1 DEF Before
  <2>3. IsLast(m, Before(e))
    BY <2>1, <2>2 DEF Chained
  <2>4. PICK f \in B : f = m \/ Earlier(f, m)
    BY <2>2, <2>3 DEF IsLast
  <2>5. m \in events /\ Earlier(m, e) /\ m[1] \in Nat /\ f[1] \in Nat /\ f[1] >= since
    BY <2>1, <2>2, <2>3, RecHas DEF IsLast, Before
  <2>6. m[1] >= since
    BY <2>4, <2>5 DEF Earlier
  <2>7. IsLast(m, B)
    BY <2>2, <2>3, <2>5, <2>6 DEF IsLast
  <2> QED BY <2>2, <2>7, LastIs
<1> QED BY <1>1, ChainStart, ChainStep, PTL DEF AuditSpec

--------------------------------------------------------------------------------
(***************************************************************************)
(* The token broker.  A refresh token that is stored is the one that the   *)
(* provider takes.                                                         *)
(***************************************************************************)


TokenIds == 1..MaxGrants + 1
Deadlines == 1..LastTick + Lifetime
Deleted == [row |-> "deleted"]
StateRows == [row : {"state"}, used : BOOLEAN, born : Ticks]
LiveRows == [row : {"live"}, refresh : TokenIds, expires : Deadlines]
Consuming == [at : {"mark", "exchange"}, state : OAuthStates]
Creating == [at : {"create"}, state : OAuthStates, expires : Deadlines]
Granting == [at : {"grant"}, conn : Connections, token : TokenIds]
Updating == [at : {"check", "update"}, conn : Connections, token : TokenIds,
             expires : Deadlines]
OAuthRequests == {NoRequest} \cup Consuming \cup Creating \cup Granting \cup Updating
OAuthRows == {NoRow, Deleted} \cup LiveRows

ConsentTyped == /\ pending \in [OAuthStates -> {NoRow} \cup StateRows]
                /\ codes \in [OAuthStates -> 0..MaxCodes]
                /\ made \in [OAuthStates -> SUBSET Connections] /\ raced \subseteq OAuthStates
ConnTyped == /\ conn \in [Connections -> OAuthRows]
             /\ accepted \in [Connections -> 0..MaxGrants + 1]
             /\ granted \in [Connections -> 0..MaxGrants] /\ lost \subseteq Connections
             /\ \A c \in Connections : accepted[c] = 0 <=> conn[c] = NoRow
ReqTyped == req \in [Requests -> OAuthRequests]

LEMMA OAuthTypes ==
  /\ OAuthTypeOK <=> tick \in Ticks /\ ConsentTyped /\ ConnTyped /\ ReqTyped
  /\ OAuthTypeOK' <=> tick' \in Ticks /\ ConsentTyped' /\ ConnTyped' /\ ReqTyped'
<1>1. OAuthTypeOK <=> tick \in Ticks /\ ConsentTyped /\ ConnTyped /\ ReqTyped
  BY DEF OAuthTypeOK, ConsentTyped, ConnTyped, ReqTyped, OAuthRequests, Consuming, Creating,
         Granting, Updating, OAuthRows, Deleted, LiveRows, StateRows, TokenIds, Deadlines
<1>2. OAuthTypeOK' <=> tick' \in Ticks /\ ConsentTyped' /\ ConnTyped' /\ ReqTyped'
  BY DEF OAuthTypeOK, ConsentTyped, ConnTyped, ReqTyped, OAuthRequests, Consuming, Creating,
         Granting, Updating, OAuthRows, Deleted, LiveRows, StateRows, TokenIds, Deadlines
<1> QED BY <1>1, <1>2

LEMMA OAuthConstants ==
  /\ Rotating \in BOOLEAN /\ Lifetime \in Nat /\ Leeway \in Nat /\ StateTtl \in Nat
  /\ LastTick \in Nat /\ LastTick >= 1 /\ MaxGrants \in Nat /\ MaxCodes \in Nat
BY OAuthAssumption

LEMMA OAuthHas ==
  /\ \A x \in Consuming : x.at \in {"mark", "exchange"} /\ x.state \in OAuthStates
  /\ \A x \in Creating : x.at = "create" /\ x.state \in OAuthStates /\ x.expires \in Deadlines
  /\ \A x \in Granting : x.at = "grant" /\ x.conn \in Connections /\ x.token \in TokenIds
  /\ \A x \in Updating : /\ x.at \in {"check", "update"} /\ x.conn \in Connections
                         /\ x.token \in TokenIds /\ x.expires \in Deadlines
  /\ NoRequest.at = "none"
  /\ \A x \in LiveRows : /\ x.row = "live" /\ x.refresh \in TokenIds /\ x.expires \in Deadlines
                         /\ x # NoRow /\ x # Deleted
  /\ NoRow.row = "none" /\ Deleted.row = "deleted" /\ Deleted # NoRow
  /\ \A x \in StateRows : /\ x # NoRow /\ x.used \in BOOLEAN /\ x.born \in Ticks
                          /\ x = [row |-> "state", used |-> x.used, born |-> x.born]
<1>1. \A x \in LiveRows : /\ x.row = "live" /\ x.refresh \in TokenIds /\ x.expires \in Deadlines
  BY DEF LiveRows
<1>2. NoRow.row = "none" /\ Deleted.row = "deleted"
  BY DEF NoRow, Deleted
<1>3. \A x \in LiveRows : x # NoRow /\ x # Deleted
  BY <1>1, <1>2
<1>4. \A x \in StateRows : /\ x.row = "state" /\ x.used \in BOOLEAN /\ x.born \in Ticks
                           /\ x = [row |-> "state", used |-> x.used, born |-> x.born]
  BY DEF StateRows
<1>5. \A x \in StateRows : x # NoRow
  BY <1>2, <1>4
<1>6. NoRequest.at = "none"
  BY DEF NoRequest
<1>7. \A x \in Consuming : x.at \in {"mark", "exchange"} /\ x.state \in OAuthStates
  BY DEF Consuming
<1>8. \A x \in Creating : x.at = "create" /\ x.state \in OAuthStates /\ x.expires \in Deadlines
  BY DEF Creating
<1>9. \A x \in Granting : x.at = "grant" /\ x.conn \in Connections /\ x.token \in TokenIds
  BY DEF Granting
<1>10. \A x \in Updating : /\ x.at \in {"check", "update"} /\ x.conn \in Connections
                           /\ x.token \in TokenIds /\ x.expires \in Deadlines
  BY DEF Updating
<1> QED BY <1>1, <1>2, <1>3, <1>4, <1>5, <1>6, <1>7, <1>8, <1>9, <1>10

(* Which requests hold a state, and which hold new tokens of a connection. *)
Consumes(x, s) == x.at \in {"mark", "exchange", "create"} /\ x.state = s
Carries(x, c) == x.at \in {"check", "update"} /\ x.conn = c
Asks(x, c) == x.at = "grant" /\ x.conn = c

(* A state is unused, or one request holds it, or it made its connection;  *)
(* past its mark no callback is let in again.                              *)
StateOnce(s) ==
  /\ codes[s] = 0 => made[s] = {} /\ \A i \in Requests : ~Consumes(req[i], s)
  /\ s \notin raced =>
       /\ \A i, j \in Requests : Consumes(req[i], s) /\ Consumes(req[j], s) => i = j
       /\ made[s] # {} => /\ Refused(s) /\ \E c \in Connections : made[s] = {c}
                          /\ \A i \in Requests : ~Consumes(req[i], s)
       /\ \A i \in Requests : Consumes(req[i], s) /\ req[i].at # "mark" => Refused(s)

(* The row of a live connection has the token the provider accepts, or one *)
(* request carries that one to it, or such a request was lost.             *)
TokenOnWay(c) ==
  /\ \A i \in Requests : Asks(req[i], c) \/ Carries(req[i], c) => conn[c] # NoRow
  /\ accepted[c] <= granted[c] + 1
  /\ LiveRow(c) =>
       /\ conn[c].refresh <= accepted[c]
       /\ \A i \in Requests : Asks(req[i], c) => req[i].token <= conn[c].refresh
       /\ \A i \in Requests : Carries(req[i], c) => req[i].token = accepted[c]
       /\ Rotating => /\ \A i, j \in Requests : Carries(req[i], c) /\ Carries(req[j], c) => i = j
                      /\ \A i \in Requests : Carries(req[i], c) => conn[c].refresh # accepted[c]
       /\ conn[c].refresh # accepted[c] /\ c \notin lost =>
            \E i \in Requests : Carries(req[i], c)

OAuthInv == /\ OAuthTypeOK
            /\ \A s \in OAuthStates : StateOnce(s)
            /\ \A c \in Connections : TokenOnWay(c)

(* Steps of a request.                                                     *)
LEMMA ReqMoves ==
  ASSUME OAuthInv, NEW i \in Requests, NEW x \in OAuthRequests, req' = [req EXCEPT ![i] = x]
  PROVE  ReqTyped' /\ \A j \in Requests : req'[j] = IF j = i THEN x ELSE req[j]
<1>1. ReqTyped
  BY OAuthTypes DEF OAuthInv
<1> QED BY <1>1 DEF ReqTyped

LEMMA ReqIs ==
  ASSUME OAuthInv, NEW i \in Requests
  PROVE  /\ req[i].at \in {"mark", "exchange"} => req[i] \in Consuming
         /\ req[i].at = "create" => req[i] \in Creating
         /\ req[i].at = "grant" => req[i] \in Granting
         /\ req[i].at \in {"check", "update"} => req[i] \in Updating
<1>1. req[i] \in OAuthRequests
  BY OAuthTypes DEF OAuthInv, ReqTyped
<1> QED BY <1>1, OAuthHas DEF OAuthRequests

LEMMA ConnIs ==
  ASSUME OAuthInv, NEW c \in Connections
  PROVE  /\ LiveRow(c) <=> conn[c] \in LiveRows
         /\ LiveRow(c) => conn[c].refresh \in TokenIds /\ conn[c] # NoRow
         /\ conn[c] \in OAuthRows /\ accepted[c] \in Nat /\ granted[c] \in Nat
         /\ granted[c] <= MaxGrants /\ accepted[c] <= MaxGrants + 1
         /\ accepted[c] = 0 <=> conn[c] = NoRow
<1>1. ConnTyped
  BY OAuthTypes DEF OAuthInv
<1>2. conn[c] \in OAuthRows
  BY <1>1 DEF ConnTyped
<1>3. LiveRow(c) <=> conn[c] \in LiveRows
  BY <1>2, OAuthHas DEF LiveRow, OAuthRows
<1>4. /\ accepted[c] \in Nat /\ granted[c] \in Nat
      /\ granted[c] <= MaxGrants /\ accepted[c] <= MaxGrants + 1
      /\ accepted[c] = 0 <=> conn[c] = NoRow
  BY <1>1, OAuthConstants DEF ConnTyped
<1> QED BY <1>2, <1>3, <1>4, OAuthHas

(* What a step leaves alone keeps its part of the invariant.               *)
LEMMA StateKept ==
  ASSUME OAuthInv, NEW s \in OAuthStates,
         \A i \in Requests : Consumes(req'[i], s) => req'[i] = req[i],
         pending'[s] = pending[s], codes'[s] = codes[s], made'[s] = made[s],
         s \in raced' <=> s \in raced
  PROVE  StateOnce(s)'
<1>1. StateOnce(s)
  BY DEF OAuthInv
<1>2. Refused(s)' <=> Refused(s)
  BY DEF Refused
<1>4. \A i \in Requests : Consumes(req'[i], s) => Consumes(req[i], s) /\ req'[i].at = req[i].at
  OBVIOUS
<1>5. codes'[s] = 0 => made'[s] = {} /\ \A i \in Requests : ~Consumes(req'[i], s)
  BY <1>1, <1>4 DEF StateOnce
<1>6. ASSUME s \notin raced'
      PROVE  /\ \A i, j \in Requests : Consumes(req'[i], s) /\ Consumes(req'[j], s) => i = j
             /\ made'[s] # {} => /\ Refused(s)' /\ \E c \in Connections : made'[s] = {c}
                                 /\ \A i \in Requests : ~Consumes(req'[i], s)
             /\ \A i \in Requests : Consumes(req'[i], s) /\ req'[i].at # "mark" => Refused(s)'
  BY <1>1, <1>2, <1>4, <1>6 DEF StateOnce
<1> QED BY <1>5, <1>6 DEF StateOnce

LEMMA TokenKept ==
  ASSUME OAuthInv, NEW c \in Connections,
         \A i \in Requests : Asks(req'[i], c) => req'[i] = req[i],
         \A i \in Requests : Carries(req'[i], c) <=> Carries(req[i], c),
         \A i \in Requests : Carries(req[i], c) => req'[i].token = req[i].token,
         conn'[c] = conn[c], accepted'[c] = accepted[c], granted'[c] = granted[c],
         lost \subseteq lost'
  PROVE  TokenOnWay(c)'
<1>1. TokenOnWay(c)
  BY DEF OAuthInv
<1>2. LiveRow(c)' <=> LiveRow(c)
  BY DEF LiveRow
<1>3. \A i \in Requests : Asks(req'[i], c) => Asks(req[i], c) /\ req'[i].token = req[i].token
  OBVIOUS
<1>4. \A i \in Requests : Carries(req'[i], c) => Carries(req[i], c) /\ req'[i].token = req[i].token
  OBVIOUS
<1>5. /\ \A i \in Requests : Asks(req'[i], c) \/ Carries(req'[i], c) => conn'[c] # NoRow
      /\ accepted'[c] <= granted'[c] + 1
  BY <1>1, <1>3, <1>4 DEF TokenOnWay
<1>6. ASSUME LiveRow(c)'
      PROVE  /\ conn'[c].refresh <= accepted'[c]
             /\ \A i \in Requests : Asks(req'[i], c) => req'[i].token <= conn'[c].refresh
             /\ \A i \in Requests : Carries(req'[i], c) => req'[i].token = accepted'[c]
             /\ Rotating => \A i, j \in Requests : Carries(req'[i], c) /\ Carries(req'[j], c) => i = j
             /\ Rotating => \A i \in Requests : Carries(req'[i], c) => conn'[c].refresh # accepted'[c]
             /\ conn'[c].refresh # accepted'[c] /\ c \notin lost' =>
                  \E i \in Requests : Carries(req'[i], c)
  BY <1>1, <1>2, <1>3, <1>4, <1>6 DEF TokenOnWay
<1> QED BY <1>5, <1>6 DEF TokenOnWay

--------------------------------------------------------------------------------
(* Authorizations.                                                         *)
LEMMA AuthorizeKeeps ==
  ASSUME OAuthInv, NEW s \in OAuthStates, Authorize(s)
  PROVE  OAuthInv'
<1> DEFINE p == [row |-> "state", used |-> FALSE, born |-> tick]
<1>1. /\ pending[s] = NoRow /\ codes[s] = 0 /\ pending' = [pending EXCEPT ![s] = p]
      /\ UNCHANGED <<tick, codes, conn, accepted, granted, req, lost, made, raced>>
  BY DEF Authorize
<1>2. tick \in Ticks /\ ConsentTyped /\ ConnTyped /\ ReqTyped
  BY OAuthTypes DEF OAuthInv
<1>3. p \in StateRows
  BY <1>2 DEF StateRows
<1> HIDE DEF p
<1>4. ConsentTyped' /\ \A t \in OAuthStates : t # s => pending'[t] = pending[t]
  BY <1>1, <1>2, <1>3 DEF ConsentTyped
<1>5. OAuthTypeOK'
  BY <1>1, <1>2, <1>4, OAuthTypes DEF ConnTyped, ReqTyped
<1>6. ASSUME NEW t \in OAuthStates PROVE StateOnce(t)'
  <2>1. CASE t = s
    <3>1. made[s] = {} /\ \A i \in Requests : ~Consumes(req[i], s)
      BY <1>1 DEF OAuthInv, StateOnce
    <3> QED BY <1>1, <2>1, <3>1 DEF StateOnce
  <2>2. CASE t # s
    BY <1>1, <1>4, <2>2, StateKept
  <2> QED BY <2>1, <2>2
<1>7. \A c \in Connections : TokenOnWay(c)'
  BY <1>1, TokenKept
<1> QED BY <1>5, <1>6, <1>7 DEF OAuthInv

LEMMA CallbackKeeps ==
  ASSUME OAuthInv, NEW i \in Requests, NEW s \in OAuthStates, CallbackRead(i, s)
  PROVE  OAuthInv'
<1> DEFINE x == [at |-> "mark", state |-> s]
<1>1. /\ req[i] = NoRequest /\ codes[s] < MaxCodes /\ ~Refused(s)
      /\ codes' = [codes EXCEPT ![s] = @ + 1]
      /\ UNCHANGED <<tick, conn, accepted, granted, lost, made>>
  BY DEF CallbackRead
<1>2. tick \in Ticks /\ ConsentTyped /\ ConnTyped /\ ReqTyped
  BY OAuthTypes DEF OAuthInv
<1>3. /\ codes' \in [OAuthStates -> 0..MaxCodes] /\ codes'[s] # 0
      /\ \A t \in OAuthStates : t # s => codes'[t] = codes[t]
  BY <1>1, <1>2, OAuthConstants DEF ConsentTyped
<1>4. StateOnce(s)
  BY DEF OAuthInv
<1>5. CASE TimedOut(s)
  <2>1. pending' = [pending EXCEPT ![s] = NoRow] /\ UNCHANGED <<req, raced>>
    BY <1>5 DEF CallbackRead
  <2>2. ConsentTyped' /\ pending'[s] = NoRow /\ \A t \in OAuthStates : t # s => pending'[t] = pending[t]
    BY <1>1, <1>2, <1>3, <2>1 DEF ConsentTyped
  <2>3. OAuthTypeOK'
    BY <1>1, <1>2, <2>1, <2>2, OAuthTypes DEF ConnTyped, ReqTyped
  <2>4. ASSUME NEW t \in OAuthStates PROVE StateOnce(t)'
    <3>1. CASE t = s
      <4>1. Refused(s)'
        BY <2>2 DEF Refused
      <4>2. s \notin raced =>
              /\ \A j, k \in Requests : Consumes(req[j], s) /\ Consumes(req[k], s) => j = k
              /\ made[s] # {} => /\ \E c \in Connections : made[s] = {c}
                                 /\ \A j \in Requests : ~Consumes(req[j], s)
        BY <1>4 DEF StateOnce
      <4> QED BY <1>1, <1>3, <2>1, <3>1, <4>1, <4>2 DEF StateOnce
    <3>2. CASE t # s
      BY <1>1, <1>3, <2>1, <2>2, <3>2, StateKept
    <3> QED BY <3>1, <3>2
  <2>5. \A c \in Connections : TokenOnWay(c)'
    BY <1>1, <2>1, TokenKept
  <2> QED BY <2>3, <2>4, <2>5 DEF OAuthInv
<1>6. CASE ~TimedOut(s)
  <2>1. /\ req' = [req EXCEPT ![i] = x] /\ UNCHANGED pending
        /\ raced' = IF \E j \in Requests : req[j].at = "mark" /\ req[j].state = s
                    THEN raced \cup {s} ELSE raced
    BY <1>6 DEF CallbackRead
  <2>2. x \in OAuthRequests /\ Consumes(x, s) /\ x.at = "mark" /\ x.state = s
    BY DEF OAuthRequests, Consuming, Consumes
  <2> HIDE DEF x
  <2>3. ReqTyped' /\ \A j \in Requests : req'[j] = IF j = i THEN x ELSE req[j]
    BY <2>1, <2>2, ReqMoves
  <2>4. raced' \subseteq OAuthStates /\ \A t \in OAuthStates : t # s => (t \in raced' <=> t \in raced)
    BY <1>2, <2>1 DEF ConsentTyped
  <2>5. ConsentTyped'
    BY <1>1, <1>2, <1>3, <2>1, <2>4 DEF ConsentTyped
  <2>6. OAuthTypeOK'
    BY <1>1, <1>2, <2>3, <2>5, OAuthTypes DEF ConnTyped
  <2>7. ASSUME NEW t \in OAuthStates PROVE StateOnce(t)'
    <3>1. CASE t = s
      <4>1. codes'[s] # 0
        BY <1>3
      <4>2. ASSUME s \notin raced'
            PROVE  made[s] = {} /\ \A j \in Requests : ~Consumes(req[j], s)
        <5>1. s \notin raced /\ \A j \in Requests : ~(req[j].at = "mark" /\ req[j].state = s)
          BY <2>1, <4>2
        <5>2. made[s] = {} /\ \A j \in Requests : Consumes(req[j], s) => req[j].at = "mark"
          BY <1>1, <1>4, <5>1 DEF StateOnce
        <5> QED BY <5>1, <5>2 DEF Consumes
      <4>3. ASSUME s \notin raced'
            PROVE  \A j \in Requests : Consumes(req'[j], s) => j = i /\ req'[j].at = "mark"
        BY <2>2, <2>3, <4>2, <4>3
      <4> QED BY <1>1, <3>1, <4>1, <4>2, <4>3 DEF StateOnce
    <3>2. CASE t # s
      <4>1. ~Consumes(x, t)
        BY <2>2, <3>2 DEF Consumes
      <4>2. \A j \in Requests : Consumes(req'[j], t) => req'[j] = req[j]
        BY <2>3, <4>1
      <4> QED BY <1>1, <1>3, <2>1, <2>4, <3>2, <4>2, StateKept
    <3> QED BY <3>1, <3>2
  <2>8. ASSUME NEW c \in Connections PROVE TokenOnWay(c)'
    <3>1. ~Asks(x, c) /\ ~Carries(x, c) /\ ~Carries(NoRequest, c)
      BY <2>2, OAuthHas DEF Asks, Carries
    <3>2. /\ \A j \in Requests : Asks(req'[j], c) => req'[j] = req[j]
          /\ \A j \in Requests : Carries(req'[j], c) <=> Carries(req[j], c)
          /\ \A j \in Requests : Carries(req[j], c) => req'[j].token = req[j].token
      BY <1>1, <2>3, <3>1
    <3> QED BY <1>1, <3>2, TokenKept
  <2> QED BY <2>6, <2>7, <2>8 DEF OAuthInv
<1> QED BY <1>5, <1>6

LEMMA MarkKeeps ==
  ASSUME OAuthInv, NEW i \in Requests, CallbackMark(i)
  PROVE  OAuthInv'
<1> DEFINE s == req[i].state
           x == [at |-> "exchange", state |-> s]
<1>1. /\ req[i].at = "mark" /\ pending' = [pending EXCEPT ![s] = Marked(s)]
      /\ req' = [req EXCEPT ![i] = x]
      /\ UNCHANGED <<tick, codes, conn, accepted, granted, lost, made, raced>>
  BY DEF CallbackMark
<1>2. tick \in Ticks /\ ConsentTyped /\ ConnTyped /\ ReqTyped
  BY OAuthTypes DEF OAuthInv
<1>3. s \in OAuthStates
  BY <1>1, ReqIs, OAuthHas
<1>4. Consumes(req[i], s) /\ \A t \in OAuthStates : Consumes(req[i], t) => t = s
  BY <1>1 DEF Consumes
<1>5. x \in OAuthRequests /\ x.at = "exchange" /\ x.state = s
  BY <1>3 DEF OAuthRequests, Consuming
<1> HIDE DEF s, x
<1>6. ReqTyped' /\ \A j \in Requests : req'[j] = IF j = i THEN x ELSE req[j]
  BY <1>1, <1>5, ReqMoves
<1>7. Marked(s) \in {NoRow} \cup StateRows /\ (Marked(s) = NoRow \/ Marked(s).used)
  <2>1. pending[s] \in {NoRow} \cup StateRows
    BY <1>2, <1>3 DEF ConsentTyped
  <2>2. CASE pending[s] = NoRow
    BY <2>2 DEF Marked
  <2>3. CASE pending[s] # NoRow
    <3>1. Marked(s) = [pending[s] EXCEPT !.used = TRUE] /\ pending[s] \in StateRows
      BY <2>1, <2>3 DEF Marked
    <3> QED BY <3>1 DEF StateRows
  <2> QED BY <2>2, <2>3
<1>8. /\ ConsentTyped' /\ pending'[s] = Marked(s)
      /\ \A t \in OAuthStates : t # s => pending'[t] = pending[t]
  BY <1>1, <1>2, <1>3, <1>7 DEF ConsentTyped
<1>9. OAuthTypeOK'
  BY <1>1, <1>2, <1>6, <1>8, OAuthTypes DEF ConnTyped
<1>10. ASSUME NEW t \in OAuthStates PROVE StateOnce(t)'
  <2>1. CASE t = s
    <3>1. StateOnce(t) /\ Consumes(req[i], t) /\ pending'[t] = Marked(t)
      BY <1>4, <1>8, <2>1 DEF OAuthInv
    <3>2. Refused(t)'
      BY <1>7, <2>1, <3>1 DEF Refused
    <3>3. \A j \in Requests : Consumes(req'[j], t) => Consumes(req[j], t)
      BY <1>6, <3>1
    <3>4. codes'[t] # 0
      BY <1>1, <3>1 DEF StateOnce
    <3>5. t \notin raced' =>
            /\ \A j, k \in Requests : Consumes(req'[j], t) /\ Consumes(req'[k], t) => j = k
            /\ made'[t] # {} => /\ \E c \in Connections : made'[t] = {c}
                                /\ \A j \in Requests : ~Consumes(req'[j], t)
      BY <1>1, <3>1, <3>3 DEF StateOnce
    <3> QED BY <3>2, <3>4, <3>5 DEF StateOnce
  <2>2. CASE t # s
    <3>1. \A j \in Requests : Consumes(req'[j], t) => req'[j] = req[j]
      BY <1>5, <1>6, <2>2 DEF Consumes
    <3> QED BY <1>1, <1>8, <2>2, <3>1, StateKept
  <2> QED BY <2>1, <2>2
<1>11. ASSUME NEW c \in Connections PROVE TokenOnWay(c)'
  <2>1. ~Asks(x, c) /\ ~Carries(x, c) /\ ~Carries(req[i], c)
    BY <1>1, <1>5 DEF Asks, Carries
  <2>2. /\ \A j \in Requests : Asks(req'[j], c) => req'[j] = req[j]
        /\ \A j \in Requests : Carries(req'[j], c) <=> Carries(req[j], c)
        /\ \A j \in Requests : Carries(req[j], c) => req'[j].token = req[j].token
    BY <1>6, <2>1
  <2> QED BY <1>1, <2>2, TokenKept
<1> QED BY <1>9, <1>10, <1>11 DEF OAuthInv

(* An exchange goes on with the state it holds, or is given up.            *)
LEMMA ExchangeKeeps ==
  ASSUME OAuthInv, NEW i \in Requests, Exchange(i)
  PROVE  OAuthInv'
<1> DEFINE y == [at |-> "create", state |-> req[i].state, expires |-> tick + Lifetime]
<1>1. /\ req[i].at = "exchange"
      /\ req' = [req EXCEPT ![i] = y] \/ req' = [req EXCEPT ![i] = NoRequest]
      /\ UNCHANGED <<tick, pending, codes, conn, accepted, granted, lost, made, raced>>
  BY DEF Exchange
<1>2. tick \in Ticks /\ ConsentTyped /\ ConnTyped /\ ReqTyped
  BY OAuthTypes DEF OAuthInv
<1>3. req[i].state \in OAuthStates /\ tick + Lifetime \in Deadlines
  BY <1>1, <1>2, ReqIs, OAuthHas, OAuthConstants DEF Ticks, Deadlines
<1>4. y \in OAuthRequests /\ y.at = "create" /\ y.state = req[i].state
  BY <1>3 DEF OAuthRequests, Creating
<1>5. NoRequest \in OAuthRequests
  BY DEF OAuthRequests
<1> HIDE DEF y
<1>6. PICK x \in OAuthRequests :
        /\ req' = [req EXCEPT ![i] = x]
        /\ x = NoRequest \/ (x.at = "create" /\ x.state = req[i].state)
  BY <1>1, <1>4, <1>5
<1>7. ReqTyped' /\ \A j \in Requests : req'[j] = IF j = i THEN x ELSE req[j]
  BY <1>6, ReqMoves
<1>8. OAuthTypeOK'
  BY <1>1, <1>2, <1>7, OAuthTypes DEF ConsentTyped, ConnTyped
<1>9. ASSUME NEW t \in OAuthStates PROVE StateOnce(t)'
  <2>1. StateOnce(t)
    BY DEF OAuthInv
  <2>2. \A j \in Requests : Consumes(req'[j], t) =>
          Consumes(req[j], t) /\ (req'[j].at # "mark" => req[j].at # "mark")
    BY <1>1, <1>6, <1>7, OAuthHas DEF Consumes
  <2>3. Refused(t)' <=> Refused(t)
    BY <1>1 DEF Refused
  <2> QED BY <1>1, <2>1, <2>2, <2>3 DEF StateOnce
<1>10. ASSUME NEW c \in Connections PROVE TokenOnWay(c)'
  <2>1. ~Asks(x, c) /\ ~Carries(x, c) /\ ~Carries(req[i], c)
    BY <1>1, <1>6, OAuthHas DEF Asks, Carries
  <2>2. /\ \A j \in Requests : Asks(req'[j], c) => req'[j] = req[j]
        /\ \A j \in Requests : Carries(req'[j], c) <=> Carries(req[j], c)
        /\ \A j \in Requests : Carries(req[j], c) => req'[j].token = req[j].token
    BY <1>7, <2>1
  <2> QED BY <1>1, <2>2, TokenKept
<1> QED BY <1>8, <1>9, <1>10 DEF OAuthInv

LEMMA CreateKeeps ==
  ASSUME OAuthInv, NEW i \in Requests, NEW c \in Connections, CreateConnection(i, c)
  PROVE  OAuthInv'
<1>1. /\ req[i].at = "create" /\ conn[c] = NoRow
      /\ conn' = [conn EXCEPT ![c] = NewRow(1, req[i].expires)]
      /\ accepted' = [accepted EXCEPT ![c] = 1]
      /\ made' = [made EXCEPT ![req[i].state] = @ \cup {c}]
      /\ req' = [req EXCEPT ![i] = NoRequest]
      /\ UNCHANGED <<tick, pending, codes, granted, lost, raced>>
  BY DEF CreateConnection
<1>2. tick \in Ticks /\ ConsentTyped /\ ConnTyped /\ ReqTyped
  BY OAuthTypes DEF OAuthInv
<1>3. req[i].state \in OAuthStates /\ req[i].expires \in Deadlines
  BY <1>1, ReqIs, OAuthHas
<1>4. NewRow(1, req[i].expires) \in LiveRows /\ NewRow(1, req[i].expires).refresh = 1
  BY <1>3, OAuthConstants DEF NewRow, LiveRows, TokenIds
<1>5. 1 \in 0..MaxGrants + 1
  BY OAuthConstants
<1>6. NoRequest \in OAuthRequests
  BY DEF OAuthRequests
<1>7. ReqTyped' /\ \A j \in Requests : req'[j] = IF j = i THEN NoRequest ELSE req[j]
  BY <1>1, <1>6, ReqMoves
<1>8. /\ conn' \in [Connections -> OAuthRows] /\ conn'[c] = NewRow(1, req[i].expires)
      /\ \A d \in Connections : d # c => conn'[d] = conn[d]
  BY <1>1, <1>2, <1>4 DEF ConnTyped, OAuthRows
<1>9. /\ accepted' \in [Connections -> 0..MaxGrants + 1] /\ accepted'[c] = 1
      /\ \A d \in Connections : d # c => accepted'[d] = accepted[d]
  BY <1>1, <1>2, <1>5 DEF ConnTyped
<1>10. conn'[c] # NoRow /\ conn'[c].row = "live" /\ conn'[c].refresh = 1
  BY <1>4, <1>8, OAuthHas
<1>11. ConnTyped'
  <2>1. \A d \in Connections : accepted'[d] = 0 <=> conn'[d] = NoRow
    BY <1>2, <1>8, <1>9, <1>10 DEF ConnTyped
  <2> QED BY <1>1, <1>2, <1>8, <1>9, <2>1 DEF ConnTyped
<1>12. /\ made' \in [OAuthStates -> SUBSET Connections]
       /\ \A t \in OAuthStates : made'[t] = IF t = req[i].state THEN made[t] \cup {c} ELSE made[t]
  BY <1>1, <1>2, <1>3 DEF ConsentTyped
<1>13. ConsentTyped'
  BY <1>1, <1>2, <1>12 DEF ConsentTyped
<1>14. OAuthTypeOK'
  BY <1>1, <1>2, <1>7, <1>11, <1>13, OAuthTypes
<1>15. \A t \in OAuthStates, j \in Requests :
         Consumes(req'[j], t) => j # i /\ req'[j] = req[j] /\ Consumes(req[j], t)
  BY <1>7, OAuthHas DEF Consumes
<1>16. ASSUME NEW t \in OAuthStates PROVE StateOnce(t)'
  <2>1. CASE t = req[i].state
    <3>1. StateOnce(t) /\ Consumes(req[i], t) /\ req[i].at # "mark"
      BY <1>1, <2>1 DEF OAuthInv, Consumes
    <3>2. codes'[t] # 0
      BY <1>1, <3>1 DEF StateOnce
    <3>3. ASSUME t \notin raced'
          PROVE  made'[t] = {c} /\ Refused(t)' /\ \A j \in Requests : ~Consumes(req'[j], t)
      <4>1. Refused(t) /\ made[t] = {} /\ \A j \in Requests : Consumes(req[j], t) => j = i
        BY <1>1, <3>1, <3>3 DEF StateOnce
      <4>2. Refused(t)'
        BY <1>1, <4>1 DEF Refused
      <4> QED BY <1>12, <1>15, <2>1, <4>1, <4>2
    <3> QED BY <3>2, <3>3 DEF StateOnce
  <2>2. CASE t # req[i].state
    BY <1>1, <1>12, <1>15, <2>2, StateKept
  <2> QED BY <2>1, <2>2
<1>17. ASSUME NEW d \in Connections PROVE TokenOnWay(d)'
  <2>1. ~Asks(NoRequest, d) /\ ~Carries(NoRequest, d) /\ ~Carries(req[i], d)
    BY <1>1, OAuthHas DEF Asks, Carries
  <2>2. /\ \A j \in Requests : Asks(req'[j], d) => req'[j] = req[j] /\ Asks(req[j], d)
        /\ \A j \in Requests : Carries(req'[j], d) <=> Carries(req[j], d)
        /\ \A j \in Requests : Carries(req[j], d) => req'[j].token = req[j].token
    BY <1>7, <2>1
  <2>3. CASE d = c
    <3>1. \A j \in Requests : ~Asks(req'[j], d) /\ ~Carries(req'[j], d)
      BY <1>1, <2>2, <2>3 DEF OAuthInv, TokenOnWay
    <3>2. granted[d] \in Nat
      BY ConnIs
    <3> QED BY <1>1, <1>9, <1>10, <2>3, <3>1, <3>2 DEF TokenOnWay
  <2>4. CASE d # c
    BY <1>1, <1>8, <1>9, <2>2, <2>4, TokenKept
  <2> QED BY <2>3, <2>4
<1> QED BY <1>14, <1>16, <1>17 DEF OAuthInv

--------------------------------------------------------------------------------
(* Refreshing.                                                             *)
LEMMA RefreshLeavesStates ==
  ASSUME OAuthInv, NEW i \in Requests, NEW x \in OAuthRequests,
         req' = [req EXCEPT ![i] = x], \A s \in OAuthStates : ~Consumes(x, s),
         UNCHANGED <<pending, codes, made, raced>>
  PROVE  ConsentTyped' /\ \A s \in OAuthStates : StateOnce(s)'
<1>1. \A j \in Requests : req'[j] = IF j = i THEN x ELSE req[j]
  BY ReqMoves
<1>2. ConsentTyped'
  BY OAuthTypes DEF OAuthInv, ConsentTyped
<1>3. \A s \in OAuthStates : \A j \in Requests : Consumes(req'[j], s) => req'[j] = req[j]
  BY <1>1
<1> QED BY <1>2, <1>3, StateKept

LEMMA RefreshKeeps ==
  ASSUME OAuthInv, NEW i \in Requests, NEW c \in Connections, RefreshRead(i, c)
  PROVE  OAuthInv'
<1> DEFINE x == [at |-> "grant", conn |-> c, token |-> conn[c].refresh]
<1>1. /\ req[i] = NoRequest /\ LiveRow(c) /\ req' = [req EXCEPT ![i] = x]
      /\ UNCHANGED <<tick, pending, codes, conn, accepted, granted, lost, made, raced>>
  BY DEF RefreshRead
<1>2. tick \in Ticks /\ ConnTyped
  BY OAuthTypes DEF OAuthInv
<1>3. /\ x \in OAuthRequests /\ x.at = "grant" /\ x.conn = c /\ x.token = conn[c].refresh
  BY <1>1, ConnIs DEF OAuthRequests, Granting
<1>4. conn[c].refresh \in Nat /\ conn[c] # NoRow
  BY <1>1, ConnIs, OAuthConstants DEF TokenIds
<1> HIDE DEF x
<1>5. ReqTyped' /\ \A j \in Requests : req'[j] = IF j = i THEN x ELSE req[j]
  BY <1>1, <1>3, ReqMoves
<1>6. ConsentTyped' /\ \A s \in OAuthStates : StateOnce(s)'
  BY <1>1, <1>3, RefreshLeavesStates DEF Consumes
<1>7. OAuthTypeOK'
  BY <1>1, <1>2, <1>5, <1>6, OAuthTypes DEF ConnTyped
<1>8. ASSUME NEW d \in Connections PROVE TokenOnWay(d)'
  <2>1. /\ ~Carries(x, d) /\ ~Carries(req[i], d) /\ (Asks(x, d) => d = c)
    BY <1>1, <1>3, OAuthHas DEF Asks, Carries
  <2>2. /\ \A j \in Requests : Carries(req'[j], d) <=> Carries(req[j], d)
        /\ \A j \in Requests : Carries(req[j], d) => req'[j].token = req[j].token
    BY <1>5, <2>1
  <2>3. CASE d = c
    <3>1. TokenOnWay(d)
      BY DEF OAuthInv
    <3>2. \A j \in Requests : Asks(req'[j], d) => req'[j].token <= conn[d].refresh
      <4>1. \A j \in Requests : Asks(req[j], d) => req[j].token <= conn[d].refresh
        BY <1>1, <2>3, <3>1 DEF TokenOnWay
      <4>2. x.token <= conn[d].refresh
        BY <1>3, <1>4, <2>3
      <4> QED BY <1>5, <4>1, <4>2
    <3>3. LiveRow(d)' /\ LiveRow(d) /\ conn'[d] # NoRow
      BY <1>1, <1>4, <2>3 DEF LiveRow
    <3> QED BY <1>1, <2>2, <3>1, <3>2, <3>3 DEF TokenOnWay
  <2>4. CASE d # c
    <3>1. \A j \in Requests : Asks(req'[j], d) => req'[j] = req[j]
      BY <1>5, <2>1, <2>4
    <3> QED BY <1>1, <2>2, <3>1, TokenKept
  <2> QED BY <2>3, <2>4
<1> QED BY <1>6, <1>7, <1>8 DEF OAuthInv

(* A token given up: nobody needs it, or the loss is recorded.             *)
LEMMA TokenGivenUp ==
  ASSUME OAuthInv, NEW c \in Connections, LiveRow(c) => c \in lost',
         \A j \in Requests : Asks(req'[j], c) => Asks(req[j], c) /\ req'[j].token = req[j].token,
         \A j \in Requests :
           Carries(req'[j], c) => Carries(req[j], c) /\ req'[j].token = req[j].token,
         conn'[c] = conn[c], accepted'[c] = accepted[c], granted'[c] = granted[c]
  PROVE  TokenOnWay(c)'
<1>1. TokenOnWay(c)
  BY DEF OAuthInv
<1>2. LiveRow(c)' <=> LiveRow(c)
  BY DEF LiveRow
<1>3. /\ \A j \in Requests : Asks(req'[j], c) \/ Carries(req'[j], c) => conn'[c] # NoRow
      /\ accepted'[c] <= granted'[c] + 1
  BY <1>1 DEF TokenOnWay
<1>4. ASSUME LiveRow(c)'
      PROVE  /\ conn'[c].refresh <= accepted'[c]
             /\ \A j \in Requests : Asks(req'[j], c) => req'[j].token <= conn'[c].refresh
             /\ \A j \in Requests : Carries(req'[j], c) => req'[j].token = accepted'[c]
             /\ Rotating => \A j, k \in Requests : Carries(req'[j], c) /\ Carries(req'[k], c) => j = k
             /\ Rotating => \A j \in Requests : Carries(req'[j], c) => conn'[c].refresh # accepted'[c]
             /\ c \in lost'
  BY <1>1, <1>2, <1>4 DEF TokenOnWay
<1> QED BY <1>3, <1>4 DEF TokenOnWay

(* A request that ends or goes on, and changes no row.                     *)
LEMMA EndKeeps ==
  ASSUME OAuthInv, NEW i \in Requests, req' = [req EXCEPT ![i] = NoRequest],
         UNCHANGED <<tick, pending, codes, conn, accepted, granted, made, raced>>,
         lost \subseteq lost', lost' \subseteq Connections,
         \A c \in Connections : Carries(req[i], c) /\ LiveRow(c) => c \in lost'
  PROVE  OAuthInv'
<1>1. NoRequest \in OAuthRequests /\ \A c : ~Carries(NoRequest, c) /\ ~Asks(NoRequest, c)
  BY OAuthHas DEF OAuthRequests, Carries, Asks
<1>2. \A s \in OAuthStates : ~Consumes(NoRequest, s)
  BY OAuthHas DEF Consumes
<1>3. ReqTyped' /\ \A j \in Requests : req'[j] = IF j = i THEN NoRequest ELSE req[j]
  BY <1>1, ReqMoves
<1>4. ConsentTyped' /\ \A s \in OAuthStates : StateOnce(s)'
  BY <1>1, <1>2, RefreshLeavesStates
<1>5. tick \in Ticks /\ ConnTyped
  BY OAuthTypes DEF OAuthInv
<1>6. OAuthTypeOK'
  BY <1>3, <1>4, <1>5, OAuthTypes DEF ConnTyped
<1>7. ASSUME NEW c \in Connections PROVE TokenOnWay(c)'
  <2>1. \A j \in Requests : Asks(req'[j], c) => req'[j] = req[j]
    BY <1>1, <1>3
  <2>2. CASE LiveRow(c) => c \in lost'
    <3>1. \A j \in Requests : Asks(req'[j], c) => Asks(req[j], c) /\ req'[j].token = req[j].token
      BY <1>1, <1>3
    <3>2. \A j \in Requests :
            Carries(req'[j], c) => Carries(req[j], c) /\ req'[j].token = req[j].token
      BY <1>1, <1>3
    <3> QED BY <2>2, <3>1, <3>2, TokenGivenUp
  <2>3. CASE ~Carries(req[i], c)
    <3>1. \A j \in Requests : Carries(req'[j], c) <=> Carries(req[j], c)
      BY <1>1, <1>3, <2>3
    <3>2. \A j \in Requests : Carries(req[j], c) => req'[j].token = req[j].token
      BY <1>3, <2>3
    <3> QED BY <2>1, <3>1, <3>2, TokenKept
  <2> QED BY <2>2, <2>3
<1> QED BY <1>4, <1>6, <1>7 DEF OAuthInv

(* The provider answers with the next token only to a request that has the *)
(* one it accepts: the row then has that one too, and nobody else carries. *)
LEMMA GrantKeeps ==
  ASSUME OAuthInv, NEW i \in Requests, Grant(i)
  PROVE  OAuthInv'
<1> DEFINE c == req[i].conn
           new == IF Rotating THEN accepted[c] + 1 ELSE accepted[c]
           x == [at |-> "check", conn |-> c, expires |-> tick + Lifetime,
                 token |-> StoredToken(req[i].token, new)]
<1>1. req[i].at = "grant" /\ UNCHANGED <<tick, pending, codes, conn, lost, made, raced>>
  BY DEF Grant
<1>2. c \in Connections /\ req[i].token \in TokenIds
  BY <1>1, ReqIs, OAuthHas
<1>3. tick \in Ticks /\ ConnTyped
  BY OAuthTypes DEF OAuthInv
<1>4. CASE ~(req[i].token = accepted[c] /\ granted[c] < MaxGrants)
  <2>1. req' = [req EXCEPT ![i] = NoRequest] /\ UNCHANGED <<accepted, granted>>
    BY <1>4 DEF Grant
  <2>2. lost \subseteq lost' /\ lost' \subseteq Connections
    BY <1>1, <1>3 DEF ConnTyped
  <2>3. \A d \in Connections : ~Carries(req[i], d)
    BY <1>1 DEF Carries
  <2> QED BY <1>1, <2>1, <2>2, <2>3, EndKeeps
<1>5. CASE req[i].token = accepted[c] /\ granted[c] < MaxGrants
  <2>1. /\ accepted' = [accepted EXCEPT ![c] = new]
        /\ granted' = [granted EXCEPT ![c] = @ + 1] /\ req' = [req EXCEPT ![i] = x]
    BY <1>5 DEF Grant
  <2>2. TokenOnWay(c)
    BY <1>2 DEF OAuthInv
  <2>3. /\ accepted[c] \in Nat /\ granted[c] \in Nat /\ accepted[c] <= granted[c] + 1
        /\ accepted[c] >= 1 /\ MaxGrants \in Nat /\ granted[c] + 1 <= MaxGrants
    BY <1>2, <1>5, <2>2, ConnIs, OAuthConstants DEF TokenOnWay, TokenIds
  <2>4. /\ new \in TokenIds /\ new \in 0..MaxGrants + 1 /\ new # 0 /\ new <= granted[c] + 2
        /\ granted[c] + 1 \in 0..MaxGrants /\ new \in Nat
        /\ Rotating => new = accepted[c] + 1
        /\ ~Rotating => new = accepted[c]
    BY <2>3 DEF TokenIds
  <2>5. StoredToken(req[i].token, new) = new
    BY <1>5, <2>4 DEF StoredToken
  <2>6. tick + Lifetime \in Deadlines
    BY <1>3, OAuthConstants DEF Ticks, Deadlines
  <2>7. x \in OAuthRequests /\ x.at = "check" /\ x.conn = c /\ x.token = new
    BY <1>2, <2>4, <2>5, <2>6 DEF OAuthRequests, Updating
  <2> HIDE DEF x
  <2>8. ReqTyped' /\ \A j \in Requests : req'[j] = IF j = i THEN x ELSE req[j]
    BY <2>1, <2>7, ReqMoves
  <2>9. ConsentTyped' /\ \A s \in OAuthStates : StateOnce(s)'
    BY <1>1, <2>1, <2>7, RefreshLeavesStates DEF Consumes
  <2> HIDE DEF new
  <2>10. /\ accepted' \in [Connections -> 0..MaxGrants + 1] /\ accepted'[c] = new
         /\ granted' \in [Connections -> 0..MaxGrants] /\ granted'[c] = granted[c] + 1
         /\ \A d \in Connections : d # c => accepted'[d] = accepted[d] /\ granted'[d] = granted[d]
    BY <1>2, <1>3, <2>1, <2>4 DEF ConnTyped
  <2>11. ConnTyped'
    <3>1. accepted[c] # 0
      BY <2>3
    <3>2. \A d \in Connections : accepted'[d] = 0 <=> conn'[d] = NoRow
      BY <1>1, <1>2, <1>3, <2>4, <2>10, <3>1 DEF ConnTyped
    <3> QED BY <1>1, <1>3, <2>10, <3>2 DEF ConnTyped
  <2>12. OAuthTypeOK'
    BY <1>1, <1>3, <2>8, <2>9, <2>11, OAuthTypes
  <2>13. Asks(req[i], c)
    BY <1>1 DEF Asks
  <2>14. ASSUME NEW d \in Connections, d # c PROVE TokenOnWay(d)'
    <3>1. ~Asks(x, d) /\ ~Carries(x, d) /\ ~Carries(req[i], d)
      BY <1>1, <2>7, <2>14 DEF Asks, Carries
    <3>2. /\ \A j \in Requests : Asks(req'[j], d) => req'[j] = req[j]
          /\ \A j \in Requests : Carries(req'[j], d) <=> Carries(req[j], d)
          /\ \A j \in Requests : Carries(req[j], d) => req'[j].token = req[j].token
      BY <2>8, <3>1
    <3> QED BY <1>1, <2>10, <2>14, <3>2, TokenKept
  <2>15. ASSUME NEW d \in Connections, d = c PROVE TokenOnWay(d)'
    <3>1. /\ ~Asks(x, d) /\ Carries(x, d) /\ ~Carries(req[i], d) /\ conn[d] # NoRow
      BY <1>1, <2>2, <2>7, <2>13, <2>15 DEF Asks, Carries, TokenOnWay
    <3>2. \A j \in Requests : Asks(req'[j], d) => Asks(req[j], d) /\ req'[j].token = req[j].token
      BY <2>8, <3>1
    <3>3. \A j \in Requests : Carries(req'[j], d) =>
            (j = i /\ req'[j] = x) \/ (j # i /\ Carries(req[j], d) /\ req'[j] = req[j])
      BY <2>8, <3>1
    <3>4. accepted'[d] <= granted'[d] + 1
      BY <2>3, <2>4, <2>10, <2>15
    <3>5. ASSUME LiveRow(d)'
          PROVE  /\ conn'[d].refresh <= accepted'[d]
                 /\ \A j \in Requests : Asks(req'[j], d) => req'[j].token <= conn'[d].refresh
                 /\ \A j \in Requests : Carries(req'[j], d) => req'[j].token = accepted'[d]
                 /\ Rotating =>
                      /\ \A j, k \in Requests : Carries(req'[j], d) /\ Carries(req'[k], d) => j = k
                      /\ \A j \in Requests : Carries(req'[j], d) => conn'[d].refresh # accepted'[d]
                 /\ \E j \in Requests : Carries(req'[j], d)
      <4>1. LiveRow(d) /\ conn'[d] = conn[d]
        BY <1>1, <3>5 DEF LiveRow
      <4>2. conn[d].refresh \in Nat
        BY <4>1, ConnIs, OAuthConstants DEF TokenIds
      <4>3. /\ conn[d].refresh <= accepted[d] /\ accepted[d] <= conn[d].refresh
            /\ \A j \in Requests : Asks(req[j], d) => req[j].token <= conn[d].refresh
            /\ \A j \in Requests : Carries(req[j], d) => req[j].token = accepted[d]
        BY <1>5, <2>2, <2>13, <2>15, <4>1 DEF TokenOnWay
      <4>4. conn[d].refresh = accepted[d]
        BY <2>3, <2>15, <4>2, <4>3
      <4>5. Rotating => \A j \in Requests : ~Carries(req[j], d)
        BY <2>2, <2>15, <4>1, <4>4 DEF TokenOnWay
      <4>6. conn'[d].refresh <= accepted'[d] /\ (Rotating => conn'[d].refresh # accepted'[d])
        BY <2>3, <2>4, <2>10, <2>15, <4>1, <4>2, <4>4
      <4>7. \A j \in Requests : Asks(req'[j], d) => req'[j].token <= conn'[d].refresh
        BY <3>2, <4>1, <4>3
      <4>8. \A j \in Requests : Carries(req'[j], d) => req'[j].token = accepted'[d]
        BY <2>4, <2>7, <2>10, <2>15, <3>3, <4>3, <4>5
      <4>9. Rotating => \A j, k \in Requests : Carries(req'[j], d) /\ Carries(req'[k], d) => j = k
        BY <3>3, <4>5
      <4>10. \E j \in Requests : Carries(req'[j], d)
        BY <2>8, <3>1
      <4> QED BY <4>6, <4>7, <4>8, <4>9, <4>10
    <3>6. conn'[d] # NoRow
      BY <1>1, <3>1
    <3> QED BY <3>4, <3>5, <3>6 DEF TokenOnWay
  <2> QED BY <2>9, <2>12, <2>14, <2>15 DEF OAuthInv
<1> QED BY <1>4, <1>5

(* update_tokens reads the row: one that was deleted since ends it.        *)
LEMMA CheckKeeps ==
  ASSUME OAuthInv, NEW i \in Requests, UpdateCheck(i)
  PROVE  OAuthInv'
<1> DEFINE c == req[i].conn
           x == [req[i] EXCEPT !.at = "update"]
<1>1. /\ req[i].at = "check"
      /\ req' = [req EXCEPT ![i] = IF LiveRow(c) THEN x ELSE NoRequest]
      /\ UNCHANGED <<tick, pending, codes, conn, accepted, granted, lost, made, raced>>
  BY DEF UpdateCheck
<1>2. req[i] \in Updating
  BY <1>1, ReqIs
<1>3. tick \in Ticks /\ ConnTyped
  BY OAuthTypes DEF OAuthInv
<1>4. x \in OAuthRequests /\ x.at = "update" /\ x.conn = c /\ x.token = req[i].token
  BY <1>2 DEF Updating, OAuthRequests
<1> HIDE DEF x
<1>5. CASE ~LiveRow(c)
  <2>1. req' = [req EXCEPT ![i] = NoRequest]
    BY <1>1, <1>5
  <2>2. \A d \in Connections : ~(Carries(req[i], d) /\ LiveRow(d))
    BY <1>5 DEF Carries
  <2>3. lost' \subseteq Connections
    BY <1>1, <1>3 DEF ConnTyped
  <2> QED BY <1>1, <2>1, <2>2, <2>3, EndKeeps
<1>6. CASE LiveRow(c)
  <2>1. req' = [req EXCEPT ![i] = x]
    BY <1>1, <1>6
  <2>2. ReqTyped' /\ \A j \in Requests : req'[j] = IF j = i THEN x ELSE req[j]
    BY <1>4, <2>1, ReqMoves
  <2>3. ConsentTyped' /\ \A s \in OAuthStates : StateOnce(s)'
    BY <1>1, <1>4, <2>1, RefreshLeavesStates DEF Consumes
  <2>4. OAuthTypeOK'
    BY <1>1, <1>3, <2>2, <2>3, OAuthTypes DEF ConnTyped
  <2>5. ASSUME NEW d \in Connections PROVE TokenOnWay(d)'
    <3>1. ~Asks(x, d) /\ (Carries(x, d) <=> Carries(req[i], d))
      BY <1>1, <1>4 DEF Asks, Carries
    <3>2. /\ \A j \in Requests : Asks(req'[j], d) => req'[j] = req[j]
          /\ \A j \in Requests : Carries(req'[j], d) <=> Carries(req[j], d)
          /\ \A j \in Requests : Carries(req[j], d) => req'[j].token = req[j].token
      BY <1>4, <2>2, <3>1
    <3> QED BY <1>1, <3>2, TokenKept
  <2> QED BY <2>3, <2>4, <2>5 DEF OAuthInv
<1> QED BY <1>5, <1>6

(* The row takes the token that was on its way.                            *)
LEMMA UpdateKeeps ==
  ASSUME OAuthInv, NEW i \in Requests, UpdateTokens(i)
  PROVE  OAuthInv'
<1> DEFINE c == req[i].conn
           v == Updated(c, req[i].token, req[i].expires)
<1>1. /\ req[i].at = "update" /\ conn' = [conn EXCEPT ![c] = v]
      /\ req' = [req EXCEPT ![i] = NoRequest]
      /\ UNCHANGED <<tick, pending, codes, accepted, granted, lost, made, raced>>
  BY DEF UpdateTokens
<1>2. c \in Connections /\ req[i].token \in TokenIds /\ req[i].expires \in Deadlines
  BY <1>1, ReqIs, OAuthHas
<1>3. tick \in Ticks /\ ConnTyped
  BY OAuthTypes DEF OAuthInv
<1>4. CASE ~LiveRow(c)
  <2>1. v = conn[c]
    BY <1>4 DEF Updated
  <2>2. conn' = conn
    BY <1>1, <1>3, <2>1 DEF ConnTyped
  <2>3. \A d \in Connections : ~(Carries(req[i], d) /\ LiveRow(d))
    BY <1>4 DEF Carries
  <2>4. lost' \subseteq Connections
    BY <1>1, <1>3 DEF ConnTyped
  <2> QED BY <1>1, <2>2, <2>3, <2>4, EndKeeps
<1>5. CASE LiveRow(c)
  <2>1. v \in LiveRows /\ v.refresh = req[i].token /\ v # NoRow
    <3>1. v = NewRow(req[i].token, req[i].expires)
      BY <1>5 DEF Updated
    <3>2. v \in LiveRows /\ v.refresh = req[i].token
      BY <1>2, <3>1 DEF NewRow, LiveRows
    <3> HIDE DEF v
    <3> QED BY <3>2, OAuthHas
  <2>2. Carries(req[i], c) /\ conn[c] # NoRow
    BY <1>1, <1>2, <1>5, ConnIs DEF Carries
  <2>3. TokenOnWay(c)
    BY <1>2 DEF OAuthInv
  <2>4. req[i].token = accepted[c]
    BY <1>5, <2>2, <2>3 DEF TokenOnWay
  <2>5. Rotating => \A j \in Requests : Carries(req[j], c) => j = i
    BY <1>5, <2>2, <2>3 DEF TokenOnWay
  <2> HIDE DEF v
  <2>6. /\ conn' \in [Connections -> OAuthRows] /\ conn'[c] = v
        /\ \A d \in Connections : d # c => conn'[d] = conn[d]
    BY <1>1, <1>2, <1>3, <2>1 DEF ConnTyped, OAuthRows
  <2>7. ConnTyped'
    <3>1. \A d \in Connections : accepted'[d] = 0 <=> conn'[d] = NoRow
      BY <1>1, <1>3, <2>1, <2>2, <2>6 DEF ConnTyped
    <3> QED BY <1>1, <1>3, <2>6, <3>1 DEF ConnTyped
  <2>8. NoRequest \in OAuthRequests /\ \A d : ~Carries(NoRequest, d) /\ ~Asks(NoRequest, d)
    BY OAuthHas DEF OAuthRequests, Carries, Asks
  <2>9. ReqTyped' /\ \A j \in Requests : req'[j] = IF j = i THEN NoRequest ELSE req[j]
    BY <1>1, <2>8, ReqMoves
  <2>10. \A s \in OAuthStates : ~Consumes(NoRequest, s)
    BY OAuthHas DEF Consumes
  <2>11. ConsentTyped' /\ \A s \in OAuthStates : StateOnce(s)'
    BY <1>1, <2>8, <2>10, RefreshLeavesStates
  <2>12. OAuthTypeOK'
    BY <1>1, <1>3, <2>7, <2>9, <2>11, OAuthTypes
  <2>13. ASSUME NEW d \in Connections, d # c PROVE TokenOnWay(d)'
    <3>1. ~Carries(req[i], d)
      BY <2>13 DEF Carries
    <3>2. /\ \A j \in Requests : Asks(req'[j], d) => req'[j] = req[j]
          /\ \A j \in Requests : Carries(req'[j], d) <=> Carries(req[j], d)
          /\ \A j \in Requests : Carries(req[j], d) => req'[j].token = req[j].token
      BY <2>8, <2>9, <3>1
    <3> QED BY <1>1, <2>6, <2>13, <3>2, TokenKept
  <2>14. ASSUME NEW d \in Connections, d = c PROVE TokenOnWay(d)'
    <3>1. \A j \in Requests : Asks(req'[j], d) => Asks(req[j], d) /\ req'[j].token = req[j].token
      BY <2>8, <2>9
    <3>2. \A j \in Requests : Carries(req'[j], d) =>
            j # i /\ Carries(req[j], d) /\ req'[j].token = req[j].token
      BY <2>8, <2>9
    <3>3. conn'[d] # NoRow /\ conn'[d].refresh = accepted'[d] /\ accepted'[d] = accepted[d]
      BY <1>1, <2>1, <2>4, <2>6, <2>14
    <3>4. accepted'[d] <= granted'[d] + 1
      BY <1>1, <2>3, <2>14 DEF TokenOnWay
    <3>5. accepted[d] \in Nat /\ conn[d].refresh \in Nat
      BY <1>5, <2>14, ConnIs, OAuthConstants DEF TokenIds
    <3>6. \A j \in Requests : Asks(req'[j], d) => req'[j].token <= conn'[d].refresh
      <4> SUFFICES ASSUME NEW j \in Requests, Asks(req'[j], d)
                   PROVE  req'[j].token <= conn'[d].refresh
        OBVIOUS
      <4>1. Asks(req[j], d) /\ req'[j].token = req[j].token
        BY <3>1
      <4>2. req[j].token <= conn[d].refresh /\ conn[d].refresh <= accepted[d]
        BY <1>5, <2>3, <2>14, <4>1 DEF TokenOnWay
      <4>3. req[j].token \in Nat
        BY <4>1, ReqIs, OAuthHas, OAuthConstants DEF Asks, TokenIds
      <4>4. req[j].token <= accepted[d]
        BY <3>5, <4>2, <4>3
      <4> QED BY <3>3, <4>1, <4>4
    <3>7. \A j \in Requests : Carries(req'[j], d) => req'[j].token = accepted'[d]
      BY <1>5, <2>3, <2>14, <3>2, <3>3 DEF TokenOnWay
    <3>8. Rotating => \A j \in Requests : ~Carries(req'[j], d)
      BY <2>5, <2>14, <3>2
    <3>9. conn'[d].refresh <= accepted'[d]
      BY <3>3, <3>5
    <3> QED BY <3>3, <3>4, <3>6, <3>7, <3>8, <3>9 DEF TokenOnWay
  <2> QED BY <2>11, <2>12, <2>13, <2>14 DEF OAuthInv
<1> QED BY <1>4, <1>5

LEMMA DeleteKeeps ==
  ASSUME OAuthInv, NEW c \in Connections, DeleteConnection(c)
  PROVE  OAuthInv'
<1>1. /\ LiveRow(c) /\ conn' = [conn EXCEPT ![c] = Deleted]
      /\ UNCHANGED <<tick, pending, codes, accepted, granted, req, lost, made, raced>>
  BY DEF DeleteConnection, Deleted
<1>2. tick \in Ticks /\ ConsentTyped /\ ConnTyped /\ ReqTyped
  BY OAuthTypes DEF OAuthInv
<1>3. /\ conn' \in [Connections -> OAuthRows] /\ conn'[c] = Deleted
      /\ \A d \in Connections : d # c => conn'[d] = conn[d]
  BY <1>1, <1>2 DEF ConnTyped, OAuthRows
<1>4. ConnTyped'
  <2>1. conn[c] # NoRow /\ Deleted # NoRow
    BY <1>1, ConnIs, OAuthHas
  <2>2. \A d \in Connections : accepted'[d] = 0 <=> conn'[d] = NoRow
    BY <1>1, <1>2, <1>3, <2>1 DEF ConnTyped
  <2> QED BY <1>1, <1>2, <1>3, <2>2 DEF ConnTyped
<1>5. OAuthTypeOK'
  BY <1>1, <1>2, <1>4, OAuthTypes DEF ConsentTyped, ReqTyped
<1>6. \A s \in OAuthStates : StateOnce(s)'
  BY <1>1, StateKept
<1>7. ASSUME NEW d \in Connections PROVE TokenOnWay(d)'
  <2>1. CASE d = c
    <3>1. ~LiveRow(d)' /\ conn'[d] # NoRow
      BY <1>3, <2>1, OAuthHas DEF LiveRow
    <3>2. accepted'[d] <= granted'[d] + 1
      BY <1>1 DEF OAuthInv, TokenOnWay
    <3> QED BY <3>1, <3>2 DEF TokenOnWay
  <2>2. CASE d # c
    BY <1>1, <1>3, <2>2, TokenKept
  <2> QED BY <2>1, <2>2
<1> QED BY <1>5, <1>6, <1>7 DEF OAuthInv

LEMMA LostRequestKeeps ==
  ASSUME OAuthInv, NEW i \in Requests, RequestLost(i)
  PROVE  OAuthInv'
<1>1. /\ lost' = lost \cup IF req[i].at \in {"check", "update"} THEN {req[i].conn} ELSE {}
      /\ req' = [req EXCEPT ![i] = NoRequest]
      /\ UNCHANGED <<tick, pending, codes, conn, accepted, granted, made, raced>>
  BY DEF RequestLost
<1>2. lost \subseteq Connections
  BY OAuthTypes DEF OAuthInv, ConnTyped
<1>3. req[i].at \in {"check", "update"} => req[i].conn \in Connections
  BY ReqIs, OAuthHas
<1>4. lost \subseteq lost' /\ lost' \subseteq Connections
  BY <1>1, <1>2, <1>3
<1>5. \A c \in Connections : Carries(req[i], c) => c \in lost'
  BY <1>1 DEF Carries
<1> QED BY <1>1, <1>4, <1>5, EndKeeps

LEMMA TickKeepsTokens ==
  ASSUME OAuthInv, OAuthTick \/ UNCHANGED oauthVars
  PROVE  OAuthInv'
<1>1. UNCHANGED <<pending, codes, conn, accepted, granted, req, lost, made, raced>>
  BY DEF OAuthTick, oauthVars
<1>2. tick \in Ticks /\ ConsentTyped /\ ConnTyped /\ ReqTyped
  BY OAuthTypes DEF OAuthInv
<1>3. tick' \in Ticks
  BY <1>2, OAuthConstants DEF OAuthTick, oauthVars, Ticks
<1>4. OAuthTypeOK'
  BY <1>1, <1>2, <1>3, OAuthTypes DEF ConsentTyped, ConnTyped, ReqTyped
<1>5. \A s \in OAuthStates : StateOnce(s)'
  BY <1>1, StateKept
<1>6. \A c \in Connections : TokenOnWay(c)'
  BY <1>1, TokenKept
<1> QED BY <1>4, <1>5, <1>6 DEF OAuthInv
--------------------------------------------------------------------------------
LEMMA OAuthStart == OAuthInit => OAuthInv
<1> SUFFICES ASSUME OAuthInit PROVE OAuthInv
  OBVIOUS
<1>1. /\ tick = 1 /\ pending = [s \in OAuthStates |-> NoRow] /\ codes = [s \in OAuthStates |-> 0]
      /\ conn = [c \in Connections |-> NoRow] /\ accepted = [c \in Connections |-> 0]
      /\ granted = [c \in Connections |-> 0] /\ req = [i \in Requests |-> NoRequest]
      /\ lost = {} /\ made = [s \in OAuthStates |-> {}] /\ raced = {}
  BY DEF OAuthInit
<1>2. /\ 0 \in 0..MaxCodes /\ 0 \in 0..MaxGrants + 1 /\ 0 \in 0..MaxGrants /\ 1 \in Ticks
  BY OAuthConstants DEF Ticks
<1>3. ConsentTyped
  BY <1>1, <1>2 DEF ConsentTyped
<1>4. ConnTyped
  BY <1>1, <1>2 DEF ConnTyped, OAuthRows
<1>5. ReqTyped
  BY <1>1 DEF ReqTyped, OAuthRequests
<1>6. \A i \in Requests : req[i].at = "none"
  BY <1>1, OAuthHas
<1>7. \A s \in OAuthStates : StateOnce(s)
  BY <1>1, <1>6 DEF StateOnce, Consumes
<1>8. ASSUME NEW c \in Connections PROVE TokenOnWay(c)
  <2>1. ~LiveRow(c)
    BY <1>1, OAuthHas DEF LiveRow
  <2>2. \A i \in Requests : ~Asks(req[i], c) /\ ~Carries(req[i], c)
    BY <1>6 DEF Asks, Carries
  <2>3. accepted[c] <= granted[c] + 1
    BY <1>1
  <2> QED BY <2>1, <2>2, <2>3 DEF TokenOnWay
<1> QED BY <1>1, <1>2, <1>3, <1>4, <1>5, <1>7, <1>8, OAuthTypes DEF OAuthInv

LEMMA OAuthStep == OAuthInv /\ [OAuthNext]_oauthVars => OAuthInv'
BY AuthorizeKeeps, CallbackKeeps, MarkKeeps, ExchangeKeeps, CreateKeeps, RefreshKeeps,
   GrantKeeps, CheckKeeps, UpdateKeeps, DeleteKeeps, LostRequestKeeps, TickKeepsTokens
   DEF OAuthNext, ProxyRead

(* The refresh token in a connection's row is the one that the provider    *)
(* takes, or a request carries that one to the row (gateway/oauth.py       *)
(* update_tokens), unless a request was lost on that way: for any number   *)
(* of connections, requests and refreshes, with a provider that rotates    *)
(* its refresh tokens and with one that does not.                          *)
THEOREM RefreshTokensLive == OAuthSpec => []RefreshTokenAlive
<1>1. OAuthInv => RefreshTokenAlive
  <2> SUFFICES ASSUME OAuthInv, NEW c \in Connections, LiveRow(c), c \notin lost,
                      conn[c].refresh # accepted[c]
               PROVE  \E i \in Requests : Carries(req[i], c) /\ req[i].token = accepted[c]
    BY DEF RefreshTokenAlive, Carries
  <2> QED BY DEF OAuthInv, TokenOnWay
<1> QED BY <1>1, OAuthStart, OAuthStep, PTL DEF OAuthSpec

(* A state makes a second connection only if two callbacks read its row    *)
(* before either marked it used (gateway/oauth.py), for any number of      *)
(* states, callbacks and lost requests, however long each takes.           *)
THEOREM StatesAreUsedOnce == OAuthSpec => []SecondUseNeedsRace
<1>1. OAuthInv => SecondUseNeedsRace
  <2> SUFFICES ASSUME OAuthInv, NEW s \in OAuthStates, s \notin raced
               PROVE  ~(Cardinality(made[s]) > 1)
    BY DEF SecondUseNeedsRace
  <2>1. made[s] = {} \/ \E c \in Connections : made[s] = {c}
    BY DEF OAuthInv, StateOnce
  <2>2. Cardinality(made[s]) = 0 \/ Cardinality(made[s]) = 1
    BY <2>1, FS_EmptySet, FS_Singleton
  <2> QED BY <2>2
<1> QED BY <1>1, OAuthStart, OAuthStep, PTL DEF OAuthSpec

--------------------------------------------------------------------------------
(***************************************************************************)
(* Tool calls.  A call in flight is of the tool there is, and the tenant's *)
(* count is bounded by what waits to be counted.                           *)
(***************************************************************************)

LimitRows == [Fields -> Nat]
Admitting == [at : {"limits", "caps", "reset"}, by : Agents]
Limited == [at : {"bucket", "hour", "day", "write"}, by : Agents, limits : LimitRows]
Checked == [at : {"rpm", "record", "tool"}, by : Callers]
Costing == [at : {"cost"}, by : Callers, day : Nat]
Called == [at : {"lookup", "call", "store", "audit"}, by : Callers, tool : Nat,
           cached : {CacheFor > 0, FALSE}]
Clearing == [at : {"clear"}]
Invocations == {Resting} \cup Admitting \cup Limited \cup Checked \cup Costing \cup Called
               \cup Clearing
InvTyped == inv \in [Invokers -> Invocations]

(* A result in the cache is of the tool there is, unless its deletion is   *)
(* under way or raced a call; a call in flight is of that tool too.        *)
Fresh ==
  ~crossed =>
    /\ \A i \in Invokers : inv[i].at \in {"lookup", "call", "store"} =>
                             inv[i].tool = tool /\ tool # 0
    /\ cache.of \in {0, tool} \/ \E i \in Invokers : inv[i].at = "clear"

CallsInv == /\ minute \in Minutes /\ limits \in [Agents -> LimitRows]
            /\ version \in Nat /\ tool \in Nat /\ InvTyped /\ Fresh

LEMMA CallConstants ==
  /\ LastMinute \in Nat /\ LastMinute >= 1 /\ CacheFor \in Nat
  /\ Agents \subseteq Callers /\ Anonymous \in Callers
  /\ \A b \in Bodies \cup {Defaults} : DOMAIN b \subseteq Fields /\ b \in [DOMAIN b -> Nat]
  /\ Defaults \in LimitRows
  /\ \A q \in Quotas : q.rpm \in Nat /\ q.day \in Nat
<1>1. \A q \in Quotas : q.rpm \in Nat /\ q.day \in Nat
  BY ToolCallAssumption
<1>2. Defaults \in LimitRows /\ DOMAIN Defaults = Fields /\ Defaults \in [Fields -> Nat]
  BY ToolCallAssumption DEF LimitRows
<1> QED BY <1>1, <1>2, ToolCallAssumption DEF Callers

LEMMA InvHas ==
  /\ Resting.at = "none"
  /\ \A x \in Admitting : x.at \in {"limits", "caps", "reset"} /\ x.by \in Agents
  /\ \A x \in Limited : /\ x.at \in {"bucket", "hour", "day", "write"} /\ x.by \in Agents
                        /\ x.limits \in LimitRows
  /\ \A x \in Checked : x.at \in {"rpm", "record", "tool"} /\ x.by \in Callers
  /\ \A x \in Costing : x.at = "cost" /\ x.by \in Callers /\ x.day \in Nat
  /\ \A x \in Called : /\ x.at \in {"lookup", "call", "store", "audit"} /\ x.by \in Callers
                       /\ x.tool \in Nat
  /\ \A x \in Clearing : x.at = "clear"
<1>1. Resting.at = "none"
  BY DEF Resting
<1>2. \A x \in Admitting : x.at \in {"limits", "caps", "reset"} /\ x.by \in Agents
  BY DEF Admitting
<1>3. \A x \in Limited : /\ x.at \in {"bucket", "hour", "day", "write"} /\ x.by \in Agents
                         /\ x.limits \in LimitRows
  BY DEF Limited
<1>4. \A x \in Checked : x.at \in {"rpm", "record", "tool"} /\ x.by \in Callers
  BY DEF Checked
<1>5. \A x \in Costing : x.at = "cost" /\ x.by \in Callers /\ x.day \in Nat
  BY DEF Costing
<1>6. \A x \in Called : /\ x.at \in {"lookup", "call", "store", "audit"} /\ x.by \in Callers
                        /\ x.tool \in Nat
  BY DEF Called
<1>7. \A x \in Clearing : x.at = "clear"
  BY DEF Clearing
<1> QED BY <1>1, <1>2, <1>3, <1>4, <1>5, <1>6, <1>7

LEMMA InvIs ==
  ASSUME InvTyped, NEW i \in Invokers
  PROVE  /\ inv[i].at \in {"limits", "caps", "reset"} => inv[i] \in Admitting
         /\ inv[i].at \in {"bucket", "hour", "day", "write"} => inv[i] \in Limited
         /\ inv[i].at \in {"rpm", "record", "tool"} => inv[i] \in Checked
         /\ inv[i].at = "cost" => inv[i] \in Costing
         /\ inv[i].at \in {"lookup", "call", "store", "audit"} => inv[i] \in Called
         /\ inv[i].at = "clear" => inv[i] \in Clearing
         /\ inv[i].at = "none" => inv[i] = Resting
<1>1. inv[i] \in Invocations
  BY DEF InvTyped
<1> QED BY <1>1, InvHas DEF Invocations

LEMMA InvMoves ==
  ASSUME InvTyped, NEW i \in Invokers, NEW x \in Invocations, inv' = [inv EXCEPT ![i] = x]
  PROVE  InvTyped' /\ \A j \in Invokers : inv'[j] = IF j = i THEN x ELSE inv[j]
BY DEF InvTyped

(* The same request at another stage.                                      *)
LEMMA MovedOn ==
  ASSUME InvTyped, NEW i \in Invokers, NEW S, inv[i] \in S,
         NEW at, Goto(i, at),
         \/ S = Limited /\ at \in {"bucket", "hour", "day", "write"}
         \/ S = Checked /\ at \in {"rpm", "record", "tool"}
         \/ S = Called /\ at \in {"lookup", "call", "store", "audit"}
  PROVE  \E x \in S : /\ x.at = at /\ x.by = inv[i].by /\ x \in Invocations
                      /\ S = Called => x.tool = inv[i].tool
                      /\ inv' = [inv EXCEPT ![i] = x]
<1> DEFINE x == [inv[i] EXCEPT !.at = at]
<1>1. inv' = [inv EXCEPT ![i] = x]
  BY DEF Goto
<1>2. CASE S = Limited /\ at \in {"bucket", "hour", "day", "write"}
  <2>1. x \in Limited /\ x.at = at /\ x.by = inv[i].by
    BY <1>2 DEF Limited
  <2> QED BY <1>1, <1>2, <2>1, InvHas DEF Invocations
<1>3. CASE S = Checked /\ at \in {"rpm", "record", "tool"}
  <2>1. x \in Checked /\ x.at = at /\ x.by = inv[i].by
    BY <1>3 DEF Checked
  <2> QED BY <1>1, <1>3, <2>1, InvHas DEF Invocations
<1>4. CASE S = Called /\ at \in {"lookup", "call", "store", "audit"}
  <2>1. x \in Called /\ x.at = at /\ x.by = inv[i].by /\ x.tool = inv[i].tool
    BY <1>4 DEF Called
  <2> QED BY <1>1, <1>4, <2>1 DEF Invocations
<1> QED BY <1>2, <1>3, <1>4

Waiting == {"cost", "record"}
(* No request comes closer to the count of the tenant's invocations.       *)
NoneCloser ==
  /\ UNCHANGED <<minute, invoked>>
  /\ \A j \in Invokers : inv'[j].at \in Waiting => inv[j].at \in Waiting

(* A step of one request that leaves tool and cache alone.                 *)
LEMMA RequestSteps ==
  ASSUME CallsInv, NEW i \in Invokers, NEW x \in Invocations, inv' = [inv EXCEPT ![i] = x],
         UNCHANGED <<minute, limits, tool, version, cache, crossed, invoked>>,
         inv[i].at # "clear",
         ~crossed /\ x.at \in {"lookup", "call", "store"} => x.tool = tool /\ tool # 0
  PROVE  CallsInv' /\ ((x.at \in Waiting => inv[i].at \in Waiting) => NoneCloser)
<1>1. InvTyped' /\ \A j \in Invokers : inv'[j] = IF j = i THEN x ELSE inv[j]
  BY InvMoves DEF CallsInv
<1>2. Fresh'
  <2>1. SUFFICES ASSUME ~crossed PROVE Fresh'
    BY DEF Fresh
  <2>2. \A j \in Invokers : inv'[j].at \in {"lookup", "call", "store"} =>
                              inv'[j].tool = tool /\ tool # 0
    BY <1>1, <2>1 DEF CallsInv, Fresh
  <2>3. cache.of \in {0, tool} \/ \E j \in Invokers : inv'[j].at = "clear"
    BY <1>1, <2>1 DEF CallsInv, Fresh
  <2> QED BY <2>2, <2>3 DEF Fresh
<1>3. CallsInv'
  BY <1>1, <1>2 DEF CallsInv
<1>4. (x.at \in Waiting => inv[i].at \in Waiting) => NoneCloser
  BY <1>1 DEF NoneCloser
<1> QED BY <1>3, <1>4

LEMMA RestingIs == Resting \in Invocations /\ Resting.at = "none"
BY InvHas DEF Invocations

LEMMA InvokeStartKeeps ==
  ASSUME CallsInv, NEW i \in Invokers, NEW c \in Callers, InvokeStart(i, c)
  PROVE  CallsInv' /\ NoneCloser
<1> DEFINE x == [at |-> IF c = Anonymous THEN "rpm" ELSE "limits", by |-> c]
<1>1. /\ inv[i].at = "none" /\ inv' = [inv EXCEPT ![i] = x]
      /\ UNCHANGED <<minute, limits, tool, version, cache, crossed, invoked>>
  BY DEF InvokeStart, At, history, registered
<1>2. x.at \in {"rpm", "limits"} /\ x \in Checked \cup Admitting
  BY DEF Checked, Admitting, Callers
<1>3. x \in Invocations
  BY <1>2 DEF Invocations
<1> HIDE DEF x
<1> QED BY <1>1, <1>2, <1>3, RequestSteps DEF Waiting

LEMMA ReadLimitsKeeps ==
  ASSUME CallsInv, NEW i \in Invokers, ReadLimits(i)
  PROVE  CallsInv' /\ NoneCloser
<1>1. PICK at \in {"bucket", "hour"} :
        /\ inv[i].at \in {"limits", "caps"}
        /\ inv' = [inv EXCEPT ![i] =
             [at |-> at, by |-> inv[i].by, limits |-> limits[inv[i].by]]]
  BY DEF ReadLimits, At
<1>2. UNCHANGED <<minute, limits, tool, version, cache, crossed, invoked>>
  BY DEF ReadLimits, history, registered
<1> DEFINE x == [at |-> at, by |-> inv[i].by, limits |-> limits[inv[i].by]]
<1>3. inv[i].by \in Agents
  BY <1>1, InvIs, InvHas DEF CallsInv
<1>4. x \in Limited /\ x.at \in {"bucket", "hour"}
  BY <1>3 DEF Limited, CallsInv
<1>5. x \in Invocations
  BY <1>4 DEF Invocations
<1>6. inv' = [inv EXCEPT ![i] = x]
  BY <1>1
<1> HIDE DEF x
<1> QED BY <1>1, <1>2, <1>4, <1>5, <1>6, RequestSteps DEF Waiting

(* A request that is answered.                                             *)
LEMMA AnswerKeeps ==
  ASSUME CallsInv, NEW i \in Invokers, Answer(i), inv[i].at # "clear",
         UNCHANGED <<minute, limits, tool, version, cache, crossed, invoked>>
  PROVE  CallsInv' /\ NoneCloser
BY RestingIs, RequestSteps DEF Answer, Waiting

LEMMA TakeTokenKeeps ==
  ASSUME CallsInv, NEW i \in Invokers, TakeToken(i)
  PROVE  CallsInv' /\ NoneCloser
<1> DEFINE x == [at |-> "caps", by |-> inv[i].by]
<1>1. /\ inv[i].at = "bucket" /\ (Answer(i) \/ inv' = [inv EXCEPT ![i] = x])
      /\ UNCHANGED <<minute, limits, tool, version, cache, crossed, invoked>>
  BY DEF TakeToken, At, registered
<1>2. CASE Answer(i)
  BY <1>1, <1>2, AnswerKeeps
<1>3. CASE inv' = [inv EXCEPT ![i] = x]
  <2>1. inv[i].by \in Agents
    BY <1>1, InvIs, InvHas DEF CallsInv
  <2>2. x \in Admitting /\ x.at = "caps"
    BY <2>1 DEF Admitting
  <2>3. x \in Invocations
    BY <2>2 DEF Invocations
  <2> HIDE DEF x
  <2> QED BY <1>1, <1>3, <2>2, <2>3, RequestSteps DEF Waiting
<1> QED BY <1>1, <1>2, <1>3

LEMMA CheckHourKeeps ==
  ASSUME CallsInv, NEW i \in Invokers, CheckHour(i)
  PROVE  CallsInv' /\ NoneCloser
<1>1. /\ inv[i].at = "hour" /\ (Answer(i) \/ Goto(i, "day"))
      /\ UNCHANGED <<minute, limits, tool, version, cache, crossed, invoked>>
  BY DEF CheckHour, At, registered, history
<1>2. CASE Answer(i)
  BY <1>1, <1>2, AnswerKeeps
<1>3. CASE Goto(i, "day")
  <2>1. inv[i] \in Limited
    BY <1>1, InvIs DEF CallsInv
  <2>2. PICK x \in Limited : /\ x.at = "day" /\ x \in Invocations
                             /\ inv' = [inv EXCEPT ![i] = x]
    BY <1>3, <2>1, MovedOn DEF CallsInv
  <2> QED BY <1>1, <2>2, RequestSteps DEF Waiting
<1> QED BY <1>1, <1>2, <1>3

LEMMA CheckDayKeeps ==
  ASSUME CallsInv, NEW i \in Invokers, CheckDay(i)
  PROVE  CallsInv' /\ NoneCloser
<1> DEFINE x == [at |-> "rpm", by |-> inv[i].by]
<1>1. /\ inv[i].at = "day" /\ (Answer(i) \/ inv' = [inv EXCEPT ![i] = x])
      /\ UNCHANGED <<minute, limits, tool, version, cache, crossed, invoked>>
  BY DEF CheckDay, At, registered, history
<1>2. CASE Answer(i)
  BY <1>1, <1>2, AnswerKeeps
<1>3. CASE inv' = [inv EXCEPT ![i] = x]
  <2>1. inv[i].by \in Callers
    BY <1>1, InvIs, InvHas, CallConstants DEF CallsInv
  <2>2. x \in Checked /\ x.at = "rpm"
    BY <2>1 DEF Checked
  <2>3. x \in Invocations
    BY <2>2 DEF Invocations
  <2> HIDE DEF x
  <2> QED BY <1>1, <1>3, <2>2, <2>3, RequestSteps DEF Waiting
<1> QED BY <1>1, <1>2, <1>3

(* The check that lets a request wait to be counted saw room for it, when  *)
(* the tenant is limited.                                                  *)
LEMMA CheckTenantRpmKeeps ==
  ASSUME CallsInv, NEW i \in Invokers, CheckTenantRpm(i)
  PROVE  /\ CallsInv' /\ UNCHANGED <<minute, invoked>>
         /\ NoneCloser \/ \E q \in Quotas : ~Over(invoked[minute], q.rpm)
<1>1. PICK q \in Quotas :
        IF Over(invoked[minute], q.rpm)
          THEN Answer(i)
          ELSE inv' = [inv EXCEPT ![i] = [at |-> "cost", by |-> inv[i].by, day |-> q.day]]
  BY DEF CheckTenantRpm
<1>2. /\ inv[i].at = "rpm"
      /\ UNCHANGED <<minute, limits, tool, version, cache, crossed, invoked>>
  BY DEF CheckTenantRpm, At, registered, history
<1>3. CASE Answer(i)
  BY <1>2, <1>3, AnswerKeeps
<1>4. CASE ~Over(invoked[minute], q.rpm)
  <2> DEFINE x == [at |-> "cost", by |-> inv[i].by, day |-> q.day]
  <2>1. inv[i].by \in Callers
    BY <1>2, InvIs, InvHas DEF CallsInv
  <2>2. x \in Costing /\ x.at = "cost"
    BY <2>1, CallConstants DEF Costing
  <2>3. x \in Invocations
    BY <2>2 DEF Invocations
  <2>4. inv' = [inv EXCEPT ![i] = x]
    BY <1>1, <1>4
  <2> HIDE DEF x
  <2> QED BY <1>2, <1>4, <2>2, <2>3, <2>4, RequestSteps
<1> QED BY <1>1, <1>3, <1>4

LEMMA CheckTenantCostKeeps ==
  ASSUME CallsInv, NEW i \in Invokers, CheckTenantCost(i)
  PROVE  CallsInv' /\ NoneCloser
<1> DEFINE x == [at |-> "record", by |-> inv[i].by]
<1>1. /\ inv[i].at = "cost" /\ (Answer(i) \/ inv' = [inv EXCEPT ![i] = x])
      /\ UNCHANGED <<minute, limits, tool, version, cache, crossed, invoked>>
  BY DEF CheckTenantCost, At, registered, history
<1>2. CASE Answer(i)
  BY <1>1, <1>2, AnswerKeeps
<1>3. CASE inv' = [inv EXCEPT ![i] = x]
  <2>1. inv[i].by \in Callers
    BY <1>1, InvIs, InvHas DEF CallsInv
  <2>2. x \in Checked /\ x.at = "record"
    BY <2>1 DEF Checked
  <2>3. x \in Invocations
    BY <2>2 DEF Invocations
  <2> HIDE DEF x
  <2> QED BY <1>1, <1>3, <2>2, <2>3, RequestSteps DEF Waiting
<1> QED BY <1>1, <1>2, <1>3

(* The request that is counted no longer waits for it.                     *)
LEMMA RecordInvokeKeeps ==
  ASSUME CallsInv, NEW i \in Invokers, RecordInvoke(i)
  PROVE  /\ CallsInv' /\ UNCHANGED minute
         /\ invoked' = [invoked EXCEPT ![minute] = @ + 1]
         /\ inv[i].at = "record"
         /\ \A j \in Invokers : inv'[j].at \in Waiting => j # i /\ inv[j].at \in Waiting
<1>1. /\ inv[i].at = "record" /\ Goto(i, "tool")
      /\ invoked' = [invoked EXCEPT ![minute] = @ + 1]
      /\ UNCHANGED <<minute, limits, tool, version, cache, crossed>>
  BY DEF RecordInvoke, At, registered, history
<1>2. inv[i] \in Checked
  BY <1>1, InvIs DEF CallsInv
<1>3. PICK x \in Checked : /\ x.at = "tool" /\ x \in Invocations
                           /\ inv' = [inv EXCEPT ![i] = x]
  BY <1>1, <1>2, MovedOn DEF CallsInv
<1>4. InvTyped' /\ \A j \in Invokers : inv'[j] = IF j = i THEN x ELSE inv[j]
  BY <1>3, InvMoves DEF CallsInv
<1>5. Fresh'
  BY <1>1, <1>3, <1>4 DEF CallsInv, Fresh
<1> QED BY <1>1, <1>3, <1>4, <1>5 DEF CallsInv, Waiting

(* A call begins with the tool that is registered.                         *)
LEMMA GetToolKeeps ==
  ASSUME CallsInv, NEW i \in Invokers, GetTool(i)
  PROVE  CallsInv' /\ NoneCloser
<1>1. /\ inv[i].at = "tool"
      /\ UNCHANGED <<minute, limits, tool, version, cache, crossed, invoked>>
  BY DEF GetTool, At, registered, history
<1>2. CASE tool = 0
  <2>1. Answer(i)
    BY <1>2 DEF GetTool
  <2> QED BY <1>1, <2>1, AnswerKeeps
<1>3. CASE tool # 0
  <2>1. PICK cached \in {CacheFor > 0, FALSE} :
          inv' = [inv EXCEPT ![i] =
            [at |-> IF cached THEN "lookup" ELSE "call",
             by |-> inv[i].by, tool |-> tool, cached |-> cached]]
    BY <1>3 DEF GetTool
  <2> DEFINE x == [at |-> IF cached THEN "lookup" ELSE "call",
                   by |-> inv[i].by, tool |-> tool, cached |-> cached]
  <2>2. inv[i].by \in Callers
    BY <1>1, InvIs, InvHas DEF CallsInv
  <2>3. x \in Called /\ x.at \in {"lookup", "call"} /\ x.tool = tool
    BY <2>1, <2>2 DEF Called, CallsInv
  <2>4. x \in Invocations
    BY <2>3 DEF Invocations
  <2>5. inv' = [inv EXCEPT ![i] = x]
    BY <2>1
  <2> HIDE DEF x
  <2> QED BY <1>1, <1>3, <2>3, <2>4, <2>5, RequestSteps DEF Waiting
<1> QED BY <1>2, <1>3

(* A lookup that hits answers; one that misses may drop an old entry.      *)
LEMMA LookupKeeps ==
  ASSUME CallsInv, NEW i \in Invokers, Lookup(i)
  PROVE  CallsInv' /\ NoneCloser
<1>1. /\ inv[i].at = "lookup"
      /\ UNCHANGED <<minute, limits, tool, version, crossed, invoked>>
  BY DEF Lookup, At, history
<1>2. CASE Answer(i) /\ UNCHANGED cache
  BY <1>1, <1>2, AnswerKeeps
<1>3. CASE Goto(i, "call") /\ cache' = NoEntry
  <2>1. inv[i] \in Called
    BY <1>1, InvIs DEF CallsInv
  <2>2. PICK x \in Called : /\ x.at = "call" /\ x.tool = inv[i].tool /\ x \in Invocations
                            /\ inv' = [inv EXCEPT ![i] = x]
    BY <1>3, <2>1, MovedOn DEF CallsInv
  <2>3. InvTyped' /\ \A j \in Invokers : inv'[j] = IF j = i THEN x ELSE inv[j]
    BY <2>2, InvMoves DEF CallsInv
  <2>4. Fresh'
    BY <1>1, <1>3, <2>2, <2>3 DEF CallsInv, Fresh, NoEntry
  <2> QED BY <1>1, <2>2, <2>3, <2>4 DEF CallsInv, NoneCloser, Waiting
<1> QED BY <1>2, <1>3 DEF Lookup

LEMMA CallToolKeeps ==
  ASSUME CallsInv, NEW i \in Invokers, CallTool(i)
  PROVE  CallsInv' /\ NoneCloser
<1>1. /\ inv[i].at = "call"
      /\ UNCHANGED <<minute, limits, tool, version, cache, crossed, invoked>>
  BY DEF CallTool, At, registered
<1>2. PICK at \in {"store", "audit"} : Goto(i, at)
  BY DEF CallTool
<1>3. inv[i] \in Called
  BY <1>1, InvIs DEF CallsInv
<1>4. PICK x \in Called : /\ x.at = at /\ x.tool = inv[i].tool /\ x \in Invocations
                          /\ inv' = [inv EXCEPT ![i] = x]
  BY <1>2, <1>3, MovedOn DEF CallsInv
<1>5. ~crossed => inv[i].tool = tool /\ tool # 0
  BY <1>1 DEF CallsInv, Fresh
<1> QED BY <1>1, <1>2, <1>4, <1>5, RequestSteps DEF Waiting

(* The result that is stored is of the tool there is, or crossed.          *)
LEMMA StoreResultKeeps ==
  ASSUME CallsInv, NEW i \in Invokers, StoreResult(i)
  PROVE  CallsInv' /\ NoneCloser
<1>1. /\ inv[i].at = "store" /\ Goto(i, "audit") /\ cache'.of = inv[i].tool
      /\ UNCHANGED <<minute, limits, tool, version, crossed, invoked>>
  BY DEF StoreResult, At, history
<1>2. inv[i] \in Called
  BY <1>1, InvIs DEF CallsInv
<1>3. PICK x \in Called : /\ x.at = "audit" /\ x \in Invocations
                          /\ inv' = [inv EXCEPT ![i] = x]
  BY <1>1, <1>2, MovedOn DEF CallsInv
<1>4. InvTyped' /\ \A j \in Invokers : inv'[j] = IF j = i THEN x ELSE inv[j]
  BY <1>3, InvMoves DEF CallsInv
<1>5. Fresh'
  BY <1>1, <1>3, <1>4 DEF CallsInv, Fresh
<1> QED BY <1>1, <1>3, <1>4, <1>5 DEF CallsInv, NoneCloser, Waiting

LEMMA AuditCallKeeps ==
  ASSUME CallsInv, NEW i \in Invokers, AuditCall(i)
  PROVE  CallsInv' /\ NoneCloser
<1>1. /\ inv[i].at = "audit" /\ Answer(i)
      /\ UNCHANGED <<minute, limits, tool, version, cache, crossed, invoked>>
  BY DEF AuditCall, At, registered, history
<1> QED BY <1>1, AnswerKeeps

(* A tool is registered under a new number, when no call of the old one    *)
(* runs, unless its deletion raced one.                                    *)
LEMMA RegisterToolKeeps ==
  ASSUME CallsInv, RegisterTool
  PROVE  CallsInv' /\ NoneCloser
<1>1. /\ tool = 0 /\ version' = version + 1 /\ tool' = version + 1
      /\ UNCHANGED <<minute, limits, cache, crossed, invoked, inv>>
  BY DEF RegisterTool, history
<1>2. Fresh'
  BY <1>1 DEF CallsInv, Fresh
<1> QED BY <1>1, <1>2 DEF CallsInv, InvTyped, NoneCloser

(* A deletion that finds a call in flight is noted as a race.              *)
LEMMA DeleteToolKeeps ==
  ASSUME CallsInv, NEW i \in Invokers, DeleteTool(i)
  PROVE  CallsInv' /\ NoneCloser
<1> DEFINE x == [at |-> "clear"]
<1>1. /\ inv[i].at = "none" /\ tool' = 0 /\ inv' = [inv EXCEPT ![i] = x]
      /\ crossed' = (crossed \/ CallsInFlight # {})
      /\ UNCHANGED <<minute, limits, version, cache, invoked>>
  BY DEF DeleteTool, At
<1>2. x \in Invocations /\ x.at = "clear"
  BY DEF Invocations, Clearing
<1> HIDE DEF x
<1>3. InvTyped' /\ \A j \in Invokers : inv'[j] = IF j = i THEN x ELSE inv[j]
  BY <1>1, <1>2, InvMoves DEF CallsInv
<1>4. Fresh'
  <2>1. SUFFICES ASSUME ~crossed' PROVE Fresh'
    BY DEF Fresh
  <2>2. \A j \in Invokers : inv[j].at \notin {"lookup", "call", "store"}
    BY <1>1, <2>1 DEF CallsInFlight
  <2>3. \A j \in Invokers : inv'[j].at \notin {"lookup", "call", "store"}
    BY <1>2, <1>3, <2>2
  <2>4. inv'[i].at = "clear"
    BY <1>2, <1>3
  <2> QED BY <2>3, <2>4 DEF Fresh
<1> QED BY <1>1, <1>2, <1>3, <1>4 DEF CallsInv, NoneCloser, Waiting

LEMMA ClearCacheKeeps ==
  ASSUME CallsInv, NEW i \in Invokers, ClearCache(i)
  PROVE  CallsInv' /\ NoneCloser
<1>1. /\ inv[i].at = "clear" /\ cache' = NoEntry /\ inv' = [inv EXCEPT ![i] = Resting]
      /\ UNCHANGED <<minute, limits, tool, version, crossed, invoked>>
  BY DEF ClearCache, At, history, Answer, Cleared
<1>2. InvTyped' /\ \A j \in Invokers : inv'[j] = IF j = i THEN Resting ELSE inv[j]
  BY <1>1, RestingIs, InvMoves DEF CallsInv
<1>3. Fresh'
  BY <1>1, <1>2, RestingIs DEF CallsInv, Fresh, NoEntry
<1> QED BY <1>1, <1>2, <1>3, RestingIs DEF CallsInv, NoneCloser, Waiting

LEMMA DropEntryKeeps ==
  ASSUME CallsInv, DropEntry
  PROVE  CallsInv' /\ NoneCloser
<1>1. /\ cache' = NoEntry
      /\ UNCHANGED <<minute, limits, tool, version, crossed, invoked, inv>>
  BY DEF DropEntry, history
<1>2. Fresh'
  BY <1>1 DEF CallsInv, Fresh, NoEntry
<1> QED BY <1>1, <1>2 DEF CallsInv, InvTyped, NoneCloser

(* The limits of an agent that is changed are limits again.                *)
LEMMA SetLimitsReadKeeps ==
  ASSUME CallsInv, NEW i \in Invokers, NEW a \in Agents, NEW body \in Bodies,
         SetLimitsRead(i, a, body)
  PROVE  CallsInv' /\ NoneCloser
<1> DEFINE x == [at |-> "write", by |-> a, limits |-> Given(body, limits[a])]
<1>1. /\ inv[i].at = "none" /\ inv' = [inv EXCEPT ![i] = x]
      /\ UNCHANGED <<minute, limits, tool, version, cache, crossed, invoked>>
  BY DEF SetLimitsRead, At, registered, history
<1>2. limits[a] \in LimitRows /\ DOMAIN limits[a] = Fields
  BY DEF CallsInv, LimitRows
<1>3. body \in [DOMAIN body -> Nat] /\ DOMAIN body \subseteq Fields
  BY CallConstants
<1>4. Given(body, limits[a]) \in LimitRows
  BY <1>2, <1>3 DEF Given, LimitRows
<1>5. x \in Limited /\ x.at = "write"
  BY <1>4 DEF Limited
<1>6. x \in Invocations
  BY <1>5 DEF Invocations
<1> HIDE DEF x
<1> QED BY <1>1, <1>5, <1>6, RequestSteps DEF Waiting

LEMMA DeleteLimitsKeeps ==
  ASSUME CallsInv, NEW i \in Invokers, NEW a \in Agents, DeleteLimits(i, a)
  PROVE  CallsInv' /\ NoneCloser
<1> DEFINE x == [at |-> "write", by |-> a, limits |-> Defaults]
<1>1. /\ inv[i].at = "none" /\ inv' = [inv EXCEPT ![i] = x]
      /\ UNCHANGED <<minute, limits, tool, version, cache, crossed, invoked>>
  BY DEF DeleteLimits, At, registered, history
<1>2. x \in Limited /\ x.at = "write"
  BY CallConstants DEF Limited
<1>3. x \in Invocations
  BY <1>2 DEF Invocations
<1> HIDE DEF x
<1> QED BY <1>1, <1>2, <1>3, RequestSteps DEF Waiting

LEMMA LimitsWriteKeeps ==
  ASSUME CallsInv, NEW i \in Invokers, LimitsWrite(i)
  PROVE  CallsInv' /\ NoneCloser
<1> DEFINE x == [at |-> "reset", by |-> inv[i].by]
<1>1. /\ inv[i].at = "write" /\ inv' = [inv EXCEPT ![i] = x]
      /\ limits' = [limits EXCEPT ![inv[i].by] = inv[i].limits]
      /\ UNCHANGED <<minute, tool, version, cache, crossed, invoked>>
  BY DEF LimitsWrite, At, registered
<1>2. inv[i].by \in Agents /\ inv[i].limits \in LimitRows
  BY <1>1, InvIs, InvHas DEF CallsInv
<1>3. x \in Admitting /\ x.at = "reset"
  BY <1>2 DEF Admitting
<1>4. x \in Invocations
  BY <1>3 DEF Invocations
<1> HIDE DEF x
<1>5. limits' \in [Agents -> LimitRows]
  BY <1>1, <1>2 DEF CallsInv
<1>6. InvTyped' /\ \A j \in Invokers : inv'[j] = IF j = i THEN x ELSE inv[j]
  BY <1>1, <1>4, InvMoves DEF CallsInv
<1>7. Fresh'
  BY <1>1, <1>3, <1>6 DEF CallsInv, Fresh
<1> QED BY <1>1, <1>3, <1>5, <1>6, <1>7 DEF CallsInv, NoneCloser, Waiting

LEMMA ResetBucketKeeps ==
  ASSUME CallsInv, NEW i \in Invokers, ResetBucket(i)
  PROVE  CallsInv' /\ NoneCloser
<1>1. /\ inv[i].at = "reset" /\ Answer(i)
      /\ UNCHANGED <<minute, limits, tool, version, cache, crossed, invoked>>
  BY DEF ResetBucket, At, registered, history
<1> QED BY <1>1, AnswerKeeps

(* A deletion that is lost half-way is noted.                              *)
LEMMA InvokeLostKeeps ==
  ASSUME CallsInv, NEW i \in Invokers, InvokeLost(i)
  PROVE  CallsInv' /\ NoneCloser
<1>1. /\ inv' = [inv EXCEPT ![i] = Resting]
      /\ crossed' = (crossed \/ inv[i].at = "clear")
      /\ UNCHANGED <<minute, limits, tool, version, cache, invoked>>
  BY DEF InvokeLost, At, registered, Answer
<1>2. InvTyped' /\ \A j \in Invokers : inv'[j] = IF j = i THEN Resting ELSE inv[j]
  BY <1>1, RestingIs, InvMoves DEF CallsInv
<1>3. Fresh'
  <2>1. SUFFICES ASSUME ~crossed' PROVE Fresh'
    BY DEF Fresh
  <2>2. ~crossed /\ inv[i].at # "clear"
    BY <1>1, <2>1
  <2>3. \A j \in Invokers : inv'[j].at \in {"lookup", "call", "store"} =>
                              inv'[j].tool = tool /\ tool # 0
    BY <1>2, <2>2, RestingIs DEF CallsInv, Fresh
  <2>4. cache.of \in {0, tool} \/ \E j \in Invokers : inv'[j].at = "clear"
    BY <1>2, <2>2 DEF CallsInv, Fresh
  <2> QED BY <1>1, <2>3, <2>4 DEF Fresh
<1> QED BY <1>1, <1>2, <1>3, RestingIs DEF CallsInv, NoneCloser, Waiting

LEMMA GatewayRestartKeeps ==
  ASSUME CallsInv, GatewayRestart
  PROVE  /\ CallsInv' /\ UNCHANGED minute
         /\ invoked' = [t \in Minutes |-> 0]
         /\ \A j \in Invokers : inv'[j].at \notin Waiting
<1>1. /\ inv' = [i \in Invokers |-> Resting] /\ invoked' = [t \in Minutes |-> 0]
      /\ crossed' = (crossed \/ \E i \in Invokers : inv[i].at = "clear")
      /\ UNCHANGED <<minute, limits, tool, version, cache>>
  BY DEF GatewayRestart, At, registered
<1>2. InvTyped' /\ \A j \in Invokers : inv'[j].at = "none"
  BY <1>1, RestingIs DEF InvTyped
<1>3. Fresh'
  BY <1>1, <1>2 DEF CallsInv, Fresh
<1> QED BY <1>1, <1>2, <1>3 DEF CallsInv, Waiting

LEMMA MinutePassesKeeps ==
  ASSUME CallsInv, MinutePasses
  PROVE  /\ CallsInv' /\ minute' = minute + 1 /\ minute' \in Minutes
         /\ UNCHANGED <<invoked, inv>>
<1>1. /\ minute < LastMinute /\ minute' = minute + 1
      /\ UNCHANGED <<limits, tool, version, cache, crossed, invoked, inv>>
  BY DEF MinutePasses, registered, history
<1>2. minute' \in Minutes
  BY <1>1, CallConstants DEF CallsInv, Minutes
<1> QED BY <1>1, <1>2 DEF CallsInv, InvTyped, Fresh

LEMMA RecordLlmKeeps ==
  ASSUME CallsInv, NEW c \in Callers, RecordLlm(c)
  PROVE  CallsInv' /\ NoneCloser
<1>1. UNCHANGED <<minute, limits, tool, version, cache, crossed, invoked, inv>>
  BY DEF RecordLlm, registered
<1> QED BY <1>1 DEF CallsInv, InvTyped, Fresh, NoneCloser

LEMMA CallsInvStart == ToolCallsInit => CallsInv
<1> SUFFICES ASSUME ToolCallsInit PROVE CallsInv
  OBVIOUS
<1>1. InvTyped /\ \A i \in Invokers : inv[i].at = "none"
  BY RestingIs DEF ToolCallsInit, InvTyped
<1>2. Fresh
  BY <1>1 DEF ToolCallsInit, Fresh, NoEntry
<1>3. limits \in [Agents -> LimitRows]
  BY CallConstants DEF ToolCallsInit
<1>4. minute \in Minutes /\ version \in Nat /\ tool \in Nat
  BY CallConstants DEF ToolCallsInit, Minutes
<1> QED BY <1>1, <1>2, <1>3, <1>4 DEF CallsInv

(* What a step does to the tenant's count: nothing, let a request pass a   *)
(* check, count one, forget everything, or begin a minute.                 *)
LEMMA CallsSteps ==
  ASSUME CallsInv, ToolCallsNext
  PROVE  /\ CallsInv'
         /\ \/ NoneCloser
            \/ UNCHANGED <<minute, invoked>> /\ \E q \in Quotas : ~Over(invoked[minute], q.rpm)
            \/ \E i \in Invokers : RecordInvoke(i)
            \/ GatewayRestart
            \/ MinutePasses
<1>1. CASE \E i \in Invokers :
             \/ ReadLimits(i) \/ TakeToken(i) \/ CheckHour(i) \/ CheckDay(i)
             \/ CheckTenantCost(i) \/ GetTool(i) \/ Lookup(i) \/ CallTool(i)
             \/ StoreResult(i) \/ AuditCall(i) \/ DeleteTool(i) \/ ClearCache(i)
             \/ LimitsWrite(i) \/ ResetBucket(i) \/ InvokeLost(i)
  BY <1>1, ReadLimitsKeeps, TakeTokenKeeps, CheckHourKeeps, CheckDayKeeps,
     CheckTenantCostKeeps, GetToolKeeps, LookupKeeps, CallToolKeeps, StoreResultKeeps,
     AuditCallKeeps, DeleteToolKeeps, ClearCacheKeeps, LimitsWriteKeeps, ResetBucketKeeps,
     InvokeLostKeeps
<1>2. CASE \E i \in Invokers : CheckTenantRpm(i)
  BY <1>2, CheckTenantRpmKeeps
<1>3. CASE \E i \in Invokers : RecordInvoke(i)
  BY <1>3, RecordInvokeKeeps
<1>4. CASE \E i \in Invokers, c \in Callers : InvokeStart(i, c)
  BY <1>4, InvokeStartKeeps
<1>5. CASE \E i \in Invokers, a \in Agents : DeleteLimits(i, a)
  BY <1>5, DeleteLimitsKeeps
<1>6. CASE \E i \in Invokers, a \in Agents, b \in Bodies : SetLimitsRead(i, a, b)
  BY <1>6, SetLimitsReadKeeps
<1>7. CASE \E c \in Callers : RecordLlm(c)
  BY <1>7, RecordLlmKeeps
<1>8. CASE RegisterTool
  BY <1>8, RegisterToolKeeps
<1>9. CASE DropEntry
  BY <1>9, DropEntryKeeps
<1>10. CASE GatewayRestart
  BY <1>10, GatewayRestartKeeps
<1>11. CASE MinutePasses
  BY <1>11, MinutePassesKeeps
<1> QED BY <1>1, <1>2, <1>3, <1>4, <1>5, <1>6, <1>7, <1>8, <1>9, <1>10, <1>11
        DEF ToolCallsNext

LEMMA CallsInvIdle == CallsInv /\ UNCHANGED toolVars => CallsInv'
BY DEF CallsInv, InvTyped, Fresh, toolVars

(* A result in the cache is of the registration there is, unless a         *)
(* deletion is under way, raced a call or was lost (gateway/cache.py,      *)
(* registry.py delete).                                                    *)
THEOREM OldResultsNeedRaces == ToolCallsSpec => []OldResultNeedsRace
<1>1. CallsInv => OldResultNeedsRace
  BY DEF CallsInv, Fresh, OldResultNeedsRace, At
<1>2. CallsInv /\ [ToolCallsNext]_toolVars => CallsInv'
  BY CallsSteps, CallsInvIdle
<1> QED BY CallsInvStart, <1>1, <1>2, PTL DEF ToolCallsSpec

(* The tenant's largest quota.                                             *)
Allowed == Max({q.rpm : q \in Quotas})
TenantLimited == /\ IsFiniteSet(Quotas) /\ Quotas # {} /\ IsFiniteSet(Invokers)
                 /\ \A q \in Quotas : q.rpm > 0

LEMMA AllowedIs ==
  ASSUME TenantLimited
  PROVE  /\ Allowed \in Nat /\ Allowed >= 1
         /\ \A q \in Quotas : q.rpm <= Allowed
         /\ Cardinality(Invokers) \in Nat
<1> DEFINE S == {q.rpm : q \in Quotas}
           f == [q \in Quotas |-> q.rpm]
<1>1. S \in SUBSET Nat /\ S # {}
  BY CallConstants DEF TenantLimited
<1>2. f \in Surjection(Quotas, S)
  BY DEF Surjection
<1>3. IsFiniteSet(S)
  BY <1>2, FS_Surjection DEF TenantLimited
<1>4. Max(S) \in S /\ \A n \in S : n <= Max(S)
  BY <1>1, <1>3, MaxIs
<1>5. Cardinality(Invokers) \in Nat
  BY FS_CardinalityType DEF TenantLimited
<1>6. PICK q \in Quotas : Max(S) = q.rpm
  BY <1>4
<1> HIDE DEF f
<1>7. \A q1 \in Quotas : q1.rpm <= Max(S)
  BY <1>4
<1>8. Max(S) \in Nat /\ Max(S) >= 1
  BY <1>6, CallConstants DEF TenantLimited
<1> QED BY <1>5, <1>7, <1>8 DEF Allowed

(* The requests that have passed the check and are not counted yet.        *)
Passing == {i \in Invokers : inv[i].at \in Waiting}

(* The count is of the minutes there have been, and with the requests that *)
(* are about to be counted it stays below the largest quota and the number *)
(* of requests there can be.                                               *)
RateInv ==
  /\ invoked \in [Minutes -> Nat]
  /\ \A t \in Minutes : t > minute => invoked[t] = 0
  /\ invoked[minute] + Cardinality(Passing) <= Allowed - 1 + Cardinality(Invokers)

LEMMA PassingIs ==
  ASSUME TenantLimited
  PROVE  /\ IsFiniteSet(Passing) /\ Cardinality(Passing) \in Nat
         /\ Cardinality(Passing) <= Cardinality(Invokers)
<1>1. Passing \in SUBSET Invokers
  BY DEF Passing
<1> QED BY <1>1, FS_Subset, FS_CardinalityType DEF TenantLimited

LEMMA RateStarts == TenantLimited /\ ToolCallsInit => RateInv
<1> SUFFICES ASSUME TenantLimited, ToolCallsInit PROVE RateInv
  OBVIOUS
<1>1. /\ minute = 1 /\ invoked = [t \in Minutes |-> 0] /\ 1 \in Minutes
  BY CallConstants DEF ToolCallsInit, Minutes
<1> QED BY <1>1, PassingIs, AllowedIs DEF RateInv

LEMMA RateKept ==
  ASSUME TenantLimited, CallsInv, RateInv, CallsInv', NoneCloser
  PROVE  RateInv'
<1>1. Passing' \in SUBSET Passing
  BY DEF NoneCloser, Passing
<1>2. Cardinality(Passing') <= Cardinality(Passing) /\ Cardinality(Passing') \in Nat
  BY <1>1, PassingIs, FS_Subset, FS_CardinalityType
<1>3. invoked[minute] \in Nat
  BY DEF RateInv, CallsInv
<1>4. invoked'[minute'] + Cardinality(Passing') <= Allowed - 1 + Cardinality(Invokers)
  BY <1>2, <1>3, PassingIs, AllowedIs DEF RateInv, NoneCloser
<1> QED BY <1>4 DEF RateInv, NoneCloser

(* A request that passes the check found less than a quota, and no more    *)
(* requests wait to be counted than there are.                             *)
LEMMA RatePassed ==
  ASSUME TenantLimited, CallsInv, RateInv, UNCHANGED <<minute, invoked>>,
         NEW q \in Quotas, ~Over(invoked[minute], q.rpm)
  PROVE  RateInv'
<1>1. q.rpm <= Allowed /\ q.rpm > 0 /\ q.rpm \in Nat
  BY AllowedIs, CallConstants DEF TenantLimited
<1>2. invoked[minute] \in Nat
  BY DEF RateInv, CallsInv
<1>3. invoked[minute] <= Allowed - 1
  BY <1>1, <1>2, AllowedIs DEF Over
<1>4. Cardinality(Passing') \in Nat /\ Cardinality(Passing') <= Cardinality(Invokers)
  <2>1. Passing' \in SUBSET Invokers
    BY DEF Passing
  <2> QED BY <2>1, FS_Subset, FS_CardinalityType DEF TenantLimited
<1>5. invoked[minute] + Cardinality(Passing') <= Allowed - 1 + Cardinality(Invokers)
  BY <1>2, <1>3, <1>4, AllowedIs
<1> QED BY <1>5 DEF RateInv

LEMMA RateCounted ==
  ASSUME TenantLimited, CallsInv, RateInv, NEW i \in Invokers, RecordInvoke(i)
  PROVE  RateInv'
<1>1. /\ minute' = minute /\ invoked' = [invoked EXCEPT ![minute] = @ + 1]
      /\ inv[i].at = "record"
      /\ \A j \in Invokers : inv'[j].at \in Waiting => j # i /\ inv[j].at \in Waiting
  BY RecordInvokeKeeps
<1>2. i \in Passing /\ Passing' \in SUBSET (Passing \ {i})
  BY <1>1 DEF Passing, Waiting
<1>3. /\ IsFiniteSet(Passing \ {i})
      /\ Cardinality(Passing \ {i}) = Cardinality(Passing) - 1
  BY <1>2, PassingIs, FS_RemoveElement
<1>4. Cardinality(Passing') \in Nat /\ Cardinality(Passing') <= Cardinality(Passing) - 1
  BY <1>2, <1>3, FS_Subset, FS_CardinalityType
<1>5. invoked[minute] \in Nat /\ minute \in Minutes /\ invoked \in [Minutes -> Nat]
  BY DEF RateInv, CallsInv
<1>6. invoked'[minute] = invoked[minute] + 1
  BY <1>1, <1>5
<1>7. invoked'[minute'] + Cardinality(Passing') <= Allowed - 1 + Cardinality(Invokers)
  BY <1>1, <1>4, <1>5, <1>6, PassingIs, AllowedIs DEF RateInv
<1>8. invoked' \in [Minutes -> Nat]
  BY <1>1, <1>5
<1>9. \A t \in Minutes : t > minute' => invoked'[t] = 0
  BY <1>1, <1>5 DEF RateInv, Minutes
<1> QED BY <1>7, <1>8, <1>9 DEF RateInv

LEMMA RateForgotten ==
  ASSUME TenantLimited, CallsInv, GatewayRestart
  PROVE  RateInv'
<1>1. /\ minute' = minute /\ invoked' = [t \in Minutes |-> 0]
      /\ \A j \in Invokers : inv'[j].at \notin Waiting
  BY GatewayRestartKeeps
<1>2. Passing' = {}
  BY <1>1 DEF Passing
<1>3. minute \in Minutes
  BY DEF CallsInv
<1>4. invoked'[minute'] = 0 /\ Cardinality(Passing') = 0
  BY <1>1, <1>2, <1>3, FS_EmptySet
<1> QED BY <1>1, <1>4, AllowedIs DEF RateInv

LEMMA RateMinute ==
  ASSUME TenantLimited, CallsInv, RateInv, MinutePasses
  PROVE  RateInv'
<1>1. /\ minute' = minute + 1 /\ minute' \in Minutes /\ UNCHANGED <<invoked, inv>>
  BY MinutePassesKeeps
<1>2. minute \in Nat
  BY DEF CallsInv, Minutes
<1>3. invoked'[minute'] = 0
  BY <1>1, <1>2 DEF RateInv
<1>4. Passing' = Passing
  BY <1>1 DEF Passing
<1>5. \A t \in Minutes : t > minute' => invoked'[t] = 0
  BY <1>1, <1>2 DEF RateInv, Minutes
<1> QED BY <1>1, <1>3, <1>4, <1>5, PassingIs, AllowedIs DEF RateInv

(* A tenant's invocations of a minute exceed its quota by no more than the *)
(* requests there are (gateway/tenant_quotas.py check_invoke,              *)
(* record_invoke), for a tenant that is limited at all: a quota of 0 is no *)
(* limit.                                                                  *)
THEOREM TenantRatesBounded ==
  ASSUME TenantLimited
  PROVE  ToolCallsSpec => []TenantRateBounded
<1>1. ToolCallsInit => CallsInv /\ RateInv
  BY CallsInvStart, RateStarts
<1>2. CallsInv /\ RateInv /\ [ToolCallsNext]_toolVars => CallsInv' /\ RateInv'
  <2> SUFFICES ASSUME CallsInv, RateInv, [ToolCallsNext]_toolVars
               PROVE  CallsInv' /\ RateInv'
    OBVIOUS
  <2>1. CASE UNCHANGED toolVars
    <3>1. UNCHANGED <<minute, invoked, inv>>
      BY <2>1 DEF toolVars
    <3>2. NoneCloser
      BY <3>1 DEF NoneCloser
    <3> QED BY <2>1, <3>2, CallsInvIdle, RateKept
  <2>2. CASE ToolCallsNext
    <3>1. CallsInv'
      BY <2>2, CallsSteps
    <3>2. CASE NoneCloser
      BY <3>1, <3>2, RateKept
    <3>3. CASE UNCHANGED <<minute, invoked>> /\ \E q \in Quotas : ~Over(invoked[minute], q.rpm)
      BY <3>1, <3>3, RatePassed
    <3>4. CASE \E i \in Invokers : RecordInvoke(i)
      BY <3>1, <3>4, RateCounted
    <3>5. CASE GatewayRestart
      BY <3>1, <3>5, RateForgotten
    <3>6. CASE MinutePasses
      BY <3>1, <3>6, RateMinute
    <3> QED BY <2>2, <3>1, <3>2, <3>3, <3>4, <3>5, <3>6, CallsSteps
  <2> QED BY <2>1, <2>2
<1>3. CallsInv /\ RateInv => TenantRateBounded
  BY DEF RateInv, TenantRateBounded, Allowed, Passing, Waiting
<1> QED BY <1>1, <1>2, <1>3, PTL DEF ToolCallsSpec

--------------------------------------------------------------------------------
(***************************************************************************)
(* The caps of the agents.  Every row of the log is a new one, and what    *)
(* the last hour holds and what is ahead of it stay below the cap.         *)
(***************************************************************************)
(* Where the limits come from: a body of PUT /v1/limits or the defaults,   *)
(* and the defaults alone as long as nothing changed them.                 *)
Sources == Bodies \cup {Defaults}
Legal(l) == \A f \in Fields : \E b \in Sources : f \in DOMAIN b /\ l[f] = b[f]
Holding == {"bucket", "hour", "day"}
LimitsInv ==
  /\ changes \in Nat
  /\ \A a \in Agents : Legal(limits[a]) /\ (changes = 0 => limits[a] = Defaults)
  /\ \A i \in Invokers :
       /\ inv[i].at \in Holding \cup {"write"} => Legal(inv[i].limits)
       /\ inv[i].at \in Holding /\ changes = 0 => inv[i].limits = Defaults

(* Calls that are made and not yet in the log, and those of an agent that  *)
(* passed its hourly cap.                                                  *)
Owing == {i \in Invokers : inv[i].at \in {"store", "audit"}}
Ahead(a) == {i \in Invokers : inv[i].at \in PastHour /\ inv[i].by = a}
SameMinute(r) == {x \in spent : x.by = r.by /\ x.at = r.at}

LogInv ==
  /\ called \in Nat /\ llm \in Nat /\ unbilled \in Nat
  /\ IsFiniteSet(spent)
  /\ \A r \in spent : r \in [by : Callers, at : Minutes, n : Nat] /\ r.at <= minute
                      /\ r.n <= Cardinality(SameMinute(r))
  /\ called + llm = Cardinality(spent) + unbilled + Cardinality(Owing)

(* The rows of the last hour.                                              *)
InHour(a) == {r \in spent : r.by = a /\ r.at + Hour >= minute}
CapInv ==
  \A a \in Agents :
    Cardinality(InHour(a)) + Cardinality(Ahead(a))
      <= Cap("hour") - 1 + Cardinality(Invokers) + llm

Misfit(b, l) == b = NoBucket \/ b.rpm # l.rpm \/ b.burst # l.burst
(* Requests that hold limits the agent no longer has, and changes of its   *)
(* limits that have not yet dropped its bucket.                            *)
Outdated(a) ==
  {i \in Invokers : /\ inv[i].at = "bucket" /\ inv[i].by = a
                    /\ \/ inv[i].limits.rpm # limits[a].rpm
                       \/ inv[i].limits.burst # limits[a].burst}
Dropping(a) == {i \in Invokers : inv[i].at = "reset" /\ inv[i].by = a}

(* full buckets have been handed out, and there may be more.               *)
Handed(a, full) ==
  /\ full + 2 * Cardinality(Outdated(a)) + Cardinality(Dropping(a))
       + (IF Misfit(bucket[a], limits[a]) THEN 1 ELSE 0)
       <= 1 + changes * (2 + 2 * Cardinality(Invokers))
  /\ passed[a] <= Cap("burst") * full + Cap("rpm") * (minute - 1)
  /\ bucket[a] # NoBucket =>
       /\ bucket[a].last \in 1..minute
       /\ bucket[a].tokens <= bucket[a].burst
       /\ bucket[a].rpm <= Cap("rpm") /\ bucket[a].burst <= Cap("burst")
       /\ passed[a] + bucket[a].tokens
            <= Cap("burst") * full + Cap("rpm") * (bucket[a].last - 1)

Stepped(i, x) == x \in Invocations /\ inv' = [inv EXCEPT ![i] = x]
LimitsFit(i, x) ==
  /\ x.at \in Holding => \/ x.by \in Agents /\ x.limits = limits[x.by]
                         \/ inv[i].at \in Holding /\ x.limits = inv[i].limits
  /\ x.at = "write" => Legal(x.limits)

(* Steps of a request from inv[i] to x that leave the log and the calls    *)
(* alone, and those that leave buckets and limits alone.                   *)
NoCost(i, x) ==
  /\ Stepped(i, x) /\ LimitsFit(i, x)
  /\ UNCHANGED <<minute, limits, spent, changes, called, llm, unbilled>>
  /\ x.at \in {"store", "audit"} <=> inv[i].at \in {"store", "audit"}
  /\ x.at \in PastHour /\ x.by \in Agents => inv[i].at \in PastHour /\ inv[i].by = x.by
NoToken(i, x) ==
  /\ Stepped(i, x)
  /\ UNCHANGED <<minute, limits, bucket, passed, changes>>
  /\ x.at = "bucket" => x.limits = limits[x.by]
  /\ x.at # "reset"
Plain(i) == \E x : NoCost(i, x) /\ NoToken(i, x)

LEMMA PlainAnswer ==
  ASSUME CallsInv, NEW i \in Invokers, Answer(i), inv[i].at \notin {"store", "audit"},
         UNCHANGED <<minute, limits, bucket, spent, history>>
  PROVE  Plain(i)
<1>1. Stepped(i, Resting)
  BY RestingIs DEF Answer, Stepped
<1>2. NoCost(i, Resting) /\ NoToken(i, Resting)
  BY <1>1, RestingIs DEF NoCost, NoToken, LimitsFit, Holding, PastHour, history
<1> QED BY <1>2 DEF Plain

LEMMA PlainMove ==
  ASSUME CallsInv, NEW i \in Invokers, NEW x \in Checked \cup Costing \cup Called,
         inv' = [inv EXCEPT ![i] = x],
         UNCHANGED <<minute, limits, bucket, spent, history>>,
         x.at \in {"store", "audit"} <=> inv[i].at \in {"store", "audit"},
         x.by \in Agents => inv[i].at \in PastHour /\ inv[i].by = x.by
  PROVE  Plain(i)
<1>1. x \in Invocations /\ x.at \notin Holding \cup {"write", "reset"}
  BY InvHas DEF Invocations, Holding
<1>2. NoCost(i, x) /\ NoToken(i, x)
  BY <1>1 DEF NoCost, NoToken, LimitsFit, Holding, history, Stepped
<1> QED BY <1>2 DEF Plain

LEMMA PlainSteps ==
  ASSUME CallsInv, LimitsInv, NEW i \in Invokers,
         \/ \E c \in Callers : InvokeStart(i, c)
         \/ ReadLimits(i) \/ CheckDay(i) \/ CheckTenantRpm(i) \/ CheckTenantCost(i)
         \/ RecordInvoke(i) \/ GetTool(i) \/ Lookup(i) \/ StoreResult(i)
         \/ DeleteTool(i) \/ ClearCache(i)
         \/ \E a \in Agents : DeleteLimits(i, a) \/ \E b \in Bodies : SetLimitsRead(i, a, b)
  PROVE  Plain(i)
<1>1. ASSUME NEW c \in Callers, InvokeStart(i, c) PROVE Plain(i)
  <2>1. /\ inv[i].at = "none"
        /\ inv' = [inv EXCEPT ![i] = [at |-> IF c = Anonymous THEN "rpm" ELSE "limits", by |-> c]]
        /\ UNCHANGED <<minute, limits, bucket, spent, history>>
    BY <1>1 DEF InvokeStart, At
  <2>2. CASE c = Anonymous
    <3>1. [at |-> "rpm", by |-> c] \in Checked /\ c \notin Agents
      BY <2>2, ToolCallAssumption DEF Checked
    <3> QED BY <2>1, <2>2, <3>1, PlainMove
  <2>3. CASE c # Anonymous
    <3> DEFINE x == [at |-> "limits", by |-> c]
    <3>1. x \in Admitting /\ x.at = "limits"
      BY <2>3 DEF Admitting, Callers
    <3>2. x \in Invocations
      BY <3>1 DEF Invocations
    <3>3. inv' = [inv EXCEPT ![i] = x]
      BY <2>1, <2>3
    <3> HIDE DEF x
    <3>4. NoCost(i, x) /\ NoToken(i, x)
      BY <2>1, <3>1, <3>2, <3>3
         DEF NoCost, NoToken, LimitsFit, Holding, PastHour, history, Stepped
    <3> QED BY <3>4 DEF Plain
  <2> QED BY <2>2, <2>3
<1>2. ASSUME ReadLimits(i) PROVE Plain(i)
  <2>1. PICK at \in {"bucket", "hour"} :
          /\ inv[i].at \in {"limits", "caps"}
          /\ inv' = [inv EXCEPT ![i] =
               [at |-> at, by |-> inv[i].by, limits |-> limits[inv[i].by]]]
    BY <1>2 DEF ReadLimits, At
  <2>2. UNCHANGED <<minute, limits, bucket, spent, history>>
    BY <1>2 DEF ReadLimits
  <2>3. inv[i].by \in Agents
    BY <2>1, InvIs, InvHas DEF CallsInv
  <2> DEFINE x == [at |-> at, by |-> inv[i].by, limits |-> limits[inv[i].by]]
  <2>4. x \in Limited /\ x.at = at /\ x.by = inv[i].by /\ x.limits = limits[x.by]
    BY <2>3 DEF Limited, CallsInv
  <2>5. x \in Invocations
    BY <2>4 DEF Invocations
  <2>6. inv' = [inv EXCEPT ![i] = x]
    BY <2>1
  <2> HIDE DEF x
  <2>7. NoCost(i, x) /\ NoToken(i, x)
    BY <2>1, <2>2, <2>3, <2>4, <2>5, <2>6
       DEF NoCost, NoToken, LimitsFit, Holding, PastHour, history, Stepped
  <2> QED BY <2>7 DEF Plain
<1>3. ASSUME CheckDay(i) PROVE Plain(i)
  <2> DEFINE x == [at |-> "rpm", by |-> inv[i].by]
  <2>1. /\ inv[i].at = "day" /\ (Answer(i) \/ inv' = [inv EXCEPT ![i] = x])
        /\ UNCHANGED <<minute, limits, bucket, spent, history>>
    BY <1>3 DEF CheckDay, At
  <2>2. inv[i].by \in Callers /\ x \in Checked /\ x.at = "rpm" /\ x.by = inv[i].by
    BY <2>1, InvIs, InvHas, CallConstants DEF CallsInv, Checked
  <2> HIDE DEF x
  <2> QED BY <2>1, <2>2, PlainAnswer, PlainMove DEF PastHour
<1>4. ASSUME CheckTenantRpm(i) PROVE Plain(i)
  <2>1. PICK q \in Quotas :
          \/ Answer(i)
          \/ inv' = [inv EXCEPT ![i] = [at |-> "cost", by |-> inv[i].by, day |-> q.day]]
    BY <1>4 DEF CheckTenantRpm
  <2> DEFINE x == [at |-> "cost", by |-> inv[i].by, day |-> q.day]
  <2>2. inv[i].at = "rpm" /\ UNCHANGED <<minute, limits, bucket, spent, history>>
    BY <1>4 DEF CheckTenantRpm, At
  <2>3. x \in Costing /\ x.at = "cost" /\ x.by = inv[i].by
    BY <2>2, InvIs, InvHas, CallConstants DEF CallsInv, Costing
  <2>4. Answer(i) \/ inv' = [inv EXCEPT ![i] = x]
    BY <2>1
  <2> HIDE DEF x
  <2> QED BY <2>2, <2>3, <2>4, PlainAnswer, PlainMove DEF PastHour
<1>5. ASSUME CheckTenantCost(i) PROVE Plain(i)
  <2> DEFINE x == [at |-> "record", by |-> inv[i].by]
  <2>1. /\ inv[i].at = "cost" /\ (Answer(i) \/ inv' = [inv EXCEPT ![i] = x])
        /\ UNCHANGED <<minute, limits, bucket, spent, history>>
    BY <1>5 DEF CheckTenantCost, At
  <2>2. x \in Checked /\ x.at = "record" /\ x.by = inv[i].by
    BY <2>1, InvIs, InvHas DEF CallsInv, Checked
  <2> HIDE DEF x
  <2> QED BY <2>1, <2>2, PlainAnswer, PlainMove DEF PastHour
<1>6. ASSUME RecordInvoke(i) PROVE Plain(i)
  <2>1. /\ inv[i].at = "record" /\ Goto(i, "tool")
        /\ UNCHANGED <<minute, limits, bucket, spent, history>>
    BY <1>6 DEF RecordInvoke, At
  <2>2. PICK x \in Checked : /\ x.at = "tool" /\ x.by = inv[i].by
                             /\ inv' = [inv EXCEPT ![i] = x]
    BY <2>1, InvIs, MovedOn DEF CallsInv
  <2> QED BY <2>1, <2>2, PlainMove DEF PastHour
<1>7. ASSUME GetTool(i) PROVE Plain(i)
  <2>1. inv[i].at = "tool" /\ UNCHANGED <<minute, limits, bucket, spent, history>>
    BY <1>7 DEF GetTool, At
  <2>2. CASE tool = 0
    BY <1>7, <2>1, <2>2, PlainAnswer DEF GetTool
  <2>3. CASE tool # 0
    <3>1. PICK cached \in {CacheFor > 0, FALSE} :
            inv' = [inv EXCEPT ![i] =
              [at |-> IF cached THEN "lookup" ELSE "call",
               by |-> inv[i].by, tool |-> tool, cached |-> cached]]
      BY <1>7, <2>3 DEF GetTool
    <3> DEFINE x == [at |-> IF cached THEN "lookup" ELSE "call",
                     by |-> inv[i].by, tool |-> tool, cached |-> cached]
    <3>2. inv[i].by \in Callers
      BY <2>1, InvIs, InvHas DEF CallsInv
    <3>3. x \in Called /\ x.at \in {"lookup", "call"} /\ x.by = inv[i].by
      BY <3>1, <3>2 DEF Called, CallsInv
    <3>4. inv' = [inv EXCEPT ![i] = x]
      BY <3>1
    <3> HIDE DEF x
    <3> QED BY <2>1, <3>3, <3>4, PlainMove DEF PastHour
  <2> QED BY <2>2, <2>3
<1>8. ASSUME Lookup(i) PROVE Plain(i)
  <2>1. /\ inv[i].at = "lookup" /\ (Answer(i) \/ Goto(i, "call"))
        /\ UNCHANGED <<minute, limits, bucket, spent, history>>
    BY <1>8 DEF Lookup, At
  <2>2. CASE Answer(i)
    BY <2>1, <2>2, PlainAnswer
  <2>3. CASE Goto(i, "call")
    <3>1. PICK x \in Called : /\ x.at = "call" /\ x.by = inv[i].by
                              /\ inv' = [inv EXCEPT ![i] = x]
      BY <2>1, <2>3, InvIs, MovedOn DEF CallsInv
    <3> QED BY <2>1, <3>1, PlainMove DEF PastHour
  <2> QED BY <2>1, <2>2, <2>3
<1>9. ASSUME StoreResult(i) PROVE Plain(i)
  <2>1. /\ inv[i].at = "store" /\ Goto(i, "audit")
        /\ UNCHANGED <<minute, limits, bucket, spent, history>>
    BY <1>9 DEF StoreResult, At
  <2>2. PICK x \in Called : /\ x.at = "audit" /\ x.by = inv[i].by
                            /\ inv' = [inv EXCEPT ![i] = x]
    BY <2>1, InvIs, MovedOn DEF CallsInv
  <2> QED BY <2>1, <2>2, PlainMove DEF PastHour
<1>10. ASSUME DeleteTool(i) PROVE Plain(i)
  <2> DEFINE x == [at |-> "clear"]
  <2>1. /\ inv[i].at = "none" /\ inv' = [inv EXCEPT ![i] = x]
        /\ UNCHANGED <<minute, limits, bucket, spent, passed, changes, called, llm, unbilled>>
    BY <1>10 DEF DeleteTool, At
  <2>2. x \in Invocations /\ x.at = "clear"
    BY DEF Invocations, Clearing
  <2> HIDE DEF x
  <2>3. NoCost(i, x) /\ NoToken(i, x)
    BY <2>1, <2>2 DEF NoCost, NoToken, LimitsFit, Holding, PastHour, Stepped
  <2> QED BY <2>3 DEF Plain
<1>11. ASSUME ClearCache(i) PROVE Plain(i)
  <2>1. /\ inv[i].at = "clear" /\ Answer(i)
        /\ UNCHANGED <<minute, limits, bucket, spent, history>>
    BY <1>11 DEF ClearCache, At
  <2> QED BY <2>1, PlainAnswer
<1>12. ASSUME NEW a \in Agents, NEW l, l \in LimitRows, Legal(l), inv[i].at = "none",
              inv' = [inv EXCEPT ![i] = [at |-> "write", by |-> a, limits |-> l]],
              UNCHANGED <<minute, limits, bucket, spent, history>>
       PROVE  Plain(i)
  <2> DEFINE x == [at |-> "write", by |-> a, limits |-> l]
  <2>1. x \in Limited /\ x.at = "write" /\ x.limits = l
    BY <1>12 DEF Limited
  <2>2. x \in Invocations
    BY <2>1 DEF Invocations
  <2>3. inv' = [inv EXCEPT ![i] = x]
    BY <1>12
  <2> HIDE DEF x
  <2>4. NoCost(i, x) /\ NoToken(i, x)
    BY <1>12, <2>1, <2>2, <2>3
       DEF NoCost, NoToken, LimitsFit, Holding, PastHour, history, Stepped
  <2> QED BY <2>4 DEF Plain
<1>13. ASSUME NEW a \in Agents, DeleteLimits(i, a) PROVE Plain(i)
  <2>1. Legal(Defaults)
    BY CallConstants DEF Legal, Sources, LimitRows
  <2> QED BY <1>12, <1>13, <2>1, CallConstants DEF DeleteLimits, At
<1>14. ASSUME NEW a \in Agents, NEW b \in Bodies, SetLimitsRead(i, a, b) PROVE Plain(i)
  <2>1. limits[a] \in LimitRows /\ Legal(limits[a])
    BY DEF CallsInv, LimitRows, LimitsInv
  <2>2. b \in [DOMAIN b -> Nat] /\ DOMAIN b \subseteq Fields
    BY CallConstants
  <2>3. Given(b, limits[a]) \in LimitRows
    BY <2>1, <2>2 DEF Given, LimitRows
  <2>4. Legal(Given(b, limits[a]))
    BY <2>1 DEF Given, Legal, Sources
  <2> QED BY <1>12, <1>14, <2>3, <2>4 DEF SetLimitsRead, At
<1> QED BY <1>1, <1>2, <1>3, <1>4, <1>5, <1>6, <1>7, <1>8, <1>9, <1>10, <1>11, <1>13, <1>14

(* Every limit an agent can have has an hourly cap: 0 is none.             *)
AgentsCapped == /\ IsFiniteSet(Bodies) /\ IsFiniteSet(Invokers)
                /\ \A b \in Sources : "hour" \in DOMAIN b => b["hour"] > 0

(* The largest value a limit may have had bounds every limit, and grows    *)
(* with the changes.                                                       *)
LEMMA CapIs ==
  ASSUME CallsInv, LimitsInv, IsFiniteSet(Bodies), NEW f \in Fields
  PROVE  /\ Cap(f) \in Nat
         /\ \A l : Legal(l) /\ (changes = 0 => l = Defaults) => l[f] <= Cap(f)
         /\ changes' \in Nat /\ changes' >= changes => Cap(f) <= Cap(f)' /\ Cap(f)' \in Nat
<1> DEFINE T == {b \in Sources : f \in DOMAIN b}
           S == {b[f] : b \in T}
           g == [b \in T |-> b[f]]
<1>1. \A b \in T : b[f] \in Nat
  BY CallConstants DEF Sources
<1>2. Defaults \in T /\ Defaults[f] \in S /\ Defaults[f] \in Nat
  BY CallConstants DEF Sources, LimitRows
<1>3. g \in Surjection(T, S)
  BY DEF Surjection
<1>4. IsFiniteSet(T)
  <2>1. IsFiniteSet(Sources)
    BY FS_AddElement DEF Sources
  <2> QED BY <2>1, FS_Subset
<1>5. IsFiniteSet(S)
  BY <1>3, <1>4, FS_Surjection
<1> HIDE DEF g
<1>6. S \in SUBSET Nat /\ S # {}
  BY <1>1, <1>2
<1>7. Max(S) \in S /\ \A n \in S : n <= Max(S)
  BY <1>5, <1>6, MaxIs
<1>8. Cap(f) = IF changes = 0 THEN Defaults[f] ELSE Max(S)
  BY DEF Cap, Sources
<1>9. Cap(f)' = IF changes' = 0 THEN Defaults[f] ELSE Max(S)
  BY DEF Cap, Sources
<1>10. \A l : Legal(l) => l[f] \in S
  BY DEF Legal
<1>11. Max(S) \in Nat /\ Defaults[f] <= Max(S)
  BY <1>2, <1>6, <1>7
<1> HIDE DEF S, T
<1>12. changes \in Nat
  BY DEF LimitsInv
<1>13. Cap(f) \in Nat
  BY <1>2, <1>8, <1>11
<1>14. \A l : Legal(l) /\ (changes = 0 => l = Defaults) => l[f] <= Cap(f)
  BY <1>2, <1>7, <1>8, <1>10
<1>15. changes' \in Nat /\ changes' >= changes => Cap(f) <= Cap(f)' /\ Cap(f)' \in Nat
  BY <1>2, <1>8, <1>9, <1>11, <1>12
<1> QED BY <1>13, <1>14, <1>15

LEMMA OwingIs ==
  ASSUME IsFiniteSet(Invokers), NEW a
  PROVE  /\ IsFiniteSet(Owing) /\ IsFiniteSet(Ahead(a)) /\ Cardinality(Invokers) \in Nat
         /\ Cardinality(Owing) \in Nat /\ Cardinality(Ahead(a)) \in Nat
         /\ Cardinality(Ahead(a)) <= Cardinality(Invokers)
<1>1. Owing \in SUBSET Invokers /\ Ahead(a) \in SUBSET Invokers
  BY DEF Owing, Ahead
<1> QED BY <1>1, FS_Subset, FS_CardinalityType

LEMMA OwingIsNext ==
  ASSUME IsFiniteSet(Invokers), NEW a
  PROVE  /\ IsFiniteSet(Owing') /\ IsFiniteSet(Ahead(a)')
         /\ Cardinality(Owing') \in Nat /\ Cardinality(Ahead(a)') \in Nat
         /\ Cardinality(Ahead(a)') <= Cardinality(Invokers)
<1>1. Owing' \in SUBSET Invokers /\ Ahead(a)' \in SUBSET Invokers
  BY DEF Owing, Ahead
<1> QED BY <1>1, FS_Subset, FS_CardinalityType

LEMMA InHourIs ==
  ASSUME LogInv, NEW a
  PROVE  /\ IsFiniteSet(InHour(a)) /\ Cardinality(InHour(a)) \in Nat
         /\ Within(SpentBy(a), Hour) = Cardinality(InHour(a))
         /\ HourSpent(a) = Cardinality(InHour(a))
<1>1. InHour(a) \in SUBSET spent
  BY DEF InHour
<1>2. InHour(a) = {r \in SpentBy(a) : r.at <= minute /\ r.at + Hour >= minute}
  BY DEF LogInv, InHour, SpentBy
<1> QED BY <1>1, <1>2, FS_Subset, FS_CardinalityType DEF LogInv, HourSpent, Within

(* A row that is added is a new one.                                       *)
LEMMA RowAdded ==
  ASSUME CallsInv, LogInv, NEW c \in Callers, minute' = minute, spent' = Billed(c)
  PROVE  \E row : /\ row.by = c /\ row.at = minute /\ row \notin spent
                  /\ spent' = spent \cup {row}
                  /\ IsFiniteSet(spent') /\ Cardinality(spent') = Cardinality(spent) + 1
                  /\ \A r \in spent' : /\ r \in [by : Callers, at : Minutes, n : Nat]
                                       /\ r.at <= minute
                                       /\ r.n <= Cardinality(SameMinute(r)')
<1>1. PICK n : n = Cardinality(SpentNow(c)) + 1
  OBVIOUS
<1>2. PICK row : row = [by |-> c, at |-> minute, n |-> n]
  OBVIOUS
<1>3. SpentNow(c) = SameMinute(row) /\ SpentNow(c) \in SUBSET spent
  BY <1>2 DEF SpentNow, SpentBy, SameMinute
<1>4. IsFiniteSet(SpentNow(c)) /\ Cardinality(SpentNow(c)) \in Nat
  BY <1>3, FS_Subset, FS_CardinalityType DEF LogInv
<1>5. minute \in Minutes /\ minute \in Nat
  BY DEF CallsInv, Minutes
<1>6. row \in [by : Callers, at : Minutes, n : Nat] /\ row.by = c /\ row.at = minute /\ row.n = n
  BY <1>1, <1>2, <1>4, <1>5
<1>7. row \notin spent
  BY <1>1, <1>3, <1>4, <1>6 DEF LogInv
<1>8. spent' = spent \cup {row}
  BY <1>1, <1>2 DEF Billed
<1>9. IsFiniteSet(spent') /\ Cardinality(spent') = Cardinality(spent) + 1
  BY <1>7, <1>8, FS_AddElement DEF LogInv
<1>10. SameMinute(row)' = SameMinute(row) \cup {row}
  BY <1>6, <1>8 DEF SameMinute
<1>11. row.n <= Cardinality(SameMinute(row)')
  <2>1. row \notin SameMinute(row)
    BY <1>7 DEF SameMinute
  <2>2. Cardinality(SameMinute(row)') = n
    BY <1>1, <1>3, <1>4, <1>10, <2>1, FS_AddElement
  <2> QED BY <1>1, <1>4, <1>6, <2>2
<1>12. ASSUME NEW r \in spent
       PROVE  r.n <= Cardinality(SameMinute(r)')
  <2>1. SameMinute(r) \in SUBSET SameMinute(r)'
    BY <1>8 DEF SameMinute
  <2>2. SameMinute(r)' \in SUBSET spent'
    BY DEF SameMinute
  <2>3. IsFiniteSet(SameMinute(r)') /\ Cardinality(SameMinute(r)') \in Nat
    BY <1>9, <2>2, FS_Subset, FS_CardinalityType
  <2>4. Cardinality(SameMinute(r)) <= Cardinality(SameMinute(r)')
        /\ Cardinality(SameMinute(r)) \in Nat
    BY <2>1, <2>3, FS_Subset, FS_CardinalityType
  <2>5. r.n \in Nat /\ r.n <= Cardinality(SameMinute(r))
    BY DEF LogInv
  <2> QED BY <2>3, <2>4, <2>5
<1>13. \A r \in spent' : /\ r \in [by : Callers, at : Minutes, n : Nat]
                         /\ r.at <= minute
                         /\ r.n <= Cardinality(SameMinute(r)')
  BY <1>5, <1>6, <1>8, <1>11, <1>12 DEF LogInv
<1> QED BY <1>6, <1>7, <1>8, <1>9, <1>13

Behind == \A a \in Agents : Ahead(a)' \subseteq Ahead(a)

LEMMA LimitsMoved ==
  ASSUME CallsInv, LimitsInv, NEW i \in Invokers, NEW x, Stepped(i, x), LimitsFit(i, x),
         UNCHANGED <<limits, changes>>
  PROVE  LimitsInv'
<1>1. \A j \in Invokers : inv'[j] = IF j = i THEN x ELSE inv[j]
  BY InvMoves DEF CallsInv, Stepped
<1>2. x.at \in Holding \cup {"write"} => Legal(x.limits)
  BY DEF LimitsInv, LimitsFit
<1>3. x.at \in Holding /\ changes = 0 => x.limits = Defaults
  BY DEF LimitsInv, LimitsFit
<1> QED BY <1>1, <1>2, <1>3 DEF LimitsInv

LEMMA LogKept ==
  ASSUME LogInv, CallsInv, CallsInv', UNCHANGED spent, minute' >= minute,
         called' \in Nat, llm' \in Nat, unbilled' \in Nat,
         called' + llm' = Cardinality(spent) + unbilled' + Cardinality(Owing')
  PROVE  LogInv'
<1>1. minute \in Nat /\ minute' \in Nat
  BY DEF CallsInv, Minutes
<1>2. \A r : SameMinute(r)' = SameMinute(r)
  BY DEF SameMinute
<1>3. \A r \in spent : r.at \in Nat
  BY DEF LogInv, Minutes
<1> QED BY <1>1, <1>2, <1>3 DEF LogInv

(* The cap of an agent holds when its requests ahead and its rows of the   *)
(* hour become no more.                                                    *)
LEMMA CapKept ==
  ASSUME AgentsCapped, CallsInv, LimitsInv, LogInv, CapInv, Behind,
         \A a \in Agents : InHour(a)' \subseteq InHour(a),
         llm' \in Nat, llm' >= llm, changes' \in Nat, changes' >= changes
  PROVE  CapInv'
<1> SUFFICES ASSUME NEW a \in Agents
             PROVE  Cardinality(InHour(a)') + Cardinality(Ahead(a)')
                      <= Cap("hour")' - 1 + Cardinality(Invokers) + llm'
  BY DEF CapInv
<1>1. Cardinality(InHour(a)') \in Nat /\ Cardinality(InHour(a)') <= Cardinality(InHour(a))
  BY InHourIs, FS_Subset, FS_CardinalityType
<1>2. Cardinality(Ahead(a)') \in Nat /\ Cardinality(Ahead(a)') <= Cardinality(Ahead(a))
  BY OwingIs, FS_Subset, FS_CardinalityType DEF Behind, AgentsCapped
<1>3. Cap("hour") \in Nat /\ Cap("hour") <= Cap("hour")' /\ Cap("hour")' \in Nat
  BY CapIs DEF AgentsCapped, Fields
<1>4. Cardinality(InHour(a)) + Cardinality(Ahead(a))
        <= Cap("hour") - 1 + Cardinality(Invokers) + llm
  BY DEF CapInv
<1> QED BY <1>1, <1>2, <1>3, <1>4, InHourIs, OwingIs DEF AgentsCapped, LogInv

LEMMA FreeMove ==
  ASSUME CallsInv, CallsInv', LimitsInv, LogInv, NEW i \in Invokers, NEW x, NoCost(i, x)
  PROVE  /\ LimitsInv' /\ LogInv'
         /\ AgentsCapped /\ CapInv => CapInv'
<1>1. \A j \in Invokers : inv'[j] = IF j = i THEN x ELSE inv[j]
  BY InvMoves DEF CallsInv, Stepped, NoCost
<1>2. LimitsInv'
  BY LimitsMoved DEF NoCost
<1>3. Owing' = Owing
  BY <1>1 DEF Owing, NoCost
<1>4. LogInv'
  <2>1. minute' >= minute
    BY DEF NoCost, CallsInv, Minutes
  <2> QED BY <1>3, <2>1, LogKept DEF NoCost, LogInv
<1>5. Behind /\ \A a \in Agents : InHour(a)' \subseteq InHour(a)
  <2>1. \A a \in Agents : Ahead(a)' \subseteq Ahead(a)
    BY <1>1 DEF Ahead, NoCost
  <2> QED BY <2>1 DEF Behind, InHour, NoCost
<1>6. llm' \in Nat /\ llm' >= llm /\ changes' \in Nat /\ changes' >= changes
  BY DEF NoCost, LogInv, LimitsInv
<1> QED BY <1>2, <1>4, <1>5, <1>6, CapKept

LEMMA StillKeeps ==
  ASSUME CallsInv, CallsInv', LimitsInv, LogInv,
         UNCHANGED <<limits, spent, changes, called, llm, unbilled, inv>>, minute' >= minute
  PROVE  /\ LimitsInv' /\ LogInv'
         /\ AgentsCapped /\ CapInv => CapInv'
<1>1. LimitsInv'
  BY DEF LimitsInv
<1>2. Owing' = Owing
  BY DEF Owing
<1>3. LogInv'
  BY <1>2, LogKept DEF LogInv
<1>4. Behind /\ \A a \in Agents : InHour(a)' \subseteq InHour(a)
  <2>1. \A a \in Agents : Ahead(a)' \subseteq Ahead(a)
    BY DEF Ahead
  <2>2. minute \in Nat /\ minute' \in Nat /\ Hour \in Nat /\ \A r \in spent : r.at \in Nat
    BY ToolCallAssumption DEF CallsInv, Minutes, LogInv
  <2>3. \A a \in Agents : InHour(a)' \subseteq InHour(a)
    BY <2>2 DEF InHour
  <2> QED BY <2>1, <2>3 DEF Behind
<1>5. llm' \in Nat /\ llm' >= llm /\ changes' \in Nat /\ changes' >= changes
  BY DEF LogInv, LimitsInv
<1> QED BY <1>1, <1>3, <1>4, <1>5, CapKept

LEMMA TokenIsFree ==
  ASSUME CallsInv, NEW i \in Invokers, TakeToken(i) \/ ResetBucket(i)
  PROVE  \E x : NoCost(i, x) /\ x.at \in {"none", "caps"}
                /\ (TakeToken(i) /\ x.at = "caps" => x.by = inv[i].by)
<1> DEFINE x == [at |-> "caps", by |-> inv[i].by]
<1>1. /\ inv[i].at \in {"bucket", "reset"}
      /\ UNCHANGED <<minute, limits, spent, changes, called, llm, unbilled>>
  BY DEF TakeToken, ResetBucket, At, history
<1>2. inv[i].by \in Agents
  BY <1>1, InvIs, InvHas DEF CallsInv
<1>3. x \in Admitting /\ x.at = "caps" /\ x.by = inv[i].by
  BY <1>2 DEF Admitting
<1>4. x \in Invocations
  BY <1>3 DEF Invocations
<1>5. Answer(i) \/ inv' = [inv EXCEPT ![i] = x]
  BY DEF TakeToken, ResetBucket
<1> HIDE DEF x
<1>6. CASE Answer(i)
  <2>1. NoCost(i, Resting)
    BY <1>1, <1>6, RestingIs DEF NoCost, Stepped, LimitsFit, Holding, PastHour, Answer
  <2> QED BY <2>1, RestingIs
<1>7. CASE inv' = [inv EXCEPT ![i] = x]
  <2>1. NoCost(i, x)
    BY <1>1, <1>3, <1>4, <1>7 DEF NoCost, Stepped, LimitsFit, Holding, PastHour
  <2> QED BY <1>3, <2>1
<1> QED BY <1>5, <1>6, <1>7

(* A request that passes its hourly cap found less than the cap.           *)
LEMMA HourChecked ==
  ASSUME CallsInv, CallsInv', LimitsInv, LogInv, NEW i \in Invokers, CheckHour(i)
  PROVE  /\ LimitsInv' /\ LogInv'
         /\ AgentsCapped /\ CapInv => CapInv'
<1>1. /\ inv[i].at = "hour"
      /\ UNCHANGED <<minute, limits, bucket, spent, passed, changes, called, llm, unbilled>>
      /\ IF Over(HourSpent(inv[i].by), inv[i].limits.hour) THEN Answer(i) ELSE Goto(i, "day")
  BY DEF CheckHour, At, history
<1>2. CASE Answer(i)
  <2>1. NoCost(i, Resting)
    BY <1>1, <1>2, RestingIs DEF NoCost, Stepped, LimitsFit, Holding, PastHour, Answer
  <2> QED BY <2>1, FreeMove
<1>3. CASE Goto(i, "day") /\ ~Over(HourSpent(inv[i].by), inv[i].limits.hour)
  <2> DEFINE x == [inv[i] EXCEPT !.at = "day"]
  <2>1. inv[i] \in Limited
    BY <1>1, InvIs DEF CallsInv
  <2>2. x \in Limited /\ x.at = "day" /\ x.limits = inv[i].limits /\ x.by = inv[i].by
    BY <2>1 DEF Limited
  <2>3. x \in Invocations /\ inv' = [inv EXCEPT ![i] = x]
    BY <1>3, <2>2 DEF Invocations, Goto
  <2> HIDE DEF x
  <2>4. \A j \in Invokers : inv'[j] = IF j = i THEN x ELSE inv[j]
    BY <2>3, InvMoves DEF CallsInv
  <2>5. Stepped(i, x) /\ LimitsFit(i, x)
    BY <1>1, <2>2, <2>3 DEF Stepped, LimitsFit, Holding
  <2>6. LimitsInv'
    BY <1>1, <2>5, LimitsMoved
  <2>7. Owing' = Owing
    BY <1>1, <2>2, <2>4 DEF Owing
  <2>8. LogInv'
    <3>1. minute' >= minute
      BY <1>1 DEF CallsInv, Minutes
    <3> QED BY <1>1, <2>7, <3>1, LogKept DEF LogInv
  <2>9. ASSUME AgentsCapped, CapInv PROVE CapInv'
    <3> SUFFICES ASSUME NEW a \in Agents
                 PROVE  Cardinality(InHour(a)') + Cardinality(Ahead(a)')
                          <= Cap("hour")' - 1 + Cardinality(Invokers) + llm'
      BY DEF CapInv
    <3>1. InHour(a)' = InHour(a) /\ Cap("hour")' = Cap("hour")
      BY <1>1 DEF InHour, Cap
    <3>2. Cap("hour") \in Nat
      BY <2>9, CapIs DEF AgentsCapped, Fields
    <3>3. CASE a = inv[i].by
      <4>1. inv[i].limits.hour <= Cap("hour")
        BY <1>1, <2>9, CapIs DEF AgentsCapped, Fields, LimitsInv, Holding
      <4>2. inv[i].limits.hour > 0 /\ inv[i].limits.hour \in Nat
        <5>1. PICK b \in Sources : "hour" \in DOMAIN b /\ inv[i].limits["hour"] = b["hour"]
          BY <1>1 DEF LimitsInv, Holding, Legal, Fields
        <5>2. inv[i].limits["hour"] \in Nat
          BY <2>1 DEF Limited, LimitRows, Fields
        <5> QED BY <2>9, <5>1, <5>2 DEF AgentsCapped
      <4>3. Cardinality(InHour(a)) < inv[i].limits.hour
        BY <1>3, <3>3, <4>2, InHourIs DEF Over
      <4>4. /\ Cardinality(Ahead(a)') \in Nat /\ Cardinality(Ahead(a)') <= Cardinality(Invokers)
            /\ Cardinality(Invokers) \in Nat
        BY <2>9, OwingIs, OwingIsNext DEF AgentsCapped
      <4>5. Cardinality(InHour(a)) \in Nat /\ llm' = llm /\ llm \in Nat
        BY <1>1, InHourIs DEF LogInv
      <4> QED BY <3>1, <3>2, <4>1, <4>2, <4>3, <4>4, <4>5
    <3>4. CASE a # inv[i].by
      <4>1. Ahead(a)' = Ahead(a)
        BY <2>2, <2>4, <3>4 DEF Ahead
      <4> QED BY <1>1, <2>9, <3>1, <4>1 DEF CapInv
    <3> QED BY <3>3, <3>4
  <2> QED BY <2>6, <2>8, <2>9
<1> QED BY <1>1, <1>2, <1>3

LEMMA AtMostOneMore ==
  ASSUME NEW S, IsFiniteSet(S), NEW x, NEW T \in SUBSET (S \cup {x})
  PROVE  Cardinality(T) \in Nat /\ Cardinality(T) <= Cardinality(S) + 1
<1>1. IsFiniteSet(S \cup {x}) /\ Cardinality(S) \in Nat
  BY FS_AddElement, FS_CardinalityType
<1>2. Cardinality(S \cup {x}) <= Cardinality(S) + 1
  <2>1. CASE x \in S
    BY <1>1, <2>1, FS_AddElement
  <2>2. CASE x \notin S
    BY <1>1, <2>2, FS_AddElement
  <2> QED BY <2>1, <2>2
<1>3. IsFiniteSet(T) /\ Cardinality(T) <= Cardinality(S \cup {x})
  BY <1>1, FS_Subset
<1> QED BY <1>1, <1>2, <1>3, FS_CardinalityType

LEMMA CallMade ==
  ASSUME IsFiniteSet(Invokers), CallsInv, CallsInv', LimitsInv, LogInv,
         NEW i \in Invokers, CallTool(i)
  PROVE  /\ LimitsInv' /\ LogInv'
         /\ AgentsCapped /\ CapInv => CapInv'
<1>1. /\ inv[i].at = "call" /\ called' = called + 1
      /\ UNCHANGED <<minute, limits, bucket, spent, passed, changes, llm, unbilled>>
  BY DEF CallTool, At
<1>2. PICK at \in {"store", "audit"} : Goto(i, at)
  BY DEF CallTool
<1>3. PICK x \in Called : /\ x.at = at /\ x.by = inv[i].by /\ x \in Invocations
                          /\ inv' = [inv EXCEPT ![i] = x]
  BY <1>1, <1>2, InvIs, MovedOn DEF CallsInv
<1>4. \A j \in Invokers : inv'[j] = IF j = i THEN x ELSE inv[j]
  BY <1>3, InvMoves DEF CallsInv
<1>5. LimitsInv'
  BY <1>1, <1>2, <1>3, LimitsMoved DEF Stepped, LimitsFit, Holding
<1>6. Owing' = Owing \cup {i} /\ i \notin Owing
  BY <1>1, <1>2, <1>3, <1>4 DEF Owing
<1>7. Cardinality(Owing') = Cardinality(Owing) + 1
  BY <1>6, OwingIs, FS_AddElement
<1>8. LogInv'
  <2>1. minute' >= minute
    BY <1>1 DEF CallsInv, Minutes
  <2>2. Cardinality(spent) \in Nat /\ Cardinality(Owing) \in Nat
    BY OwingIs, FS_CardinalityType DEF LogInv
  <2>3. called' + llm' = Cardinality(spent) + unbilled' + Cardinality(Owing')
    BY <1>1, <1>7, <2>2 DEF LogInv
  <2> QED BY <1>1, <2>1, <2>3, LogKept DEF LogInv
<1>9. Behind /\ \A a \in Agents : InHour(a)' \subseteq InHour(a)
  <2>1. \A a \in Agents : Ahead(a)' \subseteq Ahead(a)
    BY <1>1, <1>3, <1>4 DEF Ahead, PastHour
  <2> QED BY <1>1, <2>1 DEF Behind, InHour
<1>10. llm' \in Nat /\ llm' >= llm /\ changes' \in Nat /\ changes' >= changes
  BY <1>1 DEF LogInv, LimitsInv
<1> QED BY <1>5, <1>8, <1>9, <1>10, CapKept

(* A call that is put into the log is no longer on its way there.          *)
LEMMA CallAudited ==
  ASSUME IsFiniteSet(Invokers), CallsInv, CallsInv', LimitsInv, LogInv,
         NEW i \in Invokers, AuditCall(i)
  PROVE  /\ LimitsInv' /\ LogInv'
         /\ AgentsCapped /\ CapInv => CapInv'
<1>1. /\ inv[i].at = "audit" /\ spent' = Billed(inv[i].by)
      /\ inv' = [inv EXCEPT ![i] = Resting]
      /\ UNCHANGED <<minute, limits, bucket, passed, changes, called, llm, unbilled>>
  BY DEF AuditCall, At, Answer, history
<1>2. \A j \in Invokers : inv'[j] = IF j = i THEN Resting ELSE inv[j]
  BY <1>1, RestingIs, InvMoves DEF CallsInv
<1>3. inv[i].by \in Callers
  BY <1>1, InvIs, InvHas DEF CallsInv
<1>4. PICK row : /\ row.by = inv[i].by /\ row.at = minute /\ row \notin spent
                 /\ spent' = spent \cup {row}
                 /\ IsFiniteSet(spent') /\ Cardinality(spent') = Cardinality(spent) + 1
                 /\ \A r \in spent' : /\ r \in [by : Callers, at : Minutes, n : Nat]
                                      /\ r.at <= minute
                                      /\ r.n <= Cardinality(SameMinute(r)')
  BY <1>1, <1>3, RowAdded
<1>5. LimitsInv'
  BY <1>1, RestingIs, LimitsMoved DEF Stepped, LimitsFit, Holding
<1>6. Owing' = Owing \ {i} /\ i \in Owing
  BY <1>1, <1>2, RestingIs DEF Owing
<1>7. Cardinality(Owing') = Cardinality(Owing) - 1
  BY <1>6, OwingIs, FS_RemoveElement
<1>8. LogInv'
  <2>1. Cardinality(spent) \in Nat /\ Cardinality(Owing) \in Nat
    BY OwingIs, FS_CardinalityType DEF LogInv
  <2> QED BY <1>1, <1>4, <1>7, <2>1 DEF LogInv
<1>9. ASSUME AgentsCapped, CapInv PROVE CapInv'
  <2> SUFFICES ASSUME NEW a \in Agents
               PROVE  Cardinality(InHour(a)') + Cardinality(Ahead(a)')
                        <= Cap("hour")' - 1 + Cardinality(Invokers) + llm'
    BY DEF CapInv
  <2>1. /\ Cap("hour")' = Cap("hour") /\ llm' = llm /\ Cap("hour") \in Nat
        /\ Cardinality(InHour(a)) + Cardinality(Ahead(a))
             <= Cap("hour") - 1 + Cardinality(Invokers) + llm
    BY <1>1, <1>9, CapIs DEF Cap, CapInv, AgentsCapped, Fields
  <2>2. CASE a = inv[i].by
    <3>1. InHour(a)' \subseteq InHour(a) \cup {row}
      BY <1>1, <1>4 DEF InHour
    <3>2. /\ Cardinality(InHour(a)') <= Cardinality(InHour(a)) + 1
          /\ Cardinality(InHour(a)') \in Nat
      <4>1. IsFiniteSet(InHour(a))
        BY InHourIs
      <4> QED BY <3>1, <4>1, AtMostOneMore
    <3>3. i \in Ahead(a) /\ Ahead(a)' = Ahead(a) \ {i}
      BY <1>1, <1>2, <2>2, RestingIs DEF Ahead, PastHour
    <3>4. Cardinality(Ahead(a)') = Cardinality(Ahead(a)) - 1
      BY <3>3, OwingIs, FS_RemoveElement
    <3> QED BY <2>1, <3>2, <3>4, InHourIs, OwingIs DEF LogInv
  <2>3. CASE a # inv[i].by
    <3>1. InHour(a)' = InHour(a)
      BY <1>1, <1>4, <2>3 DEF InHour
    <3>2. Ahead(a)' = Ahead(a)
      BY <1>1, <1>2, <2>3, RestingIs DEF Ahead, PastHour
    <3> QED BY <2>1, <3>1, <3>2
  <2> QED BY <2>2, <2>3
<1> QED BY <1>5, <1>8, <1>9

LEMMA LlmRecorded ==
  ASSUME IsFiniteSet(Invokers), CallsInv, CallsInv', LimitsInv, LogInv,
         NEW c \in Callers, RecordLlm(c)
  PROVE  /\ LimitsInv' /\ LogInv'
         /\ AgentsCapped /\ CapInv => CapInv'
<1>1. /\ spent' = Billed(c) /\ llm' = llm + 1
      /\ UNCHANGED <<minute, limits, bucket, passed, changes, called, unbilled, inv>>
  BY DEF RecordLlm
<1>2. PICK row : /\ row.by = c /\ row.at = minute /\ row \notin spent
                 /\ spent' = spent \cup {row}
                 /\ IsFiniteSet(spent') /\ Cardinality(spent') = Cardinality(spent) + 1
                 /\ \A r \in spent' : /\ r \in [by : Callers, at : Minutes, n : Nat]
                                      /\ r.at <= minute
                                      /\ r.n <= Cardinality(SameMinute(r)')
  BY <1>1, RowAdded
<1>3. LimitsInv'
  BY <1>1 DEF LimitsInv
<1>4. Owing' = Owing
  BY <1>1 DEF Owing
<1>5. LogInv'
  <2>1. Cardinality(spent) \in Nat /\ Cardinality(Owing) \in Nat
    BY OwingIs, FS_CardinalityType DEF LogInv
  <2> QED BY <1>1, <1>2, <1>4, <2>1 DEF LogInv
<1>6. ASSUME AgentsCapped, CapInv PROVE CapInv'
  <2> SUFFICES ASSUME NEW a \in Agents
               PROVE  Cardinality(InHour(a)') + Cardinality(Ahead(a)')
                        <= Cap("hour")' - 1 + Cardinality(Invokers) + llm'
    BY DEF CapInv
  <2>1. /\ Cap("hour")' = Cap("hour") /\ Cap("hour") \in Nat
        /\ Cardinality(InHour(a)) + Cardinality(Ahead(a))
             <= Cap("hour") - 1 + Cardinality(Invokers) + llm
    BY <1>1, <1>6, CapIs DEF Cap, CapInv, AgentsCapped, Fields
  <2>2. InHour(a)' \subseteq InHour(a) \cup {row}
    BY <1>1, <1>2 DEF InHour
  <2>3. /\ Cardinality(InHour(a)') <= Cardinality(InHour(a)) + 1
        /\ Cardinality(InHour(a)') \in Nat
    <3>1. IsFiniteSet(InHour(a))
      BY InHourIs
    <3> QED BY <2>2, <3>1, AtMostOneMore
  <2>4. Ahead(a)' = Ahead(a)
    BY <1>1 DEF Ahead
  <2> QED BY <1>1, <2>1, <2>3, <2>4, InHourIs, OwingIs DEF LogInv
<1> QED BY <1>3, <1>5, <1>6

LEMMA LimitsWritten ==
  ASSUME CallsInv, CallsInv', LimitsInv, LogInv, NEW i \in Invokers, LimitsWrite(i)
  PROVE  /\ LimitsInv' /\ LogInv'
         /\ AgentsCapped /\ CapInv => CapInv'
<1> DEFINE x == [at |-> "reset", by |-> inv[i].by]
<1>1. /\ inv[i].at = "write" /\ inv' = [inv EXCEPT ![i] = x]
      /\ limits' = [limits EXCEPT ![inv[i].by] = inv[i].limits]
      /\ changes' = changes + 1
      /\ UNCHANGED <<minute, bucket, spent, passed, called, llm, unbilled>>
  BY DEF LimitsWrite, At
<1>2. x \in Invocations /\ x.at = "reset"
  BY <1>1, InvIs, InvHas DEF CallsInv, Admitting, Invocations
<1> HIDE DEF x
<1>3. \A j \in Invokers : inv'[j] = IF j = i THEN x ELSE inv[j]
  BY <1>1, <1>2, InvMoves DEF CallsInv
<1>4. LimitsInv'
  <2>1. changes \in Nat /\ changes' \in Nat /\ changes' # 0
    BY <1>1 DEF LimitsInv
  <2>2. Legal(inv[i].limits)
    BY <1>1 DEF LimitsInv
  <2>3. \A a \in Agents : limits'[a] = IF a = inv[i].by THEN inv[i].limits ELSE limits[a]
    BY <1>1 DEF CallsInv
  <2>4. \A a \in Agents : Legal(limits'[a])
    BY <2>2, <2>3 DEF LimitsInv
  <2>5. \A j \in Invokers : inv'[j].at \in Holding \cup {"write"} => Legal(inv'[j].limits)
    BY <1>2, <1>3 DEF LimitsInv, Holding
  <2> QED BY <2>1, <2>4, <2>5 DEF LimitsInv
<1>5. Owing' = Owing
  BY <1>1, <1>2, <1>3 DEF Owing
<1>6. LogInv'
  <2>1. minute' >= minute
    BY <1>1 DEF CallsInv, Minutes
  <2> QED BY <1>1, <1>5, <2>1, LogKept DEF LogInv
<1>7. Behind /\ \A a \in Agents : InHour(a)' \subseteq InHour(a)
  <2>1. \A a \in Agents : Ahead(a)' \subseteq Ahead(a)
    BY <1>1, <1>2, <1>3 DEF Ahead, PastHour
  <2> QED BY <1>1, <2>1 DEF Behind, InHour
<1>8. llm' \in Nat /\ llm' >= llm /\ changes' \in Nat /\ changes' >= changes
  BY <1>1 DEF LogInv, LimitsInv
<1> QED BY <1>4, <1>6, <1>7, <1>8, CapKept

LEMMA InvocationLost ==
  ASSUME IsFiniteSet(Invokers), CallsInv, CallsInv', LimitsInv, LogInv,
         NEW i \in Invokers, InvokeLost(i)
  PROVE  /\ LimitsInv' /\ LogInv'
         /\ AgentsCapped /\ CapInv => CapInv'
<1>1. /\ inv' = [inv EXCEPT ![i] = Resting]
      /\ unbilled' = unbilled + (IF inv[i].at \in {"store", "audit"} THEN 1 ELSE 0)
      /\ UNCHANGED <<minute, limits, bucket, spent, passed, changes, called, llm>>
  BY DEF InvokeLost, Answer
<1>2. \A j \in Invokers : inv'[j] = IF j = i THEN Resting ELSE inv[j]
  BY <1>1, RestingIs, InvMoves DEF CallsInv
<1>3. LimitsInv'
  BY <1>1, RestingIs, LimitsMoved DEF Stepped, LimitsFit, Holding
<1>4. Owing' = Owing \ {i}
  BY <1>2, RestingIs DEF Owing
<1>5. Cardinality(Owing') = Cardinality(Owing) - (IF i \in Owing THEN 1 ELSE 0)
  <2>1. CASE i \in Owing
    BY <1>4, <2>1, OwingIs, FS_RemoveElement
  <2>2. CASE i \notin Owing
    <3>1. Owing' = Owing
      BY <1>4, <2>2
    <3> QED BY <2>2, <3>1, OwingIs
  <2> QED BY <2>1, <2>2
<1>6. LogInv'
  <2>1. minute' >= minute
    BY <1>1 DEF CallsInv, Minutes
  <2>2. Cardinality(spent) \in Nat /\ Cardinality(Owing) \in Nat
    BY OwingIs, FS_CardinalityType DEF LogInv
  <2>3. i \in Owing <=> inv[i].at \in {"store", "audit"}
    BY DEF Owing
  <2>4. unbilled' \in Nat /\ called' + llm' = Cardinality(spent) + unbilled' + Cardinality(Owing')
    BY <1>1, <1>5, <2>2, <2>3 DEF LogInv
  <2> QED BY <1>1, <2>1, <2>4, LogKept DEF LogInv
<1>7. Behind /\ \A a \in Agents : InHour(a)' \subseteq InHour(a)
  <2>1. \A a \in Agents : Ahead(a)' \subseteq Ahead(a)
    BY <1>2, RestingIs DEF Ahead, PastHour
  <2> QED BY <1>1, <2>1 DEF Behind, InHour
<1>8. llm' \in Nat /\ llm' >= llm /\ changes' \in Nat /\ changes' >= changes
  BY <1>1 DEF LogInv, LimitsInv
<1> QED BY <1>3, <1>6, <1>7, <1>8, CapKept

LEMMA Restarted ==
  ASSUME IsFiniteSet(Invokers), CallsInv, CallsInv', LimitsInv, LogInv, GatewayRestart
  PROVE  /\ LimitsInv' /\ LogInv'
         /\ AgentsCapped /\ CapInv => CapInv'
<1>1. /\ inv' = [i \in Invokers |-> Resting] /\ changes' = changes + 1
      /\ unbilled' = unbilled + Cardinality(Owing)
      /\ UNCHANGED <<minute, limits, spent, passed, called, llm>>
  BY DEF GatewayRestart, Owing
<1>2. \A j \in Invokers : inv'[j].at = "none"
  BY <1>1, RestingIs
<1>3. LimitsInv'
  BY <1>1, <1>2 DEF LimitsInv, Holding
<1>4. Owing' = {}
  BY <1>2 DEF Owing
<1>5. LogInv'
  <2>1. minute' >= minute
    BY <1>1 DEF CallsInv, Minutes
  <2>2. Cardinality(spent) \in Nat /\ Cardinality(Owing) \in Nat /\ Cardinality(Owing') = 0
    BY <1>4, OwingIs, FS_CardinalityType, FS_EmptySet DEF LogInv
  <2>3. unbilled' \in Nat /\ called' + llm' = Cardinality(spent) + unbilled' + Cardinality(Owing')
    BY <1>1, <2>2 DEF LogInv
  <2> QED BY <1>1, <2>1, <2>3, LogKept DEF LogInv
<1>6. Behind /\ \A a \in Agents : InHour(a)' \subseteq InHour(a)
  <2>1. \A a \in Agents : Ahead(a)' \subseteq Ahead(a)
    BY <1>2 DEF Ahead, PastHour
  <2> QED BY <1>1, <2>1 DEF Behind, InHour
<1>7. llm' \in Nat /\ llm' >= llm /\ changes' \in Nat /\ changes' >= changes
  BY <1>1 DEF LogInv, LimitsInv
<1> QED BY <1>3, <1>5, <1>6, <1>7, CapKept

LEMMA LimitsStart == CallsInv /\ ToolCallsInit => LimitsInv
<1> SUFFICES ASSUME CallsInv, ToolCallsInit PROVE LimitsInv
  OBVIOUS
<1>1. Legal(Defaults)
  BY CallConstants DEF Legal, Sources, LimitRows
<1>2. \A i \in Invokers : inv[i].at = "none"
  BY RestingIs DEF ToolCallsInit
<1> QED BY <1>1, <1>2 DEF ToolCallsInit, LimitsInv, Holding

LEMMA LogStart == ToolCallsInit => LogInv
<1> SUFFICES ASSUME ToolCallsInit PROVE LogInv
  OBVIOUS
<1>1. \A i \in Invokers : inv[i].at = "none"
  BY RestingIs DEF ToolCallsInit
<1>2. Owing = {}
  BY <1>1 DEF Owing
<1> QED BY <1>2, FS_EmptySet DEF ToolCallsInit, LogInv

LEMMA CapStart == AgentsCapped /\ ToolCallsInit => CapInv
<1> SUFFICES ASSUME AgentsCapped, ToolCallsInit, NEW a \in Agents
             PROVE  Cardinality(InHour(a)) + Cardinality(Ahead(a))
                      <= Cap("hour") - 1 + Cardinality(Invokers) + llm
  BY DEF CapInv
<1>1. \A i \in Invokers : inv[i].at = "none"
  BY RestingIs DEF ToolCallsInit
<1>2. Ahead(a) = {} /\ InHour(a) = {}
  BY <1>1 DEF Ahead, InHour, PastHour, ToolCallsInit
<1>3. Cap("hour") = Defaults["hour"]
  BY DEF Cap, ToolCallsInit
<1>4. Defaults["hour"] \in Nat /\ Defaults["hour"] > 0
  BY CallConstants DEF AgentsCapped, Sources, LimitRows, Fields
<1>5. Cardinality(InHour(a)) = 0 /\ Cardinality(Ahead(a)) = 0
  BY <1>2, FS_EmptySet
<1>6. Cardinality(Invokers) \in Nat /\ llm = 0
  BY FS_CardinalityType DEF AgentsCapped, ToolCallsInit
<1> QED BY <1>3, <1>4, <1>5, <1>6

(* Every step keeps the log and the limits, and the caps of agents that    *)
(* have one.                                                               *)
LEMMA MoneyStep ==
  ASSUME IsFiniteSet(Invokers), CallsInv, LimitsInv, LogInv, [ToolCallsNext]_toolVars
  PROVE  /\ CallsInv' /\ LimitsInv' /\ LogInv'
         /\ AgentsCapped /\ CapInv => CapInv'
<1>1. CallsInv'
  BY CallsSteps, CallsInvIdle
<1>2. minute \in Nat
  BY DEF CallsInv, Minutes
<1>3. CASE \E i \in Invokers : Plain(i)
  BY <1>1, <1>3, FreeMove DEF Plain
<1>4. CASE \E i \in Invokers : TakeToken(i) \/ ResetBucket(i)
  BY <1>1, <1>4, TokenIsFree, FreeMove
<1>5. CASE \/ \E i \in Invokers : CheckHour(i) \/ CallTool(i) \/ AuditCall(i)
                                  \/ LimitsWrite(i) \/ InvokeLost(i)
           \/ \E c \in Callers : RecordLlm(c)
           \/ GatewayRestart
  BY <1>1, <1>5, HourChecked, CallMade, CallAudited, LimitsWritten, InvocationLost,
     LlmRecorded, Restarted
<1>6. CASE RegisterTool \/ DropEntry \/ MinutePasses \/ UNCHANGED toolVars
  <2>1. /\ UNCHANGED <<limits, spent, changes, called, llm, unbilled, inv>>
        /\ minute' >= minute
    BY <1>2, <1>6 DEF RegisterTool, DropEntry, MinutePasses, toolVars, history
  <2> QED BY <1>1, <2>1, StillKeeps
<1>7. QED
  <2>1. CASE UNCHANGED toolVars
    BY <1>6, <2>1
  <2>2. CASE ToolCallsNext
    <3>1. ASSUME NEW i \in Invokers,
                 \/ \E c \in Callers : InvokeStart(i, c)
                 \/ ReadLimits(i) \/ CheckDay(i) \/ CheckTenantRpm(i) \/ CheckTenantCost(i)
                 \/ RecordInvoke(i) \/ GetTool(i) \/ Lookup(i) \/ StoreResult(i)
                 \/ DeleteTool(i) \/ ClearCache(i)
                 \/ \E a \in Agents : DeleteLimits(i, a) \/ \E b \in Bodies : SetLimitsRead(i, a, b)
          PROVE  Plain(i)
      BY <3>1, PlainSteps
    <3> QED BY <1>3, <1>4, <1>5, <1>6, <2>2, <3>1 DEF ToolCallsNext
  <2> QED BY <2>1, <2>2

(* Every call that a backend got is in the log, on its way there, or was   *)
(* lost with its request (gateway/api.py invoke, audit.py record).         *)
THEOREM CallsAreAccounted ==
  ASSUME IsFiniteSet(Invokers)
  PROVE  ToolCallsSpec => []CallsAccounted
<1> DEFINE Money == CallsInv /\ LimitsInv /\ LogInv
<1>1. ToolCallsInit => Money
  BY CallsInvStart, LimitsStart, LogStart
<1>2. Money /\ [ToolCallsNext]_toolVars => Money'
  BY MoneyStep
<1>3. Money => CallsAccounted
  BY DEF LogInv, CallsAccounted, Owing
<1> QED BY <1>1, <1>2, <1>3, PTL DEF ToolCallsSpec

(* What an agent spends in an hour exceeds its cap by no more than the     *)
(* requests in flight at once, less one, and what record-llm adds          *)
(* (gateway/limits.py, cost_caps.py).                                      *)
THEOREM AgentCostsBounded ==
  ASSUME AgentsCapped
  PROVE  ToolCallsSpec => []CostOvershootBounded
<1> DEFINE Money == CallsInv /\ LimitsInv /\ LogInv /\ CapInv
<1>1. ToolCallsInit => Money
  BY CallsInvStart, LimitsStart, LogStart, CapStart
<1>2. Money /\ [ToolCallsNext]_toolVars => Money'
  BY MoneyStep DEF AgentsCapped
<1>3. Money => CostOvershootBounded
  BY InHourIs DEF CapInv, CostOvershootBounded, Past, Ahead
<1> QED BY <1>1, <1>2, <1>3, PTL DEF ToolCallsSpec

(* Nothing is spent past the caps but by what overlaps, and nothing is     *)
(* spent without being counted, for agents and a tenant that have caps at  *)
(* all: 0 stands for none (gateway/cost_caps.py, tenant_quotas.py).        *)
THEOREM OvershootsBounded ==
  ASSUME AgentsCapped, TenantLimited
  PROVE  ToolCallsSpec => []OvershootBounded
<1>1. ToolCallsSpec => []CostOvershootBounded
  BY AgentCostsBounded
<1>2. ToolCallsSpec => []TenantRateBounded
  BY TenantRatesBounded
<1>3. ToolCallsSpec => []CallsAccounted
  BY CallsAreAccounted DEF TenantLimited
<1>4. CostOvershootBounded /\ TenantRateBounded /\ CallsAccounted => OvershootBounded
  BY DEF OvershootBounded
<1> QED BY <1>1, <1>2, <1>3, <1>4, PTL

--------------------------------------------------------------------------------
(***************************************************************************)
(* The token buckets.  Each change of an agent's limits may hand out some  *)
(* full buckets; none of them is handed out unseen.                        *)
(***************************************************************************)
BucketRows == [rpm : Nat, burst : Nat, tokens : Nat, last : Nat]
TokenInv ==
  /\ passed \in [Agents -> Nat]
  /\ bucket \in [Agents -> BucketRows]
  /\ \A a \in Agents : \E full \in Nat : Handed(a, full)

AgentsFinite == IsFiniteSet(Bodies) /\ IsFiniteSet(Invokers)

LEMMA Product ==
  ASSUME NEW m \in Nat, NEW n \in Nat, NEW k \in Nat, m <= n
  PROVE  m * k \in Nat /\ n * k \in Nat /\ m * k <= n * k /\ k * m <= k * n
<1>1. PICK d \in Nat : n = m + d
  BY SMT
<1>2. n * k = m * k + d * k /\ m * k \in Nat /\ d * k \in Nat
  BY <1>1, SMT
<1>3. m * k <= n * k
  BY <1>2
<1>4. k * m = m * k /\ k * n = n * k
  BY SMT
<1> QED BY <1>2, <1>3, <1>4

LEMMA OneMoreTime ==
  ASSUME NEW m \in Nat, NEW k \in Nat
  PROVE  k * (m + 1) = k * m + k /\ (m + 1) * k = m * k + k
BY SMT

(* The requests an agent's buckets wait for.                               *)
LEMMA WaitsAre ==
  ASSUME AgentsFinite, NEW a
  PROVE  /\ IsFiniteSet(Outdated(a)) /\ Cardinality(Outdated(a)) \in Nat
         /\ IsFiniteSet(Dropping(a)) /\ Cardinality(Dropping(a)) \in Nat
         /\ Cardinality(Outdated(a)) <= Cardinality(Invokers)
         /\ Cardinality(Invokers) \in Nat
<1>1. Outdated(a) \in SUBSET Invokers /\ Dropping(a) \in SUBSET Invokers
  BY DEF Outdated, Dropping
<1> QED BY <1>1, FS_Subset, FS_CardinalityType DEF AgentsFinite

LEMMA WaitsAreNext ==
  ASSUME AgentsFinite, NEW a
  PROVE  /\ IsFiniteSet(Outdated(a)') /\ Cardinality(Outdated(a)') \in Nat
         /\ IsFiniteSet(Dropping(a)') /\ Cardinality(Dropping(a)') \in Nat
         /\ Cardinality(Outdated(a)') <= Cardinality(Invokers)
<1>1. Outdated(a)' \in SUBSET Invokers /\ Dropping(a)' \in SUBSET Invokers
  BY DEF Outdated, Dropping
<1> QED BY <1>1, FS_Subset, FS_CardinalityType DEF AgentsFinite

(* What changes of limits may hand out.                                    *)
Grants == changes * (2 + 2 * Cardinality(Invokers))
Lacks(a) == IF Misfit(bucket[a], limits[a]) THEN 1 ELSE 0
Handable(a) == 2 * Cardinality(Outdated(a)) + Cardinality(Dropping(a)) + Lacks(a)

LEMMA GrantsAre ==
  ASSUME AgentsFinite, LimitsInv
  PROVE  /\ Grants \in Nat
         /\ changes' = changes => Grants' = Grants
         /\ changes' = changes + 1 => Grants' = Grants + 2 + 2 * Cardinality(Invokers)
<1> DEFINE k == 2 + 2 * Cardinality(Invokers)
<1>1. k \in Nat /\ changes \in Nat
  BY FS_CardinalityType DEF AgentsFinite, LimitsInv
<1>2. Grants = changes * k /\ Grants' = changes' * k
  BY DEF Grants
<1>3. k = 2 + 2 * Cardinality(Invokers)
  OBVIOUS
<1> HIDE DEF k
<1>4. changes * k \in Nat
  BY <1>1, SMT
<1>5. changes' = changes + 1 => changes' * k = changes * k + k
  BY <1>1, OneMoreTime
<1>6. changes' = changes => changes' * k = changes * k
  OBVIOUS
<1>7. Grants \in Nat
  BY <1>2, <1>4
<1>8. changes' = changes => Grants' = Grants
  BY <1>2, <1>6
<1>9. changes' = changes + 1 => Grants' = Grants + k
  BY <1>2, <1>5
<1> QED BY <1>1, <1>3, <1>7, <1>8, <1>9, FS_CardinalityType DEF AgentsFinite

(* Handed in these terms.                                                  *)
Held(a, full) ==
  bucket[a] # NoBucket =>
    /\ bucket[a].last \in 1..minute
    /\ bucket[a].tokens <= bucket[a].burst
    /\ bucket[a].rpm <= Cap("rpm") /\ bucket[a].burst <= Cap("burst")
    /\ passed[a] + bucket[a].tokens
         <= Cap("burst") * full + Cap("rpm") * (bucket[a].last - 1)

LEMMA HandedIs ==
  ASSUME AgentsFinite, LimitsInv, NEW a \in Agents, NEW full \in Nat
  PROVE  Handed(a, full) <=> /\ full + Handable(a) <= 1 + Grants
                             /\ passed[a] <= Cap("burst") * full + Cap("rpm") * (minute - 1)
                             /\ Held(a, full)
BY WaitsAre, GrantsAre DEF Handed, Handable, Held, Grants, Lacks

LEMMA HandedIsNext ==
  ASSUME AgentsFinite, LimitsInv', NEW a \in Agents, NEW full \in Nat
  PROVE  Handed(a, full)' <=> /\ full + Handable(a)' <= 1 + Grants'
                              /\ passed'[a] <= Cap("burst")' * full + Cap("rpm")' * (minute' - 1)
                              /\ Held(a, full)'
<1>1. /\ Cardinality(Outdated(a)') \in Nat /\ Cardinality(Dropping(a)') \in Nat
  BY WaitsAreNext
<1>2. Grants' \in Nat
  <2>1. changes' \in Nat /\ Cardinality(Invokers) \in Nat
    BY FS_CardinalityType DEF LimitsInv, AgentsFinite
  <2>2. changes' * (2 + 2 * Cardinality(Invokers)) \in Nat
    BY <2>1, SMT
  <2> QED BY <2>2 DEF Grants
<1> QED BY <1>1, <1>2 DEF Handed, Handable, Held, Grants, Lacks

(* What a bucket may hold and what has passed grow with the caps, the time *)
(* and the buckets that were handed out.                                   *)
LEMMA AllowanceGrows ==
  ASSUME AgentsFinite, CallsInv, CallsInv', LimitsInv, LimitsInv', minute' >= minute,
         changes' >= changes, NEW full \in Nat, NEW t \in Nat, NEW u \in Nat, t <= u
  PROVE  /\ Cap("burst") * full + Cap("rpm") * t \in Nat
         /\ Cap("burst") * full + Cap("rpm") * t <= Cap("burst")' * full + Cap("rpm")' * u
         /\ Cap("burst")' * full + Cap("rpm")' * u \in Nat
<1>1. changes' \in Nat
  BY DEF LimitsInv
<1>2. /\ Cap("burst") \in Nat /\ Cap("burst")' \in Nat /\ Cap("burst") <= Cap("burst")'
      /\ Cap("rpm") \in Nat /\ Cap("rpm")' \in Nat /\ Cap("rpm") <= Cap("rpm")'
  BY <1>1, CapIs DEF AgentsFinite, Fields
<1>3. /\ Cap("burst") * full \in Nat /\ Cap("burst")' * full \in Nat
      /\ Cap("burst") * full <= Cap("burst")' * full
  BY <1>2, Product
<1>4. /\ Cap("rpm") * t \in Nat /\ Cap("rpm")' * t \in Nat
      /\ Cap("rpm") * t <= Cap("rpm")' * t
  BY <1>2, Product
<1>5. Cap("rpm")' * u \in Nat /\ Cap("rpm")' * t <= Cap("rpm")' * u
  BY <1>2, Product
<1> QED BY <1>3, <1>4, <1>5

(* What has passed and the bucket of an agent that keeps its bucket, or    *)
(* loses it, stay accounted for.                                           *)
LEMMA HandedMoved ==
  ASSUME AgentsFinite, CallsInv, CallsInv', LimitsInv, LimitsInv', TokenInv,
         NEW a \in Agents, NEW full \in Nat, Handed(a, full),
         minute' >= minute, changes' \in {changes, changes + 1},
         bucket'[a] \in {bucket[a], NoBucket}, passed'[a] = passed[a],
         full + Handable(a)' <= 1 + Grants'
  PROVE  Handed(a, full)'
<1>1. /\ full + Handable(a) <= 1 + Grants
      /\ passed[a] <= Cap("burst") * full + Cap("rpm") * (minute - 1)
      /\ Held(a, full)
  BY HandedIs
<1>2. /\ minute \in Nat /\ minute >= 1 /\ minute' \in Nat /\ passed[a] \in Nat
      /\ bucket[a] \in BucketRows /\ changes \in Nat /\ Cardinality(Invokers) \in Nat
  BY FS_CardinalityType DEF CallsInv, Minutes, TokenInv, LimitsInv, AgentsFinite
<1>5. changes' >= changes
  BY <1>2
<1>6. passed'[a] <= Cap("burst")' * full + Cap("rpm")' * (minute' - 1)
  <2>0. minute - 1 \in Nat /\ minute' - 1 \in Nat /\ minute - 1 <= minute' - 1
    <3>1. ASSUME NEW s \in Nat, NEW t \in Nat, s >= 1, t >= s
          PROVE  s - 1 \in Nat /\ t - 1 \in Nat /\ s - 1 <= t - 1
      BY <3>1, SMT
    <3> QED BY <1>2, <3>1
  <2>1. Cap("burst") * full + Cap("rpm") * (minute - 1)
          <= Cap("burst")' * full + Cap("rpm")' * (minute' - 1)
    BY <1>5, <2>0, AllowanceGrows
  <2>2. /\ Cap("burst") * full + Cap("rpm") * (minute - 1) \in Nat
        /\ Cap("burst")' * full + Cap("rpm")' * (minute' - 1) \in Nat
    BY <1>5, <2>0, AllowanceGrows
  <2> QED BY <1>1, <1>2, <2>1, <2>2
<1>7. Held(a, full)'
  <2> SUFFICES ASSUME bucket'[a] # NoBucket PROVE Held(a, full)'
    BY DEF Held
  <2>0. bucket'[a] = bucket[a] /\ bucket[a] # NoBucket
    OBVIOUS
  <2> DEFINE b == bucket[a]
  <2>1. b.last \in 1..minute /\ b.tokens \in Nat /\ b.rpm \in Nat /\ b.burst \in Nat
    BY <1>1, <1>2, <2>0 DEF Held, BucketRows
  <2>2. /\ Cap("burst") <= Cap("burst")' /\ Cap("burst") \in Nat /\ Cap("burst")' \in Nat
        /\ Cap("rpm") <= Cap("rpm")' /\ Cap("rpm") \in Nat /\ Cap("rpm")' \in Nat
    <3>1. changes' \in Nat
      BY DEF LimitsInv
    <3> QED BY <1>5, <3>1, CapIs DEF AgentsFinite, Fields
  <2>3. /\ Cap("burst") * full + Cap("rpm") * (b.last - 1)
             <= Cap("burst")' * full + Cap("rpm")' * (b.last - 1)
        /\ Cap("burst") * full + Cap("rpm") * (b.last - 1) \in Nat
        /\ Cap("burst")' * full + Cap("rpm")' * (b.last - 1) \in Nat
    <3>1. b.last - 1 \in Nat
      BY <1>2, <2>1
    <3>2. b.last - 1 <= b.last - 1
      BY <3>1
    <3> QED BY <1>5, <3>1, <3>2, AllowanceGrows
  <2>4. /\ b.tokens <= b.burst /\ b.rpm <= Cap("rpm") /\ b.burst <= Cap("burst")
        /\ passed[a] + b.tokens <= Cap("burst") * full + Cap("rpm") * (b.last - 1)
    BY <1>1, <2>0 DEF Held
  <2>5. b.last \in 1..minute'
    BY <1>2, <2>1
  <2>6. b.rpm <= Cap("rpm")' /\ b.burst <= Cap("burst")'
    BY <2>1, <2>2, <2>4
  <2>7. passed[a] + b.tokens <= Cap("burst")' * full + Cap("rpm")' * (b.last - 1)
    BY <1>2, <2>1, <2>3, <2>4
  <2> QED BY <2>0, <2>4, <2>5, <2>6, <2>7 DEF Held
<1> QED BY <1>6, <1>7, HandedIsNext

(* An agent whose limits and bucket stay, and which no more requests wait  *)
(* for.                                                                    *)
LEMMA HandedKept ==
  ASSUME AgentsFinite, CallsInv, CallsInv', LimitsInv, LimitsInv', TokenInv,
         NEW a \in Agents, NEW full \in Nat, Handed(a, full),
         minute' >= minute, changes' \in {changes, changes + 1},
         limits'[a] = limits[a], bucket'[a] = bucket[a], passed'[a] = passed[a],
         Outdated(a)' \subseteq Outdated(a), Dropping(a)' \subseteq Dropping(a)
  PROVE  Handed(a, full)'
<1>1. full + Handable(a) <= 1 + Grants
  BY HandedIs
<1>2. changes \in Nat /\ Cardinality(Invokers) \in Nat
  BY FS_CardinalityType DEF LimitsInv, AgentsFinite
<1>3. /\ Cardinality(Outdated(a)') <= Cardinality(Outdated(a))
      /\ Cardinality(Dropping(a)') <= Cardinality(Dropping(a))
  BY WaitsAre, FS_Subset
<1>4. full + Handable(a)' <= 1 + Grants'
  <2>1. Grants' >= Grants /\ Grants \in Nat /\ Grants' \in Nat
    BY <1>2, GrantsAre
  <2>2. Lacks(a)' = Lacks(a)
    BY DEF Lacks, Misfit
  <2>3. Lacks(a) \in {0, 1}
    BY DEF Lacks
  <2> QED BY <1>1, <1>3, <2>1, <2>2, <2>3, WaitsAre, WaitsAreNext DEF Handable
<1> QED BY <1>4, HandedMoved

LEMMA LeastOfTwo ==
  ASSUME NEW m \in Nat, NEW n \in Nat
  PROVE  Min({m, n}) \in Nat /\ Min({m, n}) <= m /\ Min({m, n}) <= n
<1>1. {m, n} \in SUBSET Nat /\ {m, n} # {}
  OBVIOUS
<1>2. Min({m, n}) \in {m, n} /\ \A k \in {m, n} : Min({m, n}) <= k
  BY <1>1, MinIs
<1> QED BY <1>1, <1>2

(* What a bucket looks like when it was refilled.                          *)
LEMMA RefilledIs ==
  ASSUME NEW b \in BucketRows, minute \in Nat, b.last <= minute
  PROVE  /\ Refilled(b) \in BucketRows
         /\ Refilled(b).rpm = b.rpm /\ Refilled(b).burst = b.burst
         /\ Refilled(b).last = minute
         /\ Refilled(b).tokens <= b.burst
         /\ Refilled(b).tokens <= b.tokens + (minute - b.last) * b.rpm
<1> DEFINE d == (minute - b.last) * b.rpm
<1>1. /\ b.rpm \in Nat /\ b.burst \in Nat /\ b.tokens \in Nat /\ b.last \in Nat
      /\ DOMAIN b = {"rpm", "burst", "tokens", "last"}
  BY DEF BucketRows
<1>2. minute - b.last \in Nat
  BY <1>1
<1>3. d \in Nat
  BY <1>1, <1>2, Product
<1> HIDE DEF d
<1>4. /\ Min({b.burst, b.tokens + d}) \in Nat
      /\ Min({b.burst, b.tokens + d}) <= b.burst
      /\ Min({b.burst, b.tokens + d}) <= b.tokens + d
  BY <1>1, <1>3, LeastOfTwo
<1>5. Refilled(b) = [b EXCEPT !.tokens = Min({b.burst, b.tokens + d}), !.last = minute]
  BY DEF Refilled, d
<1> HIDE DEF d
<1>6. Refilled(b) = [rpm |-> b.rpm, burst |-> b.burst,
                     tokens |-> Min({b.burst, b.tokens + d}), last |-> minute]
  BY <1>1, <1>5 DEF BucketRows
<1> QED BY <1>1, <1>4, <1>6 DEF BucketRows, d

(* The refill of a bucket is paid for by the time that passed.             *)
LEMMA RefillPaid ==
  ASSUME NEW rate \in Nat, NEW rpm \in Nat, rpm <= rate,
         NEW last \in Nat, NEW now \in Nat, 1 <= last, last <= now
  PROVE  rate * (last - 1) + (now - last) * rpm <= rate * (now - 1)
<1>1. PICK d \in Nat : now - last = d
  BY SMT
<1>2. PICK e \in Nat : last - 1 = e
  BY SMT
<1>3. now - 1 = e + d
  BY <1>1, <1>2
<1>4. d * rpm <= d * rate /\ d * rpm \in Nat /\ d * rate \in Nat
  BY Product
<1>5. rate * (e + d) = rate * e + d * rate /\ rate * e \in Nat
  BY SMT
<1> QED BY <1>1, <1>2, <1>3, <1>4, <1>5

LEMMA BucketTyped ==
  ASSUME CallsInv, TokenInv, NEW a \in Agents
  PROVE  /\ bucket[a] \in BucketRows /\ passed[a] \in Nat /\ limits[a] \in LimitRows
         /\ minute \in Nat /\ minute >= 1
BY DEF CallsInv, TokenInv, Minutes

(* A request that takes a token from the bucket there is, or from a new    *)
(* full one.                                                               *)
LEMMA TokenTaken ==
  ASSUME AgentsFinite, CallsInv, CallsInv', LimitsInv, LimitsInv', TokenInv,
         NEW i \in Invokers, TakeToken(i), NEW a \in Agents, inv[i].by = a
  PROVE  TokenInv'
<1> DEFINE l == inv[i].limits
           b0 == Ensured(bucket[a], l)
           b1 == Refilled(b0)
<1>1. /\ inv[i].at = "bucket"
      /\ UNCHANGED <<minute, limits, changes>>
      /\ \/ /\ b1.tokens > 0
            /\ bucket' = [bucket EXCEPT ![a] = [b1 EXCEPT !.tokens = @ - 1]]
            /\ passed' = [passed EXCEPT ![a] = @ + 1]
            /\ inv' = [inv EXCEPT ![i] = [at |-> "caps", by |-> a]]
         \/ ~(b1.tokens > 0) /\ bucket' = [bucket EXCEPT ![a] = b1] /\ Answer(i) /\ UNCHANGED passed
  BY DEF TakeToken, At
<1>2. a \in Agents /\ l \in LimitRows
  BY <1>1, InvIs, InvHas DEF CallsInv
<1>3. /\ l.rpm \in Nat /\ l.burst \in Nat
      /\ l.rpm <= Cap("rpm") /\ l.burst <= Cap("burst")
      /\ Cap("rpm") \in Nat /\ Cap("burst") \in Nat
  <2>1. Legal(l) /\ (changes = 0 => l = Defaults)
    BY <1>1 DEF LimitsInv, Holding
  <2> HIDE DEF l
  <2>2. l["rpm"] \in Nat /\ l["burst"] \in Nat
    BY <1>2 DEF LimitRows, Fields
  <2> QED BY <2>1, <2>2, CapIs DEF AgentsFinite, Fields
<1>4. /\ bucket[a] \in BucketRows /\ passed[a] \in Nat /\ minute \in Nat /\ minute >= 1
  BY <1>2, BucketTyped
<1>5. PICK full \in Nat : Handed(a, full)
  BY <1>2 DEF TokenInv
<1>6. /\ full + Handable(a) <= 1 + Grants
      /\ passed[a] <= Cap("burst") * full + Cap("rpm") * (minute - 1)
      /\ Held(a, full)
  BY <1>2, <1>5, HandedIs
<1>7. Misfit(bucket[a], l) => b0 = FreshBucket(l)
  BY DEF Misfit, Ensured
<1>8. ~Misfit(bucket[a], l) => b0 = bucket[a] /\ b0.rpm = l.rpm /\ b0.burst = l.burst
                               /\ bucket[a] # NoBucket
  BY DEF Misfit, Ensured
<1>9. FreshBucket(l) \in BucketRows /\ FreshBucket(l).last = minute
      /\ FreshBucket(l).rpm = l.rpm /\ FreshBucket(l).burst = l.burst
      /\ FreshBucket(l).tokens = l.burst
  BY <1>3, <1>4 DEF FreshBucket, BucketRows
<1>10. /\ b0 \in BucketRows /\ b0.rpm = l.rpm /\ b0.burst = l.burst /\ b0.last <= minute
  BY <1>4, <1>6, <1>7, <1>8, <1>9 DEF Held
<1> HIDE DEF b0
<1>11. /\ b1 \in BucketRows /\ b1.rpm = l.rpm /\ b1.burst = l.burst /\ b1.last = minute
       /\ b1.tokens <= l.burst
       /\ b1.tokens <= b0.tokens + (minute - b0.last) * b0.rpm
  BY <1>4, <1>10, RefilledIs
<1> HIDE DEF b1, l
<1>12. PICK b2 \in BucketRows :
         /\ bucket' = [bucket EXCEPT ![a] = b2]
         /\ b2.rpm = l.rpm /\ b2.burst = l.burst /\ b2.last = minute /\ b2.tokens <= b1.tokens
         /\ passed' \in [Agents -> Nat] /\ passed'[a] + b2.tokens = passed[a] + b1.tokens
         /\ \A c \in Agents \ {a} : passed'[c] = passed[c]
  <2>1. CASE b1.tokens > 0
    <3> DEFINE b2 == [b1 EXCEPT !.tokens = @ - 1]
    <3>1. b1.tokens - 1 \in Nat /\ b1.tokens \in Nat
      BY <1>11, <2>1 DEF BucketRows
    <3>2. /\ b2 \in BucketRows /\ b2.rpm = b1.rpm /\ b2.burst = b1.burst
          /\ b2.last = b1.last /\ b2.tokens = b1.tokens - 1
      BY <1>11, <3>1 DEF BucketRows
    <3>3. bucket' = [bucket EXCEPT ![a] = b2] /\ passed' = [passed EXCEPT ![a] = @ + 1]
      BY <1>1, <2>1
    <3> HIDE DEF b2
    <3>4. /\ passed' \in [Agents -> Nat] /\ passed'[a] = passed[a] + 1
          /\ \A c \in Agents \ {a} : passed'[c] = passed[c]
      BY <1>2, <3>3 DEF TokenInv
    <3>5. passed'[a] + b2.tokens = passed[a] + b1.tokens /\ b2.tokens <= b1.tokens
      BY <1>4, <3>1, <3>2, <3>4
    <3> QED BY <1>11, <3>2, <3>3, <3>4, <3>5
  <2>2. CASE ~(b1.tokens > 0)
    <3>1. bucket' = [bucket EXCEPT ![a] = b1] /\ passed' = passed
      BY <1>1, <2>2
    <3>2. passed' \in [Agents -> Nat] /\ passed'[a] + b1.tokens = passed[a] + b1.tokens
      BY <3>1 DEF TokenInv
    <3>3. \A c \in Agents \ {a} : passed'[c] = passed[c]
      BY <3>1
    <3>4. /\ b1 \in BucketRows /\ b1.rpm = l.rpm /\ b1.burst = l.burst /\ b1.last = minute
          /\ b1.tokens <= b1.tokens
      BY <1>11 DEF BucketRows
    <3> QED BY <3>1, <3>2, <3>3, <3>4
  <2> QED BY <2>1, <2>2
<1>13. /\ bucket' \in [Agents -> BucketRows] /\ bucket'[a] = b2
       /\ \A c \in Agents \ {a} : bucket'[c] = bucket[c]
  BY <1>2, <1>12 DEF TokenInv
<1>14. \A j \in Invokers : IF j = i THEN inv'[j].at \in {"caps", "none"} ELSE inv'[j] = inv[j]
  <2>1. \E x : inv' = [inv EXCEPT ![i] = x] /\ x.at \in {"caps", "none"}
    <3>1. [at |-> "caps", by |-> a].at = "caps"
      OBVIOUS
    <3> QED BY <1>1, <3>1, RestingIs DEF Answer
  <2> QED BY <2>1 DEF CallsInv, InvTyped
<1>15. \A c \in Agents : Outdated(c)' = Outdated(c) \ {i} /\ Dropping(c)' = Dropping(c)
  BY <1>1, <1>14 DEF Outdated, Dropping
<1>16. ASSUME NEW c \in Agents \ {a} PROVE \E n \in Nat : Handed(c, n)'
  <2>1. PICK n \in Nat : Handed(c, n)
    BY DEF TokenInv
  <2>2. minute' >= minute /\ changes' \in {changes, changes + 1}
    BY <1>1, <1>4
  <2>3. limits'[c] = limits[c] /\ bucket'[c] = bucket[c] /\ passed'[c] = passed[c]
    BY <1>1, <1>12, <1>13
  <2>4. Outdated(c)' \subseteq Outdated(c) /\ Dropping(c)' \subseteq Dropping(c)
    BY <1>15
  <2> QED BY <2>1, <2>2, <2>3, <2>4, HandedKept
<1>17. Grants' = Grants /\ Grants \in Nat /\ Cap("rpm")' = Cap("rpm") /\ Cap("burst")' = Cap("burst")
  BY <1>1, GrantsAre DEF Cap
<1>18. b2 # NoBucket /\ b2.tokens \in Nat /\ b2.tokens <= b2.burst
  <2>1. b2.last # 0 /\ NoBucket.last = 0
    BY <1>4, <1>12 DEF NoBucket
  <2>2. b2.tokens \in Nat /\ b1.tokens \in Nat
    BY <1>11, <1>12 DEF BucketRows
  <2> QED BY <1>3, <1>11, <1>12, <2>1, <2>2
<1>19. Lacks(a)' = IF limits[a].rpm # l.rpm \/ limits[a].burst # l.burst THEN 1 ELSE 0
  BY <1>1, <1>12, <1>13, <1>18 DEF Lacks, Misfit
<1>20. \A n \in Nat : /\ n + Handable(a)' <= 1 + Grants
                      /\ passed[a] + b1.tokens <= Cap("burst") * n + Cap("rpm") * (minute - 1)
                      => Handed(a, n)'
  <2> SUFFICES ASSUME NEW n \in Nat, n + Handable(a)' <= 1 + Grants,
                      passed[a] + b1.tokens <= Cap("burst") * n + Cap("rpm") * (minute - 1)
               PROVE  Handed(a, n)'
    OBVIOUS
  <2>1. Cap("burst") * n + Cap("rpm") * (minute - 1) \in Nat
    <3>1. minute - 1 \in Nat
      BY <1>4
    <3> QED BY <1>3, <3>1, Product
  <2>2. passed'[a] \in Nat
    BY <1>2, <1>12
  <2>3. passed'[a] + b2.tokens <= Cap("burst") * n + Cap("rpm") * (minute - 1)
    BY <1>12
  <2>4. passed'[a] <= Cap("burst") * n + Cap("rpm") * (minute - 1)
    BY <1>18, <2>1, <2>2, <2>3
  <2>5. Held(a, n)'
    <3>1. bucket'[a].last \in 1..minute'
      BY <1>1, <1>4, <1>12, <1>13
    <3>2. bucket'[a].rpm <= Cap("rpm")' /\ bucket'[a].burst <= Cap("burst")'
      BY <1>3, <1>12, <1>13, <1>17
    <3>3. passed'[a] + bucket'[a].tokens
            <= Cap("burst")' * n + Cap("rpm")' * (bucket'[a].last - 1)
      BY <1>12, <1>13, <1>17, <2>3
    <3> QED BY <1>13, <1>18, <3>1, <3>2, <3>3 DEF Held
  <2> QED BY <1>1, <1>2, <1>17, <2>4, <2>5, HandedIsNext
<1>21. \E n \in Nat : Handed(a, n)'
  <2>1. /\ Cardinality(Outdated(a)) \in Nat /\ Cardinality(Dropping(a)) \in Nat
        /\ Cardinality(Outdated(a)') \in Nat
        /\ Cardinality(Outdated(a)') <= Cardinality(Outdated(a))
        /\ i \in Outdated(a) => Cardinality(Outdated(a)') = Cardinality(Outdated(a)) - 1
        /\ Dropping(a)' = Dropping(a)
    <3>1. Outdated(a)' = Outdated(a) \ {i}
      BY <1>2, <1>15
    <3>2. i \in Outdated(a) => Cardinality(Outdated(a)') = Cardinality(Outdated(a)) - 1
      BY <3>1, WaitsAre, FS_RemoveElement
    <3> QED BY <1>2, <1>15, <3>1, <3>2, WaitsAre, WaitsAreNext, FS_Subset
  <2>2. i \in Outdated(a) <=> limits[a].rpm # l.rpm \/ limits[a].burst # l.burst
    BY <1>1 DEF Outdated, l
  <2>3. CASE Misfit(bucket[a], l)
    <3>1. b1.tokens <= l.burst /\ b1.tokens \in Nat
      BY <1>11 DEF BucketRows
    <3>2. Cap("burst") * (full + 1) = Cap("burst") * full + Cap("burst")
      BY <1>3, OneMoreTime
    <3>3. Cap("burst") * full \in Nat /\ Cap("rpm") * (minute - 1) \in Nat
      <4>1. minute - 1 \in Nat
        BY <1>4
      <4> QED BY <1>3, <4>1, Product
    <3>4. passed[a] + b1.tokens <= Cap("burst") * (full + 1) + Cap("rpm") * (minute - 1)
      BY <1>3, <1>4, <1>6, <3>1, <3>2, <3>3
    <3>5. (full + 1) + Handable(a)' <= 1 + Grants
      <4>1. CASE i \in Outdated(a)
        <5>1. Lacks(a)' = 1
          BY <1>19, <2>2, <4>1
        <5>2. Lacks(a) \in {0, 1}
          BY DEF Lacks
        <5> QED BY <1>6, <1>17, <2>1, <4>1, <5>1, <5>2 DEF Handable
      <4>2. CASE i \notin Outdated(a)
        <5>1. Lacks(a)' = 0
          BY <1>19, <2>2, <4>2
        <5>2. Lacks(a) = 1
          BY <2>2, <2>3, <4>2 DEF Lacks, Misfit
        <5> QED BY <1>6, <1>17, <2>1, <5>1, <5>2 DEF Handable
      <4> QED BY <4>1, <4>2
    <3>6. full + 1 \in Nat
      OBVIOUS
    <3> QED BY <1>20, <3>4, <3>5, <3>6
  <2>4. CASE ~Misfit(bucket[a], l)
    <3>1. b0 = bucket[a] /\ bucket[a] # NoBucket /\ b0.rpm = l.rpm /\ b0.burst = l.burst
      BY <1>8, <2>4 DEF l
    <3>2. /\ b0.last \in 1..minute /\ b0.rpm <= Cap("rpm")
          /\ passed[a] + b0.tokens <= Cap("burst") * full + Cap("rpm") * (b0.last - 1)
      BY <1>6, <3>1 DEF Held
    <3>3. /\ b0.tokens \in Nat /\ b0.rpm \in Nat /\ b0.last \in Nat /\ b1.tokens \in Nat
          /\ b0.last <= minute /\ 1 <= b0.last /\ minute - b0.last \in Nat /\ b0.last - 1 \in Nat
          /\ minute - 1 \in Nat
      BY <1>4, <1>10, <1>11, <3>2 DEF BucketRows
    <3>4. Cap("rpm") * (b0.last - 1) + (minute - b0.last) * b0.rpm <= Cap("rpm") * (minute - 1)
      BY <1>3, <1>4, <3>2, <3>3, RefillPaid
    <3>5. /\ Cap("burst") * full \in Nat /\ Cap("rpm") * (minute - 1) \in Nat
          /\ Cap("rpm") * (b0.last - 1) \in Nat /\ (minute - b0.last) * b0.rpm \in Nat
      BY <1>3, <3>3, Product
    <3>6. passed[a] + b1.tokens <= Cap("burst") * full + Cap("rpm") * (minute - 1)
      BY <1>4, <1>11, <3>2, <3>3, <3>4, <3>5
    <3>7. Lacks(a)' <= Lacks(a) /\ Lacks(a)' \in {0, 1} /\ Lacks(a) \in {0, 1}
      BY <1>19, <3>1 DEF Lacks, Misfit
    <3>8. full + Handable(a)' <= 1 + Grants
      BY <1>6, <1>17, <2>1, <3>7 DEF Handable
    <3> QED BY <1>20, <3>6, <3>8
  <2> QED BY <2>3, <2>4
<1> QED BY <1>12, <1>13, <1>16, <1>21 DEF TokenInv

(* A change of limits, which bodies of other requests may now be at odds   *)
(* with.                                                                   *)
LEMMA LimitsChanged ==
  ASSUME AgentsFinite, CallsInv, CallsInv', LimitsInv, LimitsInv', TokenInv,
         NEW i \in Invokers, LimitsWrite(i)
  PROVE  TokenInv'
<1>1. PICK a \in Agents : a = inv[i].by
  BY InvIs, InvHas DEF CallsInv, LimitsWrite, At
<1>2. /\ inv[i].at = "write" /\ changes' = changes + 1
      /\ limits' = [limits EXCEPT ![a] = inv[i].limits]
      /\ inv' = [inv EXCEPT ![i] = [at |-> "reset", by |-> a]]
      /\ UNCHANGED <<minute, bucket, passed>>
  BY <1>1 DEF LimitsWrite, At
<1>3. \A c \in Agents \ {a} : limits'[c] = limits[c]
  BY <1>2 DEF CallsInv
<1>4. /\ inv'[i].at = "reset" /\ inv'[i].by = a
      /\ \A j \in Invokers \ {i} : inv'[j] = inv[j]
  BY <1>2 DEF CallsInv, InvTyped
<1>5. minute' >= minute
  BY <1>2 DEF CallsInv, Minutes
<1>6. ASSUME NEW c \in Agents \ {a} PROVE \E n \in Nat : Handed(c, n)'
  <2>1. PICK n \in Nat : Handed(c, n)
    BY DEF TokenInv
  <2>2. limits'[c] = limits[c] /\ bucket'[c] = bucket[c] /\ passed'[c] = passed[c]
    BY <1>2, <1>3
  <2>3. Outdated(c)' \subseteq Outdated(c)
    <3>1. inv'[i].at # "bucket"
      BY <1>4
    <3> QED BY <1>4, <2>2, <3>1 DEF Outdated
  <2>4. Dropping(c)' \subseteq Dropping(c)
    BY <1>1, <1>4 DEF Dropping
  <2> QED BY <1>2, <1>5, <2>1, <2>2, <2>3, <2>4, HandedKept
<1>7. \E n \in Nat : Handed(a, n)'
  <2>1. PICK n \in Nat : Handed(a, n)
    BY DEF TokenInv
  <2>2. Dropping(a)' = Dropping(a) \cup {i} /\ i \notin Dropping(a)
    BY <1>1, <1>2, <1>4 DEF Dropping
  <2>3. Cardinality(Dropping(a)') = Cardinality(Dropping(a)) + 1
    BY <2>2, WaitsAre, FS_AddElement
  <2>4. Lacks(a) \in {0, 1} /\ Lacks(a)' \in {0, 1}
    BY DEF Lacks
  <2>5. /\ Grants' = Grants + 2 + 2 * Cardinality(Invokers)
        /\ Grants \in Nat
    BY <1>2, GrantsAre
  <2>6. n + Handable(a) <= 1 + Grants
    BY <2>1, HandedIs
  <2>7. n + Handable(a)' <= 1 + Grants'
    BY <2>3, <2>4, <2>5, <2>6, WaitsAre, WaitsAreNext DEF Handable
  <2>8. bucket'[a] \in {bucket[a], NoBucket} /\ passed'[a] = passed[a]
        /\ changes' \in {changes, changes + 1}
    BY <1>2
  <2> QED BY <1>5, <2>1, <2>7, <2>8, HandedMoved
<1> QED BY <1>2, <1>6, <1>7 DEF TokenInv

(* The bucket of an agent is dropped after a change of its limits.         *)
LEMMA BucketDropped ==
  ASSUME AgentsFinite, CallsInv, CallsInv', LimitsInv, LimitsInv', TokenInv,
         NEW i \in Invokers, ResetBucket(i)
  PROVE  TokenInv'
<1>1. PICK a \in Agents : a = inv[i].by
  BY InvIs, InvHas DEF CallsInv, ResetBucket, At
<1>2. /\ inv[i].at = "reset"
      /\ bucket' = [bucket EXCEPT ![a] = NoBucket]
      /\ inv' = [inv EXCEPT ![i] = Resting]
      /\ UNCHANGED <<minute, limits, passed, changes>>
  BY <1>1 DEF ResetBucket, At, Answer, history
<1>3. NoBucket \in BucketRows
  BY DEF NoBucket, BucketRows
<1>4. /\ bucket' \in [Agents -> BucketRows] /\ bucket'[a] = NoBucket
      /\ \A c \in Agents \ {a} : bucket'[c] = bucket[c]
  BY <1>2, <1>3 DEF TokenInv
<1>5. inv'[i].at = "none" /\ \A j \in Invokers \ {i} : inv'[j] = inv[j]
  BY <1>2, RestingIs DEF CallsInv, InvTyped
<1>6. minute' >= minute /\ changes' \in {changes, changes + 1}
  BY <1>2 DEF CallsInv, Minutes
<1>7. \A c \in Agents : Outdated(c)' \subseteq Outdated(c) /\ Dropping(c)' \subseteq Dropping(c)
  BY <1>2, <1>5 DEF Outdated, Dropping
<1>8. ASSUME NEW c \in Agents \ {a} PROVE \E n \in Nat : Handed(c, n)'
  <2>1. PICK n \in Nat : Handed(c, n)
    BY DEF TokenInv
  <2>2. limits'[c] = limits[c] /\ bucket'[c] = bucket[c] /\ passed'[c] = passed[c]
    BY <1>2, <1>4
  <2> QED BY <1>6, <1>7, <2>1, <2>2, HandedKept
<1>9. \E n \in Nat : Handed(a, n)'
  <2>1. PICK n \in Nat : Handed(a, n)
    BY DEF TokenInv
  <2>2. Dropping(a)' = Dropping(a) \ {i} /\ i \in Dropping(a)
    BY <1>1, <1>2, <1>5 DEF Dropping
  <2>3. Cardinality(Dropping(a)') = Cardinality(Dropping(a)) - 1
    BY <2>2, WaitsAre, FS_RemoveElement
  <2>4. Lacks(a) \in {0, 1} /\ Lacks(a)' \in {0, 1}
    BY DEF Lacks
  <2>5. Grants' = Grants /\ Grants \in Nat
    BY <1>2, GrantsAre
  <2>6. n + Handable(a) <= 1 + Grants
    BY <2>1, HandedIs
  <2>7. Cardinality(Outdated(a)') <= Cardinality(Outdated(a))
    BY <1>7, WaitsAre, FS_Subset
  <2>8. n + Handable(a)' <= 1 + Grants'
    BY <2>3, <2>4, <2>5, <2>6, <2>7, WaitsAre, WaitsAreNext DEF Handable
  <2>9. bucket'[a] \in {bucket[a], NoBucket} /\ passed'[a] = passed[a]
    BY <1>2, <1>4
  <2> QED BY <1>6, <2>1, <2>8, <2>9, HandedMoved
<1> QED BY <1>2, <1>4, <1>8, <1>9 DEF TokenInv

(* A restart, which drops every bucket and every request.                  *)
LEMMA BucketsLost ==
  ASSUME AgentsFinite, CallsInv, CallsInv', LimitsInv, LimitsInv', TokenInv, GatewayRestart
  PROVE  TokenInv'
<1>1. /\ changes' = changes + 1 /\ bucket' = [a \in Agents |-> NoBucket]
      /\ inv' = [i \in Invokers |-> Resting]
      /\ UNCHANGED <<minute, limits, passed>>
  BY DEF GatewayRestart
<1>2. bucket' \in [Agents -> BucketRows]
  BY <1>1 DEF NoBucket, BucketRows
<1>3. ASSUME NEW a \in Agents PROVE \E n \in Nat : Handed(a, n)'
  <2>1. PICK n \in Nat : Handed(a, n)
    BY DEF TokenInv
  <2>2. Outdated(a)' = {} /\ Dropping(a)' = {}
    BY <1>1, RestingIs DEF Outdated, Dropping
  <2>3. Cardinality(Outdated(a)') = 0 /\ Cardinality(Dropping(a)') = 0
    BY <2>2, FS_EmptySet
  <2>4. Lacks(a) \in {0, 1} /\ Lacks(a)' \in {0, 1}
    BY DEF Lacks
  <2>5. Grants' = Grants + 2 + 2 * Cardinality(Invokers) /\ Grants \in Nat
    BY <1>1, GrantsAre
  <2>6. n + Handable(a) <= 1 + Grants
    BY <2>1, HandedIs
  <2>7. n + Handable(a)' <= 1 + Grants'
    BY <2>3, <2>4, <2>5, <2>6, WaitsAre DEF Handable
  <2>8. /\ bucket'[a] \in {bucket[a], NoBucket} /\ passed'[a] = passed[a]
        /\ changes' \in {changes, changes + 1} /\ minute' >= minute
    BY <1>1 DEF CallsInv, Minutes
  <2> QED BY <2>1, <2>7, <2>8, HandedMoved
<1> QED BY <1>1, <1>2, <1>3 DEF TokenInv

(* Steps that no agent's bucket has to wait for.                           *)
LEMMA TokensStay ==
  ASSUME AgentsFinite, CallsInv, CallsInv', LimitsInv, LimitsInv', TokenInv,
         UNCHANGED <<limits, bucket, passed, changes>>, minute' >= minute,
         \A j \in Invokers :
           \/ inv'[j] = inv[j]
           \/ inv'[j].at = "bucket" /\ inv'[j].limits = limits[inv'[j].by]
           \/ inv'[j].at \notin {"bucket", "reset"}
  PROVE  TokenInv'
<1>1. \A c \in Agents : Outdated(c)' \subseteq Outdated(c) /\ Dropping(c)' \subseteq Dropping(c)
  BY DEF Outdated, Dropping
<1>2. ASSUME NEW c \in Agents PROVE \E n \in Nat : Handed(c, n)'
  <2>1. PICK n \in Nat : Handed(c, n)
    BY DEF TokenInv
  <2>2. /\ limits'[c] = limits[c] /\ bucket'[c] = bucket[c] /\ passed'[c] = passed[c]
        /\ changes' \in {changes, changes + 1}
    OBVIOUS
  <2> QED BY <1>1, <2>1, <2>2, HandedKept
<1> QED BY <1>2 DEF TokenInv

LEMMA TokenStep ==
  ASSUME AgentsFinite, CallsInv, LimitsInv, LogInv, TokenInv, [ToolCallsNext]_toolVars
  PROVE  TokenInv'
<1>1. CallsInv' /\ LimitsInv'
  BY MoneyStep DEF AgentsFinite
<1>2. minute \in Nat
  BY DEF CallsInv, Minutes
<1>3. ASSUME NEW i \in Invokers, Plain(i) PROVE TokenInv'
  <2>1. PICK x : NoToken(i, x)
    BY <1>3 DEF Plain
  <2>2. \A j \in Invokers : inv'[j] = IF j = i THEN x ELSE inv[j]
    BY <2>1, InvMoves DEF CallsInv, Stepped, NoToken
  <2> QED BY <1>1, <1>2, <2>1, <2>2, TokensStay DEF NoToken
<1>4. CASE \E i \in Invokers : TakeToken(i)
  <2>1. PICK i \in Invokers : TakeToken(i)
    BY <1>4
  <2>2. PICK a \in Agents : inv[i].by = a
    BY <2>1, InvIs, InvHas DEF CallsInv, TakeToken, At
  <2> QED BY <1>1, <2>1, <2>2, TokenTaken
<1>5. CASE \/ \E i \in Invokers : LimitsWrite(i) \/ ResetBucket(i)
           \/ GatewayRestart
  BY <1>1, <1>5, LimitsChanged, BucketDropped, BucketsLost
<1>6. ASSUME NEW i \in Invokers, CheckHour(i) \/ CallTool(i) \/ AuditCall(i) \/ InvokeLost(i)
      PROVE  TokenInv'
  <2>1. UNCHANGED <<minute, limits, bucket, passed, changes>>
    BY <1>6 DEF CheckHour, CallTool, AuditCall, InvokeLost, history
  <2>2. /\ inv'[i].at \in {"none", "day", "store", "audit"}
        /\ \A j \in Invokers \ {i} : inv'[j] = inv[j]
    <3>1. CASE Answer(i)
      BY <3>1, RestingIs DEF Answer, CallsInv, InvTyped
    <3>2. CASE /\ CheckHour(i) \/ CallTool(i)
               /\ \E s \in {"day", "store", "audit"} : Goto(i, s)
      <4>1. PICK s \in {"day", "store", "audit"} : inv' = [inv EXCEPT ![i].at = s]
        BY <3>2 DEF Goto
      <4>2. inv[i].at \in {"hour", "call"}
        BY <3>2 DEF CheckHour, CallTool, At
      <4>3. inv'[i].at = s
        BY <4>1, <4>2, InvIs, InvHas DEF CallsInv, InvTyped
      <4> QED BY <4>1, <4>3 DEF CallsInv, InvTyped
    <3> QED BY <1>6, <3>1, <3>2 DEF CheckHour, CallTool, AuditCall, InvokeLost
  <2> QED BY <1>1, <1>2, <2>1, <2>2, TokensStay
<1>7. CASE \/ \E c \in Callers : RecordLlm(c)
           \/ RegisterTool \/ DropEntry \/ MinutePasses \/ UNCHANGED toolVars
  <2>1. UNCHANGED <<limits, bucket, passed, changes, inv>> /\ minute' >= minute
    BY <1>2, <1>7 DEF RecordLlm, RegisterTool, DropEntry, MinutePasses, toolVars, history
  <2> QED BY <1>1, <2>1, TokensStay
<1>8. QED
  <2>1. CASE UNCHANGED toolVars
    BY <1>7, <2>1
  <2>2. CASE ToolCallsNext
    <3>1. ASSUME NEW i \in Invokers,
                 \/ \E c \in Callers : InvokeStart(i, c)
                 \/ ReadLimits(i) \/ CheckDay(i) \/ CheckTenantRpm(i) \/ CheckTenantCost(i)
                 \/ RecordInvoke(i) \/ GetTool(i) \/ Lookup(i) \/ StoreResult(i)
                 \/ DeleteTool(i) \/ ClearCache(i)
                 \/ \E a \in Agents : DeleteLimits(i, a) \/ \E b \in Bodies : SetLimitsRead(i, a, b)
          PROVE  TokenInv'
      BY <1>3, <3>1, PlainSteps
    <3> QED BY <1>4, <1>5, <1>6, <1>7, <2>2, <3>1 DEF ToolCallsNext
  <2> QED BY <2>1, <2>2

LEMMA TokenStart ==
  ASSUME AgentsFinite, CallsInv, LimitsInv, ToolCallsInit
  PROVE  TokenInv
<1>1. /\ bucket = [a \in Agents |-> NoBucket] /\ passed = [a \in Agents |-> 0]
      /\ changes = 0 /\ minute = 1 /\ \A i \in Invokers : inv[i].at = "none"
  BY RestingIs DEF ToolCallsInit
<1>2. ASSUME NEW a \in Agents PROVE Handed(a, 0)
  <2>1. Cardinality(Outdated(a)) = 0 /\ Cardinality(Dropping(a)) = 0
    <3>1. Outdated(a) = {} /\ Dropping(a) = {}
      BY <1>1 DEF Outdated, Dropping
    <3> QED BY <3>1, FS_EmptySet
  <2>2. Lacks(a) \in {0, 1}
    BY DEF Lacks
  <2>3. 0 + Handable(a) <= 1 + Grants
    BY <2>1, <2>2, GrantsAre DEF Handable
  <2>4. Cap("burst") * 0 + Cap("rpm") * (minute - 1) = 0
    <3>1. Cap("burst") \in Nat /\ Cap("rpm") \in Nat
      BY CapIs DEF AgentsFinite, Fields
    <3>2. minute - 1 = 0
      BY <1>1
    <3> QED BY <3>1, <3>2
  <2>5. passed[a] = 0 /\ bucket[a] = NoBucket
    BY <1>1
  <2> QED BY <2>3, <2>4, <2>5, HandedIs DEF Held
<1>3. NoBucket \in BucketRows
  BY DEF NoBucket, BucketRows
<1> QED BY <1>1, <1>2, <1>3 DEF TokenInv

LEMMA FullAreGranted ==
  ASSUME AgentsFinite, CallsInv, LimitsInv, TokenInv
  PROVE  TokensBounded
<1> SUFFICES ASSUME NEW a \in Agents
             PROVE  passed[a] <= Cap("burst") * (1 + Grants) + Cap("rpm") * (minute - 1)
  BY DEF TokensBounded, Grants
<1>1. PICK n \in Nat : Handed(a, n)
  BY DEF TokenInv
<1>2. /\ n + Handable(a) <= 1 + Grants
      /\ passed[a] <= Cap("burst") * n + Cap("rpm") * (minute - 1)
  BY <1>1, HandedIs
<1>3. Grants \in Nat /\ Handable(a) \in Nat
  BY GrantsAre, WaitsAre DEF Handable, Lacks
<1>4. n <= 1 + Grants /\ 1 + Grants \in Nat
  BY <1>2, <1>3
<1>5. Cap("burst") \in Nat /\ Cap("rpm") \in Nat
  BY CapIs DEF AgentsFinite, Fields
<1>6. /\ Cap("burst") * n \in Nat /\ Cap("burst") * (1 + Grants) \in Nat
      /\ Cap("burst") * n <= Cap("burst") * (1 + Grants)
  BY <1>4, <1>5, Product
<1>7. minute - 1 \in Nat /\ passed[a] \in Nat
  BY DEF CallsInv, Minutes, TokenInv
<1>8. Cap("rpm") * (minute - 1) \in Nat
  BY <1>5, <1>7, Product
<1> QED BY <1>2, <1>6, <1>7, <1>8

(* An agent gets its burst and then its rate, whatever overlaps: each      *)
(* change of its limits and each restart grants it no more full buckets    *)
(* than one, and two for each request at once (gateway/limits.py).         *)
THEOREM TokensAreBounded ==
  ASSUME AgentsFinite
  PROVE  ToolCallsSpec => []TokensBounded
<1> DEFINE Tokens == CallsInv /\ LimitsInv /\ LogInv /\ TokenInv
<1>1. ToolCallsInit => Tokens
  BY CallsInvStart, LimitsStart, LogStart, TokenStart
<1>2. Tokens /\ [ToolCallsNext]_toolVars => Tokens'
  BY MoneyStep, TokenStep DEF AgentsFinite
<1>3. Tokens => TokensBounded
  BY FullAreGranted
<1> QED BY <1>1, <1>2, <1>3, PTL DEF ToolCallsSpec

--------------------------------------------------------------------------------
(***************************************************************************)
(* The types of the tool calls.  What a call or the cache names was once   *)
(* registered.                                                             *)
(***************************************************************************)
Calling == {"lookup", "call", "store", "audit"}
Known == \A i \in Invokers : inv[i].at \in Calling => inv[i].tool <= version
EntryTyped == /\ cache.of \in Nat /\ cache.of <= version
              /\ cache.until \in Nat /\ cache.until <= minute + CacheFor
RegistryInv ==
  /\ version \in 0..MaxVersions /\ tool \in {0, version} /\ Known /\ EntryTyped
  /\ invoked \in [Minutes -> Nat] /\ called \in 0..MaxCalls /\ llm \in 0..MaxLlm

LEMMA BoundsAre ==
  /\ MaxVersions \in Nat /\ MaxVersions >= 1 /\ MaxCalls \in Nat /\ MaxLlm \in Nat
  /\ CacheFor \in Nat /\ LastMinute \in Nat
BY ToolCallAssumption

LEMMA NoEntryIs == NoEntry.of = 0 /\ NoEntry.until = 0
BY DEF NoEntry

LEMMA RegistryStart == ToolCallsInit => RegistryInv
<1> SUFFICES ASSUME ToolCallsInit PROVE RegistryInv
  OBVIOUS
<1>1. Known
  BY RestingIs DEF ToolCallsInit, Known, Calling
<1>2. EntryTyped
  BY BoundsAre, NoEntryIs DEF ToolCallsInit, EntryTyped
<1> QED BY <1>1, <1>2, BoundsAre DEF ToolCallsInit, RegistryInv

(* A request that moves to a stage before the call, or away from it.       *)
LEMMA AwayFromCall ==
  ASSUME CallsInv, NEW i \in Invokers,
         \/ \E c \in Callers : InvokeStart(i, c)
         \/ ReadLimits(i) \/ TakeToken(i) \/ CheckHour(i) \/ CheckDay(i)
         \/ CheckTenantRpm(i) \/ CheckTenantCost(i) \/ RecordInvoke(i) \/ AuditCall(i)
         \/ DeleteTool(i) \/ ClearCache(i) \/ LimitsWrite(i) \/ ResetBucket(i)
         \/ InvokeLost(i)
         \/ \E a \in Agents : DeleteLimits(i, a) \/ \E b \in Bodies : SetLimitsRead(i, a, b)
  PROVE  \E x : x.at \notin Calling /\ inv' = [inv EXCEPT ![i] = x]
<1>1. ASSUME Answer(i)
      PROVE  \E x : x.at \notin Calling /\ inv' = [inv EXCEPT ![i] = x]
  BY <1>1, RestingIs DEF Answer, Calling
<1>2. ASSUME CheckHour(i)
      PROVE  \E x : x.at \notin Calling /\ inv' = [inv EXCEPT ![i] = x]
  <2>1. inv[i] \in Limited
    BY <1>2, InvIs DEF CheckHour, At, CallsInv
  <2>2. CASE Goto(i, "day")
    BY <2>1, <2>2, MovedOn DEF CallsInv, Calling
  <2> QED BY <1>1, <1>2, <2>2 DEF CheckHour
<1>3. ASSUME RecordInvoke(i)
      PROVE  \E x : x.at \notin Calling /\ inv' = [inv EXCEPT ![i] = x]
  <2>1. inv[i] \in Checked
    BY <1>3, InvIs DEF RecordInvoke, At, CallsInv
  <2> QED BY <1>3, <2>1, MovedOn DEF CallsInv, Calling, RecordInvoke
<1>4. ASSUME \/ \E c \in Callers : InvokeStart(i, c)
             \/ ReadLimits(i)
             \/ \E a \in Agents : DeleteLimits(i, a) \/ \E b \in Bodies : SetLimitsRead(i, a, b)
      PROVE  \E x : x.at \notin Calling /\ inv' = [inv EXCEPT ![i] = x]
  BY <1>4 DEF InvokeStart, ReadLimits, DeleteLimits, SetLimitsRead, Calling
<1>5. ASSUME TakeToken(i) \/ CheckDay(i) \/ CheckTenantCost(i)
      PROVE  \E x : x.at \notin Calling /\ inv' = [inv EXCEPT ![i] = x]
  BY <1>1, <1>5 DEF TakeToken, CheckDay, CheckTenantCost, Calling
<1>6. ASSUME CheckTenantRpm(i)
      PROVE  \E x : x.at \notin Calling /\ inv' = [inv EXCEPT ![i] = x]
  BY <1>1, <1>6 DEF CheckTenantRpm, Calling
<1>7. ASSUME DeleteTool(i) \/ LimitsWrite(i)
      PROVE  \E x : x.at \notin Calling /\ inv' = [inv EXCEPT ![i] = x]
  BY <1>7 DEF DeleteTool, LimitsWrite, Calling
<1>8. ASSUME AuditCall(i) \/ ClearCache(i) \/ ResetBucket(i) \/ InvokeLost(i)
      PROVE  Answer(i)
  BY <1>8 DEF AuditCall, ClearCache, ResetBucket, InvokeLost
<1> QED BY <1>1, <1>2, <1>3, <1>4, <1>5, <1>6, <1>7, <1>8

LEMMA KnownAway ==
  ASSUME CallsInv, RegistryInv, NEW i \in Invokers, UNCHANGED version,
         NEW x, x.at \in Calling => x.tool <= version, inv' = [inv EXCEPT ![i] = x]
  PROVE  Known'
BY DEF CallsInv, InvTyped, RegistryInv, Known

(* A registration, its entry and the bounds after a step.                  *)
LEMMA RegistryKept ==
  ASSUME CallsInv, CallsInv', RegistryInv, Known',
         tool' \in {0, tool}, UNCHANGED version,
         UNCHANGED cache \/ cache' = NoEntry, minute' >= minute,
         invoked' \in [Minutes -> Nat], UNCHANGED <<called, llm>>
  PROVE  RegistryInv'
<1>1. minute \in Nat /\ minute' \in Nat
  BY DEF CallsInv, Minutes
<1>2. EntryTyped'
  BY <1>1, BoundsAre, NoEntryIs DEF RegistryInv, EntryTyped, CallsInv
<1> QED BY <1>2 DEF RegistryInv

LEMMA RegistryStep ==
  ASSUME CallsInv, CallsInv', RegistryInv, [ToolCallsNext]_toolVars
  PROVE  RegistryInv'
<1>1. minute \in Nat /\ version \in Nat /\ tool \in Nat /\ invoked \in [Minutes -> Nat]
  BY DEF CallsInv, RegistryInv, Minutes
<1>2. ASSUME NEW i \in Invokers,
             \/ \E c \in Callers : InvokeStart(i, c)
             \/ ReadLimits(i) \/ TakeToken(i) \/ CheckHour(i) \/ CheckDay(i)
             \/ CheckTenantRpm(i) \/ CheckTenantCost(i) \/ RecordInvoke(i) \/ AuditCall(i)
             \/ DeleteTool(i) \/ ClearCache(i) \/ LimitsWrite(i) \/ ResetBucket(i)
             \/ InvokeLost(i)
             \/ \E a \in Agents : DeleteLimits(i, a) \/ \E b \in Bodies : SetLimitsRead(i, a, b)
      PROVE  RegistryInv'
  <2>1. PICK x : x.at \notin Calling /\ inv' = [inv EXCEPT ![i] = x]
    BY <1>2, AwayFromCall
  <2>2. /\ UNCHANGED <<minute, version, called, llm>>
        /\ UNCHANGED tool \/ tool' = 0
        /\ UNCHANGED cache \/ cache' = NoEntry
    BY <1>2 DEF InvokeStart, ReadLimits, TakeToken, CheckHour, CheckDay, CheckTenantRpm,
                CheckTenantCost, RecordInvoke, AuditCall, DeleteTool, ClearCache, LimitsWrite,
                ResetBucket, InvokeLost, DeleteLimits, SetLimitsRead, registered, history, Cleared
  <2>3. UNCHANGED invoked \/ invoked' = [invoked EXCEPT ![minute] = @ + 1]
    BY <1>2 DEF InvokeStart, ReadLimits, TakeToken, CheckHour, CheckDay, CheckTenantRpm,
                CheckTenantCost, RecordInvoke, AuditCall, DeleteTool, ClearCache, LimitsWrite,
                ResetBucket, InvokeLost, DeleteLimits, SetLimitsRead
  <2>4. invoked' \in [Minutes -> Nat]
    BY <1>1, <2>3
  <2>5. Known'
    BY <2>1, <2>2, KnownAway
  <2> QED BY <1>1, <2>2, <2>4, <2>5, RegistryKept
<1>3. ASSUME NEW i \in Invokers, GetTool(i) PROVE RegistryInv'
  <2>1. /\ UNCHANGED <<minute, invoked, tool, version, cache, called, llm>>
        /\ \/ Answer(i)
           \/ \E at, by, cached : inv' = [inv EXCEPT ![i] =
                [at |-> at, by |-> by, tool |-> tool, cached |-> cached]]
    BY <1>3 DEF GetTool, registered, history
  <2>2. \E x : (x.at \in Calling => x.tool <= version) /\ inv' = [inv EXCEPT ![i] = x]
    <3>1. tool <= version
      BY <1>1 DEF RegistryInv
    <3>2. CASE Answer(i)
      BY <3>2, RestingIs DEF Answer, Calling
    <3> QED BY <2>1, <3>1, <3>2
  <2>3. Known'
    BY <2>1, <2>2, KnownAway
  <2> QED BY <1>1, <2>1, <2>3, RegistryKept
<1>4. ASSUME NEW i \in Invokers, Lookup(i) \/ CallTool(i) \/ StoreResult(i)
      PROVE  /\ inv[i].at \in Calling /\ inv[i].tool \in Nat /\ inv[i].tool <= version
             /\ UNCHANGED version => Known'
  <2>1. inv[i].at \in Calling /\ inv[i] \in Called
    BY <1>4, InvIs DEF CallsInv, Lookup, CallTool, StoreResult, At, Calling
  <2>2. inv[i].tool \in Nat /\ inv[i].tool <= version
    BY <2>1, InvHas DEF RegistryInv, Known
  <2>3. \E x : (x.at \in Calling => x.tool <= version) /\ inv' = [inv EXCEPT ![i] = x]
    <3>1. CASE Answer(i)
      BY <3>1, RestingIs DEF Answer, Calling
    <3>2. ASSUME NEW at \in Calling, Goto(i, at)
          PROVE  \E x : (x.at \in Calling => x.tool <= version) /\ inv' = [inv EXCEPT ![i] = x]
      BY <2>1, <2>2, <3>2, MovedOn DEF CallsInv, Calling
    <3>3. Answer(i) \/ \E at \in Calling : Goto(i, at)
      BY <1>4 DEF Lookup, CallTool, StoreResult, Calling
    <3> QED BY <3>1, <3>2, <3>3
  <2> QED BY <2>1, <2>2, <2>3, KnownAway
<1>5. ASSUME NEW i \in Invokers, Lookup(i) PROVE RegistryInv'
  <2>1. /\ UNCHANGED <<minute, invoked, tool, version, called, llm>>
        /\ UNCHANGED cache \/ cache' = NoEntry
    BY <1>5 DEF Lookup, history
  <2>2. Known'
    BY <1>4, <1>5, <2>1
  <2> QED BY <1>1, <2>1, <2>2, RegistryKept
<1>6. ASSUME NEW i \in Invokers, CallTool(i) PROVE RegistryInv'
  <2>1. /\ UNCHANGED <<minute, invoked, tool, version, cache, llm>>
        /\ called < MaxCalls /\ called' = called + 1
    BY <1>6 DEF CallTool, registered
  <2>2. Known'
    BY <1>4, <1>6, <2>1
  <2>3. called' \in 0..MaxCalls
    BY <2>1, BoundsAre DEF RegistryInv
  <2> QED BY <2>1, <2>2, <2>3 DEF RegistryInv, EntryTyped
<1>7. ASSUME NEW i \in Invokers, StoreResult(i) PROVE RegistryInv'
  <2>1. /\ UNCHANGED <<minute, invoked, tool, version, called, llm>>
        /\ cache' = [of |-> inv[i].tool, until |-> minute + CacheFor]
    BY <1>7 DEF StoreResult, history
  <2>2. Known' /\ inv[i].tool \in Nat /\ inv[i].tool <= version
    BY <1>4, <1>7, <2>1
  <2>3. cache'.of = inv[i].tool /\ cache'.until = minute + CacheFor
    BY <2>1
  <2>4. EntryTyped'
    BY <1>1, <2>1, <2>2, <2>3, BoundsAre DEF EntryTyped
  <2> QED BY <2>1, <2>2, <2>4 DEF RegistryInv
<1>8. ASSUME NEW c \in Callers, RecordLlm(c) PROVE RegistryInv'
  <2>1. /\ UNCHANGED <<minute, invoked, inv, tool, version, cache, called>>
        /\ llm < MaxLlm /\ llm' = llm + 1
    BY <1>8 DEF RecordLlm, registered
  <2>2. llm' \in 0..MaxLlm
    BY <2>1, BoundsAre DEF RegistryInv
  <2> QED BY <2>1, <2>2 DEF RegistryInv, EntryTyped, Known
<1>9. CASE RegisterTool
  <2>1. /\ UNCHANGED <<minute, invoked, inv, cache, called, llm>>
        /\ version < MaxVersions /\ version' = version + 1 /\ tool' = version + 1
    BY <1>9 DEF RegisterTool, history
  <2>2. Known'
    <3> SUFFICES ASSUME NEW i \in Invokers, inv[i].at \in Calling
                 PROVE  inv[i].tool <= version'
      BY <2>1 DEF Known
    <3>1. inv[i].tool \in Nat /\ inv[i].tool <= version
      BY InvIs, InvHas DEF CallsInv, RegistryInv, Known, Calling
    <3> QED BY <1>1, <2>1, <3>1
  <2>3. EntryTyped'
    BY <1>1, <2>1 DEF RegistryInv, EntryTyped
  <2>4. version' \in 0..MaxVersions
    BY <1>1, <2>1, BoundsAre
  <2> QED BY <2>1, <2>2, <2>3, <2>4 DEF RegistryInv
<1>10. CASE DropEntry \/ UNCHANGED toolVars
  <2>1. /\ UNCHANGED <<minute, invoked, inv, tool, version, called, llm>>
        /\ UNCHANGED cache \/ cache' = NoEntry
    BY <1>10 DEF DropEntry, toolVars, history
  <2>2. Known'
    BY <2>1 DEF RegistryInv, Known
  <2> QED BY <1>1, <2>1, <2>2, RegistryKept
<1>11. CASE GatewayRestart
  <2>1. /\ UNCHANGED <<minute, tool, version, cache, called, llm>>
        /\ invoked' = [t \in Minutes |-> 0] /\ inv' = [i \in Invokers |-> Resting]
    BY <1>11 DEF GatewayRestart, registered
  <2>2. Known'
    BY <2>1, RestingIs DEF Known, Calling
  <2> QED BY <1>1, <2>1, <2>2, RegistryKept
<1>12. CASE MinutePasses
  <2>1. /\ UNCHANGED <<invoked, inv, tool, version, cache, called, llm>>
        /\ minute' = minute + 1
    BY <1>12 DEF MinutePasses, registered, history
  <2>2. Known'
    BY <2>1 DEF RegistryInv, Known
  <2> QED BY <1>1, <2>1, <2>2, RegistryKept
<1>13. CASE ToolCallsNext
  BY <1>2, <1>3, <1>5, <1>6, <1>7, <1>8, <1>9, <1>10, <1>11, <1>12, <1>13 DEF ToolCallsNext
<1> QED BY <1>10, <1>13

(* Rows are numbered from 1.                                               *)
RowsNumbered == \A r \in spent : r.n >= 1

LEMMA NumbersStep ==
  ASSUME LogInv, RowsNumbered, [ToolCallsNext]_toolVars
  PROVE  RowsNumbered'
<1>1. ASSUME NEW c, spent' = Billed(c) PROVE RowsNumbered'
  <2> DEFINE n == Cardinality(SpentNow(c)) + 1
             new == [by |-> c, at |-> minute, n |-> n]
  <2>1. SpentNow(c) \in SUBSET spent
    BY DEF SpentNow, SpentBy
  <2>2. n >= 1
    BY <2>1, FS_Subset, FS_CardinalityType DEF LogInv
  <2>3. spent' = spent \cup {new} /\ new.n = n
    BY <1>1 DEF Billed
  <2> HIDE DEF new, n
  <2> QED BY <2>2, <2>3 DEF RowsNumbered
<1>2. UNCHANGED spent \/ \E c : spent' = Billed(c)
  BY DEF ToolCallsNext, toolVars, InvokeStart, ReadLimits, TakeToken, CheckHour, CheckDay,
         CheckTenantRpm, CheckTenantCost, RecordInvoke, GetTool, Lookup, CallTool, StoreResult,
         AuditCall, RecordLlm, RegisterTool, DeleteTool, ClearCache, DropEntry, SetLimitsRead,
         LimitsWrite, DeleteLimits, ResetBucket, InvokeLost, GatewayRestart, MinutePasses
<1> QED BY <1>1, <1>2 DEF RowsNumbered

(* A row's number is not above the count of rows, which the calls bound.   *)
LEMMA CostsTyped ==
  ASSUME IsFiniteSet(Invokers), CallsInv, LogInv, RegistryInv, RowsNumbered
  PROVE  spent \subseteq Costs
<1> SUFFICES ASSUME NEW r \in spent PROVE r \in Costs
  OBVIOUS
<1>1. /\ r \in [by : Callers, at : Minutes, n : Nat] /\ r.n >= 1
      /\ r.n <= Cardinality(SameMinute(r))
  BY DEF LogInv, RowsNumbered
<1>2. Owing \in SUBSET Invokers /\ SameMinute(r) \in SUBSET spent
  BY DEF Owing, SameMinute
<1>3. /\ Cardinality(Owing) \in Nat /\ Cardinality(spent) \in Nat
      /\ Cardinality(SameMinute(r)) \in Nat /\ Cardinality(SameMinute(r)) <= Cardinality(spent)
  BY <1>2, FS_Subset, FS_CardinalityType DEF LogInv
<1>4. /\ called + llm = Cardinality(spent) + unbilled + Cardinality(Owing)
      /\ called \in 0..MaxCalls /\ llm \in 0..MaxLlm /\ unbilled \in Nat
  BY DEF LogInv, RegistryInv
<1>5. Cardinality(spent) <= MaxCalls + MaxLlm
  BY <1>3, <1>4, BoundsAre
<1>6. r.n \in 1..MaxCalls + MaxLlm
  BY <1>1, <1>3, <1>5, BoundsAre
<1> QED BY <1>1, <1>6 DEF Costs

LEMMA StagesAre ==
  ASSUME CallsInv, NEW i \in Invokers
  PROVE  inv[i].at \in InvokeStages \cup {"none", "write", "delete", "reset", "clear"}
<1>1. inv[i] \in Invocations
  BY DEF CallsInv, InvTyped
<1> QED BY <1>1, InvHas DEF Invocations, InvokeStages

LEMMA ToolCallTypes ==
  ASSUME AgentsFinite, CallsInv, LimitsInv, LogInv, TokenInv, RegistryInv, RowsNumbered
  PROVE  ToolCallsTypeOK
<1>1. ASSUME NEW a \in Agents
      PROVE  /\ DOMAIN limits[a] = Fields
             /\ \A f \in Fields : AtMost(f, limits[a][f])
             /\ bucket[a].tokens <= bucket[a].burst /\ bucket[a].last <= minute
  <2>1. limits[a] \in [Fields -> Nat] /\ Legal(limits[a])
    BY DEF CallsInv, LimitsInv, LimitRows
  <2>2. ASSUME NEW f \in Fields PROVE AtMost(f, limits[a][f])
    <3>1. limits[a][f] <= limits[a][f]
      BY <2>1
    <3> QED BY <2>1, <3>1 DEF Legal, Sources, AtMost
  <2>3. minute \in Nat /\ NoBucket.tokens = 0 /\ NoBucket.burst = 0 /\ NoBucket.last = 0
    BY DEF CallsInv, Minutes, NoBucket
  <2>4. PICK n \in Nat : Handed(a, n)
    BY DEF TokenInv
  <2>5. bucket[a].tokens <= bucket[a].burst /\ bucket[a].last <= minute
    BY <2>3, <2>4 DEF Handed
  <2> QED BY <2>1, <2>2, <2>5
<1>2. spent \subseteq Costs
  BY CostsTyped DEF AgentsFinite
<1>3. cache.of <= version /\ cache.until <= minute + CacheFor
  BY DEF RegistryInv, EntryTyped
<1>4. minute \in Minutes
  BY DEF CallsInv
<1> QED BY <1>1, <1>2, <1>3, <1>4, StagesAre DEF ToolCallsTypeOK, RegistryInv

(* Limits, buckets, windows, the log and the cache are of the kinds the    *)
(* gateway's code takes them for, for any agents, requests, limits and     *)
(* bounds (gateway/api.py invoke).                                         *)
THEOREM ToolCallsTypeCorrect ==
  ASSUME AgentsFinite
  PROVE  ToolCallsSpec => []ToolCallsTypeOK
<1> DEFINE Typed == /\ CallsInv /\ LimitsInv /\ LogInv /\ TokenInv
                    /\ RegistryInv /\ RowsNumbered
<1>1. ToolCallsInit => Typed
  <2>1. ToolCallsInit => RowsNumbered
    BY DEF ToolCallsInit, RowsNumbered
  <2> QED BY <2>1, CallsInvStart, LimitsStart, LogStart, TokenStart, RegistryStart
<1>2. Typed /\ [ToolCallsNext]_toolVars => Typed'
  <2> SUFFICES ASSUME Typed, [ToolCallsNext]_toolVars PROVE Typed'
    OBVIOUS
  <2>1. CallsInv' /\ LimitsInv' /\ LogInv'
    BY MoneyStep DEF AgentsFinite
  <2> QED BY <2>1, TokenStep, RegistryStep, NumbersStep
<1>3. Typed => ToolCallsTypeOK
  BY ToolCallTypes
<1> QED BY <1>1, <1>2, <1>3, PTL DEF ToolCallsSpec

(* The gateway's parts together: types as above, hash chain and tokens of  *)
(* the kinds their modules name, and buckets that give no more than they   *)
(* hold.                                                                   *)
THEOREM GatewayIsSound ==
  ASSUME AgentsFinite
  PROVE  GatewaySpec => []GatewaySound
<1>1. AuditSpec => []AuditTypeOK
  <2>1. ChainInv => AuditTypeOK
    BY DEF ChainInv
  <2> QED BY <2>1, ChainStart, ChainStep, PTL DEF AuditSpec
<1>2. OAuthSpec => []OAuthTypeOK
  <2>1. OAuthInv => OAuthTypeOK
    BY DEF OAuthInv
  <2> QED BY <2>1, OAuthStart, OAuthStep, PTL DEF OAuthSpec
<1>3. ToolCallsTypeOK /\ AuditTypeOK /\ OAuthTypeOK /\ TokensBounded => GatewaySound
  BY DEF GatewaySound
<1> QED BY <1>1, <1>2, <1>3, ToolCallsTypeCorrect, TokensAreBounded, PTL DEF GatewaySpec

--------------------------------------------------------------------------------
(***************************************************************************)
(* Transactions.  What is recorded of the calls tells what has happened to *)
(* their effects.                                                          *)
(***************************************************************************)

USE TransactionAssumption

(* The call a handler works on, where it works on one, and a bound of the  *)
(* seqs, without which MAX(seq) and a last call need not exist.            *)
Busy == {"invoke", "record", "recordFailed", "undoInvoke", "undoRecord"}
CallNamed == \A x \in Handlers : h[x].at \in Busy => h[x].call \in Calls
Bounded == \E b \in Nat : \A c \in Calls : seq[c] <= b
TypeInv == SagaTypeOK /\ CallNamed /\ Bounded

LEMMA FirstIsFirst ==
  ASSUME TypeInv, NEW S \in SUBSET Calls, S # {}
  PROVE  First(S) \in S /\ \A d \in S : seq[First(S)] <= seq[d]
<1> DEFINE N == {seq[c] : c \in S}
<1>1. N \in SUBSET Nat /\ N # {}
  BY DEF TypeInv, SagaTypeOK
<1>2. PICK n \in N : \A m \in N : n <= m
  BY <1>1, Least
<1>3. \E c \in S : \A d \in S : seq[c] <= seq[d]
  BY <1>2
<1> QED BY <1>3 DEF First

LEMMA LastIsLast ==
  ASSUME TypeInv, NEW S \in SUBSET Calls, S # {}
  PROVE  Last(S) \in S /\ \A d \in S : seq[d] <= seq[Last(S)]
<1> DEFINE N == {seq[c] : c \in S}
<1>1. N \in SUBSET Nat /\ N # {}
  BY DEF TypeInv, SagaTypeOK
<1>2. PICK b \in Nat : \A c \in Calls : seq[c] <= b
  BY DEF TypeInv, Bounded
<1>3. \A n \in N : n <= b
  BY <1>2
<1>4. \E n \in N : \A m \in N : m <= n
  BY <1>1, <1>3, Greatest
<1>5. \E c \in S : \A d \in S : seq[d] <= seq[c]
  BY <1>4
<1> QED BY <1>5 DEF Last

(* MAX(seq) + 1 exceeds the seq of every row, and is 0 or just one more.   *)
LEMMA NextSeqIsNext ==
  ASSUME TypeInv
  PROVE  /\ NextSeq \in Nat
         /\ \A c \in Rows : seq[c] < NextSeq
         /\ NextSeq = 0 \/ \E c \in Rows : NextSeq = seq[c] + 1
<1> DEFINE N == {0} \cup {seq[c] + 1 : c \in Rows}
<1>1. N \in SUBSET Nat /\ N # {}
  BY DEF TypeInv, SagaTypeOK, Rows
<1>2. PICK b \in Nat : \A c \in Calls : seq[c] <= b
  BY DEF TypeInv, Bounded
<1>3. b + 1 \in Nat /\ \A n \in N : n <= b + 1
  BY <1>2 DEF Rows, TypeInv, SagaTypeOK
<1>4. \E n \in N : \A m \in N : m <= n
  BY <1>1, <1>3, Greatest
<1>5. \E n \in N : \A c \in Rows : seq[c] < n
  <2>1. PICK n \in N : \A m \in N : m <= n
    BY <1>4
  <2>2. \A c \in Rows : seq[c] + 1 <= n /\ seq[c] \in Nat /\ n \in Nat
    BY <1>1, <2>1 DEF TypeInv, SagaTypeOK, Rows
  <2> QED BY <2>2
<1>6. NextSeq \in N /\ \A c \in Rows : seq[c] < NextSeq
  BY <1>5 DEF NextSeq
<1> QED BY <1>1, <1>6

--------------------------------------------------------------------------------
(* A handler that moves on keeps the table of handlers well-formed.        *)
LEMMA Moved ==
  ASSUME TypeInv, NEW x \in Handlers, NEW k \in Handler, k.at \in Busy => k.call \in Calls,
         h' = [h EXCEPT ![x] = k]
  PROVE  h' \in [Handlers -> Handler] /\ CallNamed'
  BY DEF TypeInv, SagaTypeOK, CallNamed

LEMMA IdleTyped == Idle \in Handler /\ Idle.at \notin Busy
  BY DEF Idle, Handler, Points, Busy

LEMMA Left ==
  ASSUME TypeInv, NEW x \in Handlers, Leave(x)
  PROVE  h' \in [Handlers -> Handler] /\ CallNamed'
  BY IdleTyped, Moved DEF Leave

(* A step of one handler that leaves seq, comp and the outside world alone *)
(* and writes a status or none.                                            *)
LEMMA StatusOnly ==
  ASSUME TypeInv, h' \in [Handlers -> Handler], CallNamed', tx' \in TxStatuses,
         status' \in [Calls -> CallStatuses], UNCHANGED <<seq, comp, world, alone>>
  PROVE  TypeInv'
  BY DEF TypeInv, SagaTypeOK, Bounded, world

LEMMA SetCallTyped ==
  ASSUME TypeInv, NEW c \in Calls, NEW s \in CallStatuses, SetCall(c, s)
  PROVE  status' \in [Calls -> CallStatuses]
  BY DEF TypeInv, SagaTypeOK, SetCall

LEMMA SetTxTyped ==
  ASSUME TypeInv, NEW s \in TxStatuses, SetTx(s)
  PROVE  tx' \in TxStatuses
  BY DEF TypeInv, SagaTypeOK, SetTx

LEMMA Started ==
  ASSUME TypeInv, NEW x \in Handlers, NEW allowed, NEW at \in Points \ Busy, Start(x, allowed, at)
  PROVE  TypeInv'
<1> DEFINE k == [Idle EXCEPT !.at = at]
<1>1. k \in Handler /\ k.at \notin Busy
  BY IdleTyped DEF Handler
<1>2. h' = [h EXCEPT ![x] = k]
  BY DEF Start
<1> HIDE DEF k
<1>3. h' \in [Handlers -> Handler] /\ CallNamed'
  BY <1>1, <1>2, Moved
<1> QED BY <1>3 DEF Start, TypeInv, SagaTypeOK, Bounded, rows, world

LEMMA AddTyped ==
  ASSUME TypeInv, NEW x \in Handlers, Add(x)
  PROVE  TypeInv'
<1>0. SagaTypeOK /\ h[x] \in Handler
  BY DEF TypeInv, SagaTypeOK
<1>1. CASE AddStart(x)
  BY <1>1, Started DEF AddStart, Points, Busy
<1>2. CASE AddSeq(x)
  <2> DEFINE k == [h[x] EXCEPT !.at = "addInsert", !.seq = NextSeq]
  <2>1. k \in Handler /\ k.at \notin Busy
    BY <1>0, NextSeqIsNext DEF Handler, Points, Busy
  <2>2. h' = [h EXCEPT ![x] = k]
    BY <1>0, <1>2 DEF AddSeq, SagaTypeOK
  <2> HIDE DEF k
  <2> QED BY <1>0, <1>2, <2>1, <2>2, Moved, StatusOnly DEF AddSeq, SagaTypeOK, rows
<1>3. CASE AddInsert(x)
  <2>1. h' \in [Handlers -> Handler] /\ CallNamed'
    BY <1>3, Left DEF AddInsert
  <2>2. PICK c \in Calls, undo \in BOOLEAN :
          /\ status' = [status EXCEPT ![c] = "pending"]
          /\ seq' = [seq EXCEPT ![c] = h[x].seq]
          /\ comp' = [comp EXCEPT ![c] = undo]
    BY <1>3 DEF AddInsert
  <2>3. h[x].seq \in Nat
    BY <1>0 DEF Handler
  <2>4. Bounded'
    <3>1. PICK b \in Nat : \A d \in Calls : seq[d] <= b
      BY DEF TypeInv, Bounded
    <3>2. b + h[x].seq \in Nat /\ \A d \in Calls : seq'[d] <= b + h[x].seq
      BY <1>0, <2>2, <2>3, <3>1 DEF SagaTypeOK
    <3> QED BY <3>2 DEF Bounded
  <2>5. /\ status' \in [Calls -> CallStatuses]
        /\ seq' \in [Calls -> Nat] /\ comp' \in [Calls -> BOOLEAN]
    BY <1>0, <2>2, <2>3 DEF SagaTypeOK, CallStatuses
  <2> QED BY <1>0, <1>3, <2>1, <2>4, <2>5 DEF AddInsert, TypeInv, SagaTypeOK, world
<1>4. CASE AddRefused(x)
  BY <1>0, <1>4, Left, StatusOnly DEF AddRefused, SagaTypeOK, rows
<1> QED BY <1>1, <1>2, <1>3, <1>4 DEF Add

LEMMA EnterTyped ==
  ASSUME TypeInv, NEW x \in Handlers, NEW at \in Points, at \in Busy => h[x].call \in Calls,
         Enter(x, at)
  PROVE  h' \in [Handlers -> Handler] /\ CallNamed'
<1> DEFINE k == [h[x] EXCEPT !.at = at]
<1>1. h[x] \in Handler
  BY DEF TypeInv, SagaTypeOK
<1>2. k \in Handler /\ k.call = h[x].call /\ k.at = at
  BY <1>1 DEF Handler
<1>3. h' = [h EXCEPT ![x] = k]
  BY DEF Enter, TypeInv, SagaTypeOK
<1> HIDE DEF k
<1> QED BY <1>2, <1>3, Moved

LEMMA DeleteTyped ==
  ASSUME TypeInv, NEW x \in Handlers, Delete(x)
  PROVE  TypeInv'
<1>0. SagaTypeOK
  BY DEF TypeInv
<1>1. CASE DeleteStart(x)
  BY <1>1, Started DEF DeleteStart, Points, Busy
<1>2. CASE DeleteCalls(x)
  <2>1. h' \in [Handlers -> Handler] /\ CallNamed'
    BY <1>2, EnterTyped DEF DeleteCalls, Points, Busy
  <2>2. status' \in [Calls -> CallStatuses]
    BY <1>0, <1>2 DEF DeleteCalls, SagaTypeOK, CallStatuses
  <2> QED BY <1>0, <1>2, <2>1, <2>2, StatusOnly DEF DeleteCalls, SagaTypeOK
<1>3. CASE DeleteTx(x)
  <2>1. h' \in [Handlers -> Handler] /\ CallNamed'
    BY <1>3, Left DEF DeleteTx
  <2>2. tx' \in TxStatuses
    BY <1>0, <1>3, SetTxTyped DEF DeleteTx, SagaTypeOK, TxStatuses
  <2> QED BY <1>0, <1>3, <2>1, <2>2, StatusOnly DEF DeleteTx, SagaTypeOK, rows
<1> QED BY <1>1, <1>2, <1>3 DEF Delete

LEMMA CommitTyped ==
  ASSUME TypeInv, NEW x \in Handlers, Commit(x)
  PROVE  TypeInv'
<1>0. /\ SagaTypeOK /\ h[x] \in Handler /\ h[x].todo \in SUBSET Calls
      /\ h[x].done \in SUBSET Calls /\ h \in [Handlers -> Handler]
      /\ h[x].at \in Busy => h[x].call \in Calls
  BY DEF TypeInv, SagaTypeOK, Handler, CallNamed
<1>1. CASE CommitStart(x)
  BY <1>1, Started DEF CommitStart, Points, Busy
<1>2. CASE CommitCalls(x)
  <2> DEFINE k == [h[x] EXCEPT !.at = "commitMark", !.todo = Rows]
  <2>1. k \in Handler /\ k.at \notin Busy
    BY <1>0 DEF Handler, Points, Busy, Rows
  <2>2. h' = [h EXCEPT ![x] = k]
    BY <1>0, <1>2 DEF CommitCalls
  <2> HIDE DEF k
  <2> QED BY <1>0, <1>2, <2>1, <2>2, Moved, StatusOnly DEF CommitCalls, SagaTypeOK, rows
<1>3. CASE CommitMark(x)
  <2>1. h' \in [Handlers -> Handler] /\ CallNamed'
    BY <1>3, EnterTyped DEF CommitMark, Points, Busy
  <2>2. tx' \in TxStatuses
    BY <1>3, SetTxTyped DEF CommitMark, TxStatuses
  <2> QED BY <1>0, <1>3, <2>1, <2>2, StatusOnly DEF CommitMark, SagaTypeOK, rows
<1>4. CASE RunNext(x)
  <2> DEFINE c == First(h[x].todo)
             k == [h[x] EXCEPT !.at = "invoke", !.call = c, !.todo = @ \ {c}]
             l == [h[x] EXCEPT !.at = "undoMark", !.todo = {}]
  <2>1. c \in Calls
    BY <1>0, <1>4, FirstIsFirst DEF RunNext
  <2>2. /\ k \in Handler /\ k.call \in Calls
        /\ l \in Handler /\ l.at \notin Busy
    BY <1>0, <2>1 DEF Handler, Points, Busy
  <2>3. h' = [h EXCEPT ![x] = k] \/ h' = [h EXCEPT ![x] = l]
    BY <1>0, <1>4 DEF RunNext
  <2>4. SetCall(c, "running") \/ SetCall(c, "failed")
    BY <1>4 DEF RunNext
  <2> HIDE DEF c, k, l
  <2>5. h' \in [Handlers -> Handler] /\ CallNamed'
    BY <2>2, <2>3, Moved
  <2>6. status' \in [Calls -> CallStatuses]
    BY <2>1, <2>4, SetCallTyped DEF CallStatuses
  <2> QED BY <1>0, <1>4, <2>5, <2>6, StatusOnly DEF RunNext, SagaTypeOK
<1>5. CASE Invoke(x)
  <2>1. h' \in [Handlers -> Handler] /\ CallNamed'
    BY <1>0, <1>5, EnterTyped DEF Invoke, Points, Busy
  <2>2. ran' \in [Calls -> Nat] /\ hits' \subseteq Calls
    BY <1>0, <1>5 DEF Invoke, SagaTypeOK, Busy
  <2> QED BY <1>0, <1>5, <2>1, <2>2 DEF Invoke, TypeInv, SagaTypeOK, Bounded, rows
<1>6. CASE RecordCommitted(x)
  <2> DEFINE k == [h[x] EXCEPT !.at = "next", !.call = NULL, !.done = @ \cup {h[x].call}]
  <2>1. h[x].call \in Calls
    BY <1>0, <1>6 DEF RecordCommitted, Busy
  <2>2. k \in Handler /\ k.at \notin Busy
    BY <1>0, <2>1 DEF Handler, Points, Busy
  <2>3. h' = [h EXCEPT ![x] = k]
    BY <1>0, <1>6 DEF RecordCommitted
  <2> HIDE DEF k
  <2>4. h' \in [Handlers -> Handler] /\ CallNamed'
    BY <2>2, <2>3, Moved
  <2>5. status' \in [Calls -> CallStatuses]
    BY <1>6, <2>1, SetCallTyped DEF RecordCommitted, CallStatuses
  <2> QED BY <1>0, <1>6, <2>4, <2>5, StatusOnly DEF RecordCommitted, SagaTypeOK
<1>7. CASE RecordFailed(x)
  <2> DEFINE k == [h[x] EXCEPT !.at = "undoMark", !.call = NULL, !.todo = {}]
  <2>1. h[x].call \in Calls
    BY <1>0, <1>7 DEF RecordFailed, Busy
  <2>2. k \in Handler /\ k.at \notin Busy
    BY <1>0 DEF Handler, Points, Busy
  <2>3. h' = [h EXCEPT ![x] = k]
    BY <1>0, <1>7 DEF RecordFailed
  <2> HIDE DEF k
  <2>4. h' \in [Handlers -> Handler] /\ CallNamed'
    BY <2>2, <2>3, Moved
  <2>5. status' \in [Calls -> CallStatuses]
    BY <1>7, <2>1, SetCallTyped DEF RecordFailed, CallStatuses
  <2> QED BY <1>0, <1>7, <2>4, <2>5, StatusOnly DEF RecordFailed, SagaTypeOK
<1>8. CASE CommitEnd(x)
  <2>1. tx' \in TxStatuses
    BY <1>8, SetTxTyped DEF CommitEnd, TxStatuses
  <2> QED BY <1>0, <1>8, <2>1, Left, StatusOnly DEF CommitEnd, SagaTypeOK, rows
<1> QED BY <1>1, <1>2, <1>3, <1>4, <1>5, <1>6, <1>7, <1>8 DEF Commit

LEMMA RollbackTyped ==
  ASSUME TypeInv, NEW x \in Handlers, Rollback(x)
  PROVE  TypeInv'
<1>0. /\ SagaTypeOK /\ h[x] \in Handler /\ h[x].todo \in SUBSET Calls
      /\ h[x].done \in SUBSET Calls /\ h \in [Handlers -> Handler]
      /\ h[x].at \in Busy => h[x].call \in Calls
  BY DEF TypeInv, SagaTypeOK, Handler, CallNamed
<1>1. CASE RollbackPending(x) \/ RollbackStart(x)
  BY <1>1, Started DEF RollbackPending, RollbackStart, Points, Busy
<1>2. CASE RollbackEmpty(x)
  <2>1. tx' \in TxStatuses
    BY <1>2, SetTxTyped DEF RollbackEmpty, TxStatuses
  <2> QED BY <1>0, <1>2, <2>1, Left, StatusOnly DEF RollbackEmpty, SagaTypeOK, rows
<1>3. CASE RollbackCalls(x)
  <2> DEFINE k == [h[x] EXCEPT !.at = "undoMark", !.done = {c \in Rows : status[c] = "committed"}]
  <2>1. k \in Handler /\ k.at \notin Busy
    BY <1>0 DEF Handler, Points, Busy, Rows
  <2>2. h' = [h EXCEPT ![x] = k]
    BY <1>0, <1>3 DEF RollbackCalls
  <2> HIDE DEF k
  <2> QED BY <1>0, <1>3, <2>1, <2>2, Moved, StatusOnly DEF RollbackCalls, SagaTypeOK, rows
<1>4. CASE UndoMark(x)
  <2> DEFINE k == [Idle EXCEPT !.at = "undoNext", !.todo = {c \in h[x].done : comp[c]}]
  <2>1. k \in Handler /\ k.at \notin Busy
    BY <1>0, IdleTyped DEF Handler, Points, Busy
  <2>2. h' = [h EXCEPT ![x] = k]
    BY <1>4 DEF UndoMark
  <2>3. tx' \in TxStatuses
    BY <1>4, SetTxTyped DEF UndoMark, TxStatuses
  <2> HIDE DEF k
  <2> QED BY <1>0, <1>4, <2>1, <2>2, <2>3, Moved, StatusOnly DEF UndoMark, SagaTypeOK, rows
<1>5. CASE UndoNext(x)
  <2> DEFINE c == Last(h[x].todo)
             k == [h[x] EXCEPT !.at = "undoInvoke", !.call = c, !.todo = @ \ {c}]
  <2>1. c \in Calls
    BY <1>0, <1>5, LastIsLast DEF UndoNext
  <2>2. k \in Handler /\ k.call \in Calls
    BY <1>0, <2>1 DEF Handler, Points
  <2>3. h' = [h EXCEPT ![x] = k] /\ SetCall(c, "compensating")
    BY <1>0, <1>5 DEF UndoNext
  <2> HIDE DEF c, k
  <2>4. h' \in [Handlers -> Handler] /\ CallNamed'
    BY <2>2, <2>3, Moved
  <2>5. status' \in [Calls -> CallStatuses]
    BY <2>1, <2>3, SetCallTyped DEF CallStatuses
  <2> QED BY <1>0, <1>5, <2>4, <2>5, StatusOnly DEF UndoNext, SagaTypeOK
<1>6. CASE UndoInvoke(x)
  <2> DEFINE k == [h[x] EXCEPT !.at = "undoNext", !.call = NULL]
  <2>1. k \in Handler /\ k.at \notin Busy
    BY <1>0 DEF Handler, Points, Busy
  <2>2. Enter(x, "undoRecord") \/ h' = [h EXCEPT ![x] = k]
    BY <1>0, <1>6 DEF UndoInvoke
  <2> HIDE DEF k
  <2>3. h' \in [Handlers -> Handler] /\ CallNamed'
    <3>1. h[x].call \in Calls /\ "undoRecord" \in Points
      BY <1>0, <1>6 DEF UndoInvoke, Busy, Points
    <3> QED BY <2>1, <2>2, <3>1, Moved, EnterTyped
  <2>4. undone' \in [Calls -> Nat] /\ undoHits' \subseteq Calls
    BY <1>0, <1>6 DEF UndoInvoke, SagaTypeOK, Busy
  <2> QED BY <1>0, <1>6, <2>3, <2>4 DEF UndoInvoke, TypeInv, SagaTypeOK, Bounded, rows
<1>7. CASE UndoRecord(x)
  <2> DEFINE k == [h[x] EXCEPT !.at = "undoNext", !.call = NULL]
  <2>1. h[x].call \in Calls
    BY <1>0, <1>7 DEF UndoRecord, Busy
  <2>2. k \in Handler /\ k.at \notin Busy
    BY <1>0 DEF Handler, Points, Busy
  <2>3. h' = [h EXCEPT ![x] = k]
    BY <1>0, <1>7 DEF UndoRecord
  <2> HIDE DEF k
  <2>4. h' \in [Handlers -> Handler] /\ CallNamed'
    BY <2>2, <2>3, Moved
  <2>5. status' \in [Calls -> CallStatuses]
    BY <1>7, <2>1, SetCallTyped DEF UndoRecord, CallStatuses
  <2> QED BY <1>0, <1>7, <2>4, <2>5, StatusOnly DEF UndoRecord, SagaTypeOK
<1>8. CASE UndoEnd(x)
  <2>1. tx' \in TxStatuses
    BY <1>8, SetTxTyped DEF UndoEnd, TxStatuses
  <2> QED BY <1>0, <1>8, <2>1, Left, StatusOnly DEF UndoEnd, SagaTypeOK, rows
<1> QED BY <1>1, <1>2, <1>3, <1>4, <1>5, <1>6, <1>7, <1>8 DEF Rollback

LEMMA TypeInvNext == TypeInv /\ [Next]_vars => TypeInv'
<1> SUFFICES ASSUME TypeInv, [Next]_vars PROVE TypeInv'
  OBVIOUS
<1>1. ASSUME NEW x \in Handlers, Lose(x) PROVE TypeInv'
  BY <1>1, Left, StatusOnly DEF Lose, TypeInv, SagaTypeOK, rows
<1>2. CASE UNCHANGED vars
  BY <1>2 DEF vars, rows, world, TypeInv, SagaTypeOK, CallNamed, Bounded
<1> QED BY <1>1, <1>2, AddTyped, DeleteTyped, CommitTyped, RollbackTyped DEF Next

LEMMA TypeInvInit == Init => TypeInv
<1> SUFFICES ASSUME Init PROVE TypeInv
  OBVIOUS
<1>1. SagaTypeOK /\ CallNamed
  BY IdleTyped DEF Init, SagaTypeOK, CallNamed, TxStatuses, CallStatuses
<1>2. Bounded
  BY DEF Init, Bounded
<1> QED BY <1>1, <1>2 DEF TypeInv

THEOREM TypeInvariant == Spec => []TypeInv
  BY TypeInvInit, TypeInvNext, PTL DEF Spec

(* Every column keeps its type and every handler knows what it needs,      *)
(* whatever is added, committed, rolled back, deleted or lost.             *)
THEOREM TypeCorrect == Spec => []SagaTypeOK
<1>1. TypeInv => SagaTypeOK
  BY DEF TypeInv
<1> QED BY <1>1, TypeInvariant, PTL

--------------------------------------------------------------------------------
(* What is known of the world outside, by type and by the steps of it.     *)
LEMMA MadeTyped ==
  ASSUME TypeInv
  PROVE  Made \in [Calls -> Nat] /\ MadeUndone \in [Calls -> Nat]
  BY DEF Made, MadeUndone, TypeInv, SagaTypeOK

LEMMA MadeTypedNext ==
  ASSUME TypeInv'
  PROVE  Made' \in [Calls -> Nat] /\ MadeUndone' \in [Calls -> Nat]
  BY DEF Made, MadeUndone, TypeInv, SagaTypeOK

LEMMA WorldStays ==
  /\ UNCHANGED <<ran, hits>> => Made' = Made
  /\ UNCHANGED <<undone, undoHits>> => MadeUndone' = MadeUndone
  BY DEF Made, MadeUndone

(* An invocation that is answered makes its call; one that fails may.      *)
LEMMA InvokeMakes ==
  ASSUME TypeInv, NEW x \in Handlers, Invoke(x), NEW c \in Calls, c = h[x].call
  PROVE  /\ Enter(x, "record") \/ Enter(x, "recordFailed")
         /\ Enter(x, "record") => Made'[c] > 0 /\ (Made[c] = 0 => Made'[c] = 1)
         /\ Made[c] > 0 => Made'[c] > 0
         /\ \A d \in Calls : d # c => Made'[d] = Made[d]
         /\ MadeUndone' = MadeUndone
<1>0. /\ ran \in [Calls -> Nat] /\ hits \subseteq Calls
      /\ h \in [Handlers -> Handler] /\ h[x] \in Handler
  BY DEF TypeInv, SagaTypeOK
<1>1. MadeUndone' = MadeUndone
  BY WorldStays DEF Invoke
<1>2. ASSUME ran' = [ran EXCEPT ![c] = @ + 1], hits' = hits
      PROVE  /\ Made'[c] > 0 /\ (Made[c] = 0 => Made'[c] = 1)
             /\ \A d \in Calls : d # c => Made'[d] = Made[d]
  BY <1>0, <1>2 DEF Made
<1>3. ASSUME ran' = ran, hits' = hits \cup {c}
      PROVE  /\ Made'[c] > 0 /\ (Made[c] = 0 => Made'[c] = 1)
             /\ \A d \in Calls : d # c => Made'[d] = Made[d]
  BY <1>0, <1>3 DEF Made
<1>4. ASSUME ran' = ran, hits' = hits, Enter(x, "recordFailed")
      PROVE  /\ ~Enter(x, "record") /\ Made' = Made
  <2>1. h'[x].at = "recordFailed"
    BY <1>4, <1>0 DEF Enter, Handler
  <2>2. ASSUME Enter(x, "record") PROVE FALSE
    BY <1>0, <2>1, <2>2 DEF Enter, Handler
  <2> QED BY <1>4, <2>2, WorldStays
<1>5. \/ /\ ran' = [ran EXCEPT ![c] = @ + 1] /\ hits' = hits
         /\ Enter(x, "record") \/ Enter(x, "recordFailed")
      \/ ran' = ran /\ hits' = hits \cup {c} /\ Enter(x, "record")
      \/ ran' = ran /\ hits' = hits /\ Enter(x, "recordFailed")
  BY DEF Invoke
<1> QED BY <1>1, <1>2, <1>3, <1>4, <1>5

(* So does the invocation of a compensation.                               *)
LEMMA UndoMakes ==
  ASSUME TypeInv, NEW x \in Handlers, UndoInvoke(x), NEW c \in Calls, c = h[x].call
  PROVE  /\ \/ Enter(x, "undoRecord") /\ (MadeUndone[c] = 0 => MadeUndone'[c] = 1)
            \/ h' = [h EXCEPT ![x].at = "undoNext", ![x].call = NULL]
         /\ MadeUndone'[c] <= MadeUndone[c] + 1
         /\ \A d \in Calls : d # c => MadeUndone'[d] = MadeUndone[d]
         /\ Made' = Made
<1>0. undone \in [Calls -> Nat] /\ undoHits \subseteq Calls
  BY DEF TypeInv, SagaTypeOK
<1>1. Made' = Made
  BY WorldStays DEF UndoInvoke
<1>2. ASSUME undone' = [undone EXCEPT ![c] = @ + 1], undoHits' = undoHits
      PROVE  /\ MadeUndone[c] = 0 => MadeUndone'[c] = 1
             /\ MadeUndone'[c] <= MadeUndone[c] + 1
             /\ \A d \in Calls : d # c => MadeUndone'[d] = MadeUndone[d]
  BY <1>0, <1>2 DEF MadeUndone
<1>3. ASSUME undone' = undone, undoHits' = undoHits \cup {c}
      PROVE  /\ MadeUndone[c] = 0 => MadeUndone'[c] = 1
             /\ MadeUndone'[c] <= MadeUndone[c] + 1
             /\ \A d \in Calls : d # c => MadeUndone'[d] = MadeUndone[d]
  BY <1>0, <1>3 DEF MadeUndone
<1>4. ASSUME undone' = undone, undoHits' = undoHits
      PROVE  MadeUndone' = MadeUndone /\ MadeUndone'[c] <= MadeUndone[c] + 1
  BY <1>4, WorldStays, MadeTyped
<1>5. LET failed == h' = [h EXCEPT ![x].at = "undoNext", ![x].call = NULL]
      IN  \/ /\ undone' = [undone EXCEPT ![c] = @ + 1] /\ undoHits' = undoHits
             /\ Enter(x, "undoRecord") \/ failed
          \/ undone' = undone /\ undoHits' = undoHits \cup {c} /\ Enter(x, "undoRecord")
          \/ undone' = undone /\ undoHits' = undoHits /\ failed
  BY DEF UndoInvoke
<1> QED BY <1>1, <1>2, <1>3, <1>4, <1>5

--------------------------------------------------------------------------------
(* Where a handler stands, the calls it remembers as done, and those it is *)
(* about to compensate, were made.                                         *)
Undoing == {"undoNext", "undoInvoke", "undoRecord"}
Founded(x) ==
  /\ \A c \in h[x].done : Made[c] > 0
  /\ h[x].at = "record" => Made[h[x].call] > 0
  /\ h[x].at \in {"undoInvoke", "undoRecord"} => Made[h[x].call] > 0
  /\ h[x].at \in Undoing => \A c \in h[x].todo : Made[c] > 0

Effects ==
  /\ \A c \in Calls : MadeUndone[c] > 0 => Made[c] > 0
  /\ \A c \in Calls : status[c] = "committed" => Made[c] > 0
  /\ \A x \in Handlers : Founded(x)

(* Effects are never taken back, so the other handlers stay founded.       *)
LEMMA EffectsStep ==
  ASSUME TypeInv, TypeInv', Effects, NEW x \in Handlers, Founded(x)',
         \A y \in Handlers : y # x => h'[y] = h[y],
         \A c \in Calls : Made[c] > 0 => Made'[c] > 0,
         \A c \in Calls : status'[c] = "committed" => status[c] = "committed" \/ Made'[c] > 0,
         \A c \in Calls : MadeUndone'[c] > 0 => MadeUndone[c] > 0 \/ Made[c] > 0
  PROVE  Effects'
<1>1. \A c \in Calls : Made[c] > 0 => Made'[c] > 0
  OBVIOUS
<1>2. \A c \in Calls : MadeUndone'[c] > 0 => Made'[c] > 0
  BY <1>1 DEF Effects
<1>3. \A c \in Calls : status'[c] = "committed" => Made'[c] > 0
  BY <1>1 DEF Effects
<1>4. ASSUME NEW y \in Handlers PROVE Founded(y)'
  <2>1. CASE y = x
    BY <2>1
  <2>2. CASE y # x
    <3>1. h'[y] = h[y] /\ Founded(y)
      BY <2>2 DEF Effects
    <3>2. /\ h[y].done \in SUBSET Calls /\ h[y].todo \in SUBSET Calls
          /\ h[y].at \in Busy => h[y].call \in Calls
      BY DEF TypeInv, SagaTypeOK, Handler, CallNamed
    <3> QED BY <1>1, <3>1, <3>2 DEF Founded, Busy
  <2> QED BY <2>1, <2>2
<1> QED BY <1>2, <1>3, <1>4 DEF Effects

(* A handler outside the steps listed has nothing to show but its `done'.  *)
LEMMA Unfounded ==
  ASSUME TypeInv, TypeInv', Effects, NEW x \in Handlers,
         \A y \in Handlers : y # x => h'[y] = h[y],
         h'[x].at \notin Undoing \cup {"record"}, h'[x].done = {} \/ h'[x].done = h[x].done,
         UNCHANGED world,
         \A c \in Calls : status'[c] = "committed" => status[c] = "committed"
  PROVE  Effects'
<1>1. Founded(x)'
  BY WorldStays DEF Founded, Effects, Undoing, world
<1>2. /\ \A c \in Calls : Made[c] > 0 => Made'[c] > 0
      /\ \A c \in Calls : MadeUndone'[c] > 0 => MadeUndone[c] > 0 \/ Made[c] > 0
  BY WorldStays DEF world
<1> QED BY <1>1, <1>2, EffectsStep

LEMMA LeaveMoves ==
  ASSUME TypeInv, NEW x \in Handlers, Leave(x)
  PROVE  /\ \A y \in Handlers : y # x => h'[y] = h[y]
         /\ h'[x] = Idle
  BY DEF Leave, TypeInv, SagaTypeOK

LEMMA EnterMoves ==
  ASSUME TypeInv, NEW x \in Handlers, NEW at, Enter(x, at)
  PROVE  /\ \A y \in Handlers : y # x => h'[y] = h[y]
         /\ h'[x].at = at /\ h'[x].todo = h[x].todo /\ h'[x].done = h[x].done
         /\ h'[x].call = h[x].call /\ h'[x].seq = h[x].seq
<1>1. h \in [Handlers -> Handler] /\ h[x] \in Handler
  BY DEF TypeInv, SagaTypeOK
<1> QED BY <1>1 DEF Enter, Handler

LEMMA StartMoves ==
  ASSUME TypeInv, NEW x \in Handlers, NEW allowed, NEW at, Start(x, allowed, at)
  PROVE  /\ \A y \in Handlers : y # x => h'[y] = h[y]
         /\ h'[x] = [Idle EXCEPT !.at = at]
         /\ UNCHANGED <<tx, rows, world>>
  BY DEF Start, TypeInv, SagaTypeOK

LEMMA StartEffects ==
  ASSUME TypeInv, TypeInv', Effects, NEW x \in Handlers, NEW allowed,
         NEW at \in Points \ (Undoing \cup {"record"}), Start(x, allowed, at)
  PROVE  Effects'
<1>1. /\ h'[x] = [Idle EXCEPT !.at = at]
      /\ \A y \in Handlers : y # x => h'[y] = h[y]
  BY StartMoves
<1>2. h'[x].at = at /\ h'[x].done = {}
  BY <1>1 DEF Idle
<1>3. status' = status /\ UNCHANGED world
  BY DEF Start, rows
<1> QED BY <1>1, <1>2, <1>3, Unfounded

LEMMA AddEffects ==
  ASSUME TypeInv, TypeInv', Effects, NEW x \in Handlers, Add(x)
  PROVE  Effects'
<1>0. h \in [Handlers -> Handler] /\ h[x] \in Handler /\ status \in [Calls -> CallStatuses]
  BY DEF TypeInv, SagaTypeOK
<1>1. CASE AddStart(x)
  BY <1>1, StartEffects DEF AddStart, Points, Undoing
<1>2. CASE AddSeq(x)
  <2>1. /\ \A y \in Handlers : y # x => h'[y] = h[y]
        /\ h'[x].at = "addInsert" /\ h'[x].done = h[x].done
    BY <1>0, <1>2 DEF AddSeq, Handler
  <2> QED BY <1>2, <2>1, Unfounded DEF AddSeq, Undoing, rows
<1>3. CASE AddInsert(x)
  <2>1. \A c \in Calls : status'[c] = "committed" => status[c] = "committed"
    BY <1>0, <1>3 DEF AddInsert
  <2> QED BY <1>3, <2>1, LeaveMoves, Unfounded DEF AddInsert, Idle, Undoing
<1>4. CASE AddRefused(x)
  BY <1>4, LeaveMoves, Unfounded DEF AddRefused, Idle, Undoing, rows
<1> QED BY <1>1, <1>2, <1>3, <1>4 DEF Add

LEMMA DeleteEffects ==
  ASSUME TypeInv, TypeInv', Effects, NEW x \in Handlers, Delete(x)
  PROVE  Effects'
<1>1. CASE DeleteStart(x)
  BY <1>1, StartEffects DEF DeleteStart, Points, Undoing
<1>2. CASE DeleteCalls(x)
  BY <1>2, EnterMoves, Unfounded DEF DeleteCalls, Undoing
<1>3. CASE DeleteTx(x)
  BY <1>3, LeaveMoves, Unfounded DEF DeleteTx, Idle, Undoing, rows
<1> QED BY <1>1, <1>2, <1>3 DEF Delete

LEMMA CommitEffects ==
  ASSUME TypeInv, TypeInv', Effects, NEW x \in Handlers, Commit(x)
  PROVE  Effects'
<1>0. /\ h \in [Handlers -> Handler] /\ h[x] \in Handler /\ Founded(x)
      /\ status \in [Calls -> CallStatuses] /\ Made \in [Calls -> Nat]
      /\ h[x].at \in Busy => h[x].call \in Calls
      /\ h[x].done \in SUBSET Calls /\ h[x].todo \in SUBSET Calls
  BY MadeTyped DEF TypeInv, SagaTypeOK, Effects, CallNamed, Handler
<1>1. CASE CommitStart(x)
  BY <1>1, StartEffects DEF CommitStart, Points, Undoing
<1>2. CASE CommitCalls(x)
  <2>1. /\ \A y \in Handlers : y # x => h'[y] = h[y]
        /\ h'[x].at = "commitMark" /\ h'[x].done = h[x].done
    BY <1>0, <1>2 DEF CommitCalls, Handler
  <2> QED BY <1>2, <2>1, Unfounded DEF CommitCalls, Undoing, rows
<1>3. CASE CommitMark(x)
  BY <1>3, EnterMoves, Unfounded DEF CommitMark, Undoing, rows
<1>4. CASE RunNext(x)
  <2>1. /\ \A y \in Handlers : y # x => h'[y] = h[y]
        /\ h'[x].at \in {"invoke", "undoMark"} /\ h'[x].done = h[x].done
    BY <1>0, <1>4 DEF RunNext, Handler
  <2>2. \A c \in Calls : status'[c] = "committed" => status[c] = "committed"
    BY <1>0, <1>4 DEF RunNext, SetCall
  <2> QED BY <1>4, <2>1, <2>2, Unfounded DEF RunNext, Undoing
<1>5. CASE Invoke(x)
  <2> DEFINE c == h[x].call
  <2>1. c \in Calls
    BY <1>0, <1>5 DEF Invoke, Busy
  <2>2. /\ \A d \in Calls : Made[d] > 0 => Made'[d] > 0
        /\ MadeUndone' = MadeUndone
        /\ Enter(x, "record") => Made'[c] > 0
        /\ Enter(x, "record") \/ Enter(x, "recordFailed")
    BY <1>5, <2>1, InvokeMakes
  <2>3. /\ \A y \in Handlers : y # x => h'[y] = h[y]
        /\ h'[x].done = h[x].done /\ h'[x].call = c
        /\ h'[x].at \notin Undoing
        /\ h'[x].at = "record" => Enter(x, "record")
    BY <2>2, EnterMoves DEF Undoing
  <2> HIDE DEF c
  <2>4. Founded(x)'
    BY <1>0, <2>2, <2>3 DEF Founded, Undoing
  <2>5. status' = status
    BY <1>5 DEF Invoke, rows
  <2> QED BY <2>2, <2>3, <2>4, <2>5, EffectsStep
<1>6. CASE RecordCommitted(x)
  <2>1. h[x].call \in Calls /\ Made[h[x].call] > 0
    BY <1>0, <1>6 DEF RecordCommitted, Busy, Founded
  <2>2. /\ \A y \in Handlers : y # x => h'[y] = h[y]
        /\ h'[x].at = "next" /\ h'[x].done = h[x].done \cup {h[x].call}
    BY <1>0, <1>6 DEF RecordCommitted, Handler
  <2>3. UNCHANGED <<Made, MadeUndone>>
    BY <1>6, WorldStays DEF RecordCommitted, world
  <2>4. Founded(x)'
    BY <1>0, <2>1, <2>2, <2>3 DEF Founded, Undoing
  <2>5. \A c \in Calls : status'[c] = "committed" => status[c] = "committed" \/ Made'[c] > 0
    BY <1>0, <1>6, <2>1, <2>3 DEF RecordCommitted, SetCall
  <2>6. \A c \in Calls : Made[c] > 0 => Made'[c] > 0
    BY <1>0, <2>3
  <2> QED BY <2>2, <2>3, <2>4, <2>5, <2>6, EffectsStep
<1>7. CASE RecordFailed(x)
  <2>1. /\ \A y \in Handlers : y # x => h'[y] = h[y]
        /\ h'[x].at = "undoMark" /\ h'[x].done = h[x].done
    BY <1>0, <1>7 DEF RecordFailed, Handler
  <2>2. \A c \in Calls : status'[c] = "committed" => status[c] = "committed"
    BY <1>0, <1>7 DEF RecordFailed, SetCall
  <2> QED BY <1>7, <2>1, <2>2, Unfounded DEF RecordFailed, Undoing
<1>8. CASE CommitEnd(x)
  BY <1>8, LeaveMoves, Unfounded DEF CommitEnd, Idle, Undoing, rows
<1> QED BY <1>1, <1>2, <1>3, <1>4, <1>5, <1>6, <1>7, <1>8 DEF Commit

LEMMA RollbackEffects ==
  ASSUME TypeInv, TypeInv', Effects, NEW x \in Handlers, Rollback(x)
  PROVE  Effects'
<1>0. /\ h \in [Handlers -> Handler] /\ h[x] \in Handler /\ Founded(x)
      /\ status \in [Calls -> CallStatuses] /\ Made \in [Calls -> Nat]
      /\ MadeUndone \in [Calls -> Nat]
      /\ h[x].at \in Busy => h[x].call \in Calls
      /\ h[x].done \in SUBSET Calls /\ h[x].todo \in SUBSET Calls
  BY MadeTyped DEF TypeInv, SagaTypeOK, Effects, CallNamed, Handler
<1>1. CASE RollbackPending(x) \/ RollbackStart(x)
  BY <1>1, StartEffects DEF RollbackPending, RollbackStart, Points, Undoing
<1>2. CASE RollbackEmpty(x)
  BY <1>2, LeaveMoves, Unfounded DEF RollbackEmpty, Idle, Undoing, rows
<1>3. CASE RollbackCalls(x)
  <2>1. /\ \A y \in Handlers : y # x => h'[y] = h[y]
        /\ h'[x].at = "undoMark"
        /\ h'[x].done = {c \in Rows : status[c] = "committed"}
    BY <1>0, <1>3 DEF RollbackCalls, Handler
  <2>2. UNCHANGED <<status, Made, MadeUndone>>
    BY <1>3, WorldStays DEF RollbackCalls, rows, world
  <2>3. Founded(x)'
    BY <2>1, <2>2 DEF Founded, Undoing, Effects, Rows
  <2>4. \A c \in Calls : Made[c] > 0 => Made'[c] > 0
    BY <1>0, <2>2
  <2> QED BY <2>1, <2>2, <2>3, <2>4, EffectsStep
<1>4. CASE UndoMark(x)
  <2>1. /\ \A y \in Handlers : y # x => h'[y] = h[y]
        /\ h'[x].at = "undoNext" /\ h'[x].done = {}
        /\ h'[x].todo = {c \in h[x].done : comp[c]}
    BY <1>0, <1>4 DEF UndoMark, Idle
  <2>2. UNCHANGED <<status, Made, MadeUndone>>
    BY <1>4, WorldStays DEF UndoMark, rows, world
  <2>3. Founded(x)'
    BY <1>0, <2>1, <2>2 DEF Founded, Undoing
  <2>4. \A c \in Calls : Made[c] > 0 => Made'[c] > 0
    BY <1>0, <2>2
  <2> QED BY <2>1, <2>2, <2>3, <2>4, EffectsStep
<1>5. CASE UndoNext(x)
  <2> DEFINE c == Last(h[x].todo)
  <2>1. c \in h[x].todo
    BY <1>0, <1>5, LastIsLast DEF UndoNext
  <2>2. /\ \A y \in Handlers : y # x => h'[y] = h[y]
        /\ h'[x].at = "undoInvoke" /\ h'[x].done = h[x].done
        /\ h'[x].todo = h[x].todo \ {c} /\ h'[x].call = c
    BY <1>0, <1>5 DEF UndoNext, Handler
  <2>3. UNCHANGED <<Made, MadeUndone>> /\ h[x].at = "undoNext" /\ SetCall(c, "compensating")
    BY <1>5, WorldStays DEF UndoNext, world
  <2> HIDE DEF c
  <2>4. Founded(x)'
    BY <1>0, <2>1, <2>2, <2>3 DEF Founded, Undoing
  <2>5. \A d \in Calls : Made[d] > 0 => Made'[d] > 0
    BY <1>0, <2>3
  <2>6. \A d \in Calls : status'[d] = "committed" => status[d] = "committed" \/ Made'[d] > 0
    BY <1>0, <2>3 DEF SetCall
  <2> QED BY <2>2, <2>3, <2>4, <2>5, <2>6, EffectsStep
<1>6. CASE UndoInvoke(x)
  <2>1. h[x].call \in Calls /\ Made[h[x].call] > 0 /\ \A d \in h[x].todo : Made[d] > 0
    BY <1>0, <1>6 DEF UndoInvoke, Busy, Undoing, Founded
  <2>2. /\ \A y \in Handlers : y # x => h'[y] = h[y]
        /\ h'[x].done = h[x].done /\ h'[x].todo = h[x].todo
        /\ \/ h'[x].at = "undoRecord" /\ h'[x].call = h[x].call
           \/ h'[x].at = "undoNext"
    <3>1. CASE Enter(x, "undoRecord")
      BY <3>1, EnterMoves
    <3>2. CASE h' = [h EXCEPT ![x].at = "undoNext", ![x].call = NULL]
      BY <1>0, <3>2 DEF Handler
    <3> QED BY <1>6, <3>1, <3>2 DEF UndoInvoke
  <2>3. UNCHANGED <<status, Made>>
    BY <1>6, WorldStays DEF UndoInvoke, rows
  <2>4. Founded(x)'
    BY <1>0, <2>1, <2>2, <2>3 DEF Founded, Undoing
  <2>5. \A c \in Calls : MadeUndone'[c] > 0 => MadeUndone[c] > 0 \/ Made[c] > 0
    BY <1>6, <2>1, UndoMakes
  <2>6. \A c \in Calls : Made[c] > 0 => Made'[c] > 0
    BY <1>0, <2>3
  <2> QED BY <2>2, <2>3, <2>4, <2>5, <2>6, EffectsStep
<1>7. CASE UndoRecord(x)
  <2>1. /\ \A y \in Handlers : y # x => h'[y] = h[y]
        /\ h'[x].at = "undoNext" /\ h'[x].done = h[x].done /\ h'[x].todo = h[x].todo
    BY <1>0, <1>7 DEF UndoRecord, Handler
  <2>2. UNCHANGED <<Made, MadeUndone>> /\ h[x].at = "undoRecord"
    BY <1>7, WorldStays DEF UndoRecord, world
  <2>3. Founded(x)'
    BY <1>0, <2>1, <2>2 DEF Founded, Undoing
  <2>4. \A c \in Calls : Made[c] > 0 => Made'[c] > 0
    BY <1>0, <2>2
  <2>5. \A c \in Calls : status'[c] = "committed" => status[c] = "committed"
    BY <1>0, <1>7 DEF UndoRecord, SetCall
  <2> QED BY <2>1, <2>2, <2>3, <2>4, <2>5, EffectsStep
<1>8. CASE UndoEnd(x)
  BY <1>8, LeaveMoves, Unfounded DEF UndoEnd, Idle, Undoing, rows
<1> QED BY <1>1, <1>2, <1>3, <1>4, <1>5, <1>6, <1>7, <1>8 DEF Rollback

LEMMA EffectsNext == TypeInv /\ TypeInv' /\ Effects /\ [Next]_vars => Effects'
<1> SUFFICES ASSUME TypeInv, TypeInv', Effects, [Next]_vars PROVE Effects'
  OBVIOUS
<1>1. ASSUME NEW x \in Handlers, Lose(x) PROVE Effects'
  BY <1>1, LeaveMoves, Unfounded DEF Lose, Idle, Undoing, rows
<1>2. CASE UNCHANGED vars
  BY <1>2, WorldStays DEF vars, rows, world, Effects, Founded
<1> QED BY <1>1, <1>2, AddEffects, DeleteEffects, CommitEffects, RollbackEffects DEF Next

LEMMA NothingMade ==
  ASSUME Init
  PROVE  (\A c \in Calls : Made[c] = 0 /\ MadeUndone[c] = 0) /\ Effects
<1>1. \A c \in Calls : Made[c] = 0 /\ MadeUndone[c] = 0
  BY DEF Init, Made, MadeUndone
<1>2. \A x \in Handlers : h[x].at = "idle" /\ h[x].done = {}
  BY DEF Init, Idle
<1>3. \A x \in Handlers : Founded(x)
  BY <1>2 DEF Founded, Undoing
<1>4. \A c \in Calls : status[c] # "committed"
  BY DEF Init
<1> QED BY <1>1, <1>3, <1>4 DEF Effects

(* No compensation is made for a call that neither took effect nor was     *)
(* answered from the cache: not when commits and rollbacks overlap, nor    *)
(* when handlers are lost between a tool and the row that records it.      *)
THEOREM NothingUndoneInVain == Spec => []OnlyMadeUndone
<1>1. Init => Effects
  BY NothingMade
<1>2. TypeInv /\ Effects => OnlyMadeUndone
  <2> SUFFICES ASSUME TypeInv, Effects, NEW c \in Calls, MadeUndone[c] > 0
               PROVE  ran[c] > 0 \/ c \in hits
    BY DEF OnlyMadeUndone
  <2>1. Made[c] > 0 /\ Made[c] = ran[c] + IF c \in hits THEN 1 ELSE 0
    BY DEF Effects, Made
  <2>2. ran[c] \in Nat
    BY DEF TypeInv, SagaTypeOK
  <2> QED BY <2>1, <2>2
<1> QED BY <1>1, <1>2, EffectsNext, TypeInvariant, PTL DEF Spec

--------------------------------------------------------------------------------
(* As long as nothing was deleted, the seqs of the rows are 0, 1, 2, ...:  *)
(* a row can only be added at the end, whatever its handler had read.  So  *)
(* what a commit has read is a prefix of the calls and stays one, and it   *)
(* has run the part of it that it does not have still to do.               *)
NoneDeleted == \A c \in Calls : status[c] # "deleted"
Below(n) == \A k \in Nat : k < n => \E d \in Rows : seq[d] = k

Dense == \A c \in Rows : Below(seq[c])
Sorted == \A c, d \in Rows : seq[c] < seq[d] /\ Made[d] > 0 => Made[c] > 0
Unborn == \A c \in Calls : status[c] = "none" => Made[c] = 0

AtCall == {"invoke", "record"}
Committing == AtCall \cup {"commitMark", "next"}
InTurn(x) ==
  /\ h[x].at = "addInsert" => Below(h[x].seq)
  /\ h[x].at \in Committing =>
       /\ h[x].todo \subseteq Rows
       /\ \A d \in h[x].todo, c \in Rows \ h[x].todo :
            seq[c] < seq[d] => Made[c] > 0 \/ (h[x].at \in AtCall /\ c = h[x].call)
  /\ h[x].at \in AtCall => \A c \in Rows : seq[c] < seq[h[x].call] => Made[c] > 0
  /\ h[x].at \in AtCall \cup {"recordFailed"} => h[x].call \in Rows

Ordered == Dense /\ Sorted /\ Unborn /\ \A x \in Handlers : InTurn(x)

(* Most steps leave the set of rows, their seqs and the effects alone.     *)
LEMMA SameRows ==
  ASSUME NoneDeleted, NoneDeleted', \A c \in Calls : status'[c] = "none" <=> status[c] = "none"
  PROVE  Rows' = Rows
  BY DEF NoneDeleted, Rows

LEMMA OrderedStep ==
  ASSUME TypeInv, Ordered, NoneDeleted, NoneDeleted', NEW x \in Handlers, InTurn(x)',
         \A y \in Handlers : y # x => h'[y] = h[y],
         \A c \in Calls : status'[c] = "none" <=> status[c] = "none",
         UNCHANGED <<seq, Made>>
  PROVE  Ordered'
<1>1. Rows' = Rows
  BY SameRows
<1>2. Dense' /\ Sorted' /\ Unborn'
  BY <1>1 DEF Ordered, Dense, Below, Sorted, Unborn
<1>3. ASSUME NEW y \in Handlers, y # x PROVE InTurn(y)'
  BY <1>1, <1>3 DEF Ordered, InTurn, Below
<1> QED BY <1>2, <1>3 DEF Ordered

(* A handler elsewhere than in a commit or before its INSERT is in turn.   *)
LEMMA Aside ==
  ASSUME TypeInv, Ordered, NoneDeleted, NoneDeleted', NEW x \in Handlers,
         h'[x].at \notin Committing \cup {"addInsert", "recordFailed"},
         \A y \in Handlers : y # x => h'[y] = h[y],
         \A c \in Calls : status'[c] = "none" <=> status[c] = "none",
         UNCHANGED <<seq, Made>>
  PROVE  Ordered'
<1>1. InTurn(x)'
  BY DEF InTurn, Committing
<1> QED BY <1>1, OrderedStep

LEMMA StartOrdered ==
  ASSUME TypeInv, Ordered, NoneDeleted, NoneDeleted', NEW x \in Handlers, NEW allowed,
         NEW at \in Points \ (Committing \cup {"addInsert", "recordFailed"}),
         Start(x, allowed, at)
  PROVE  Ordered'
<1>1. /\ h'[x] = [Idle EXCEPT !.at = at]
      /\ \A y \in Handlers : y # x => h'[y] = h[y]
  BY StartMoves
<1>2. h'[x].at = at
  BY <1>1 DEF Idle
<1>3. UNCHANGED <<status, seq, Made>>
  BY WorldStays DEF Start, rows, world
<1> QED BY <1>1, <1>2, <1>3, Aside

LEMMA LeaveOrdered ==
  ASSUME TypeInv, Ordered, NoneDeleted, NoneDeleted', NEW x \in Handlers, Leave(x),
         UNCHANGED <<rows, world>>
  PROVE  Ordered'
<1>1. h'[x].at = "idle" /\ \A y \in Handlers : y # x => h'[y] = h[y]
  BY LeaveMoves DEF Idle
<1> QED BY <1>1, Aside, WorldStays DEF rows, world, Committing, AtCall

(* The row a handler inserts comes after all others.                       *)
LEMMA InsertOrdered ==
  ASSUME TypeInv, Ordered, NoneDeleted, NoneDeleted', NEW x \in Handlers, AddInsert(x)
  PROVE  Ordered'
<1> DEFINE n == h[x].seq
<1>0. /\ SagaTypeOK /\ n \in Nat /\ Below(n)
      /\ \A c \in Rows : c \in Calls /\ seq[c] \in Nat
  BY DEF TypeInv, SagaTypeOK, Handler, Ordered, InTurn, AddInsert, Rows
<1> HIDE DEF n
<1>1. \A d \in Rows : seq[d] # n
  BY DEF AddInsert, Insertable, n
<1>2. \A d \in Rows : seq[d] < n
  BY <1>0, <1>1 DEF Ordered, Dense, Below
<1>3. PICK c \in Calls : /\ status[c] = "none" /\ c \notin Rows
                         /\ status' = [status EXCEPT ![c] = "pending"]
                         /\ seq' = [seq EXCEPT ![c] = n]
  BY DEF AddInsert, Rows, n
<1>4. /\ Rows' = Rows \cup {c} /\ seq'[c] = n /\ \A d \in Rows : seq'[d] = seq[d]
      /\ Made' = Made /\ Made[c] = 0
  <2>1. Made' = Made
    BY WorldStays DEF AddInsert, world
  <2>2. Made[c] = 0
    BY <1>3 DEF Ordered, Unborn
  <2>3. Rows' = Rows \cup {c}
    BY <1>0, <1>3 DEF SagaTypeOK, Rows
  <2> QED BY <1>0, <1>3, <2>1, <2>2, <2>3 DEF SagaTypeOK
<1>5. Dense'
  BY <1>0, <1>4 DEF Ordered, Dense, Below
<1>6. Sorted'
  BY <1>0, <1>2, <1>4 DEF Ordered, Sorted
<1>7. Unborn'
  BY <1>0, <1>3, <1>4 DEF Ordered, Unborn, SagaTypeOK
<1>8. ASSUME NEW y \in Handlers PROVE InTurn(y)'
  <2>1. CASE y = x
    <3>1. h'[x].at = "idle"
      BY LeaveMoves DEF AddInsert, Idle
    <3> QED BY <2>1, <3>1 DEF InTurn, Committing, AtCall
  <2>2. CASE y # x
    <3>1. h'[y] = h[y] /\ InTurn(y)
      BY <2>2, LeaveMoves DEF AddInsert, Ordered
    <3>2. h[y].at = "addInsert" => Below(h[y].seq)'
      BY <1>4, <3>1 DEF InTurn, Below
    <3>3. h[y].at \in Committing =>
            /\ h[y].todo \subseteq Rows'
            /\ \A d \in h[y].todo, e \in Rows' \ h[y].todo :
                 seq'[e] < seq'[d] => Made'[e] > 0 \/ (h[y].at \in AtCall /\ e = h[y].call)
      BY <1>0, <1>2, <1>4, <3>1 DEF InTurn
    <3>4. h[y].at \in AtCall \cup {"recordFailed"} => h[y].call \in Rows
      BY <3>1 DEF InTurn
    <3>5. h[y].at \in AtCall => \A e \in Rows' : seq'[e] < seq'[h[y].call] => Made'[e] > 0
      BY <1>0, <1>2, <1>4, <3>1, <3>4 DEF InTurn
    <3> QED BY <1>4, <3>1, <3>2, <3>3, <3>4, <3>5 DEF InTurn
  <2> QED BY <2>1, <2>2
<1> QED BY <1>5, <1>6, <1>7, <1>8 DEF Ordered

LEMMA AddOrdered ==
  ASSUME TypeInv, Ordered, NoneDeleted, NoneDeleted', NEW x \in Handlers, Add(x)
  PROVE  Ordered'
<1>0. h \in [Handlers -> Handler] /\ h[x] \in Handler
  BY DEF TypeInv, SagaTypeOK
<1>1. CASE AddStart(x)
  BY <1>1, StartOrdered DEF AddStart, Points, Committing, AtCall
<1>2. CASE AddSeq(x)
  <2>1. /\ \A y \in Handlers : y # x => h'[y] = h[y]
        /\ h'[x].at = "addInsert" /\ h'[x].seq = NextSeq
    BY <1>0, <1>2 DEF AddSeq, Handler
  <2>2. UNCHANGED <<status, seq, Made>>
    BY <1>2, WorldStays DEF AddSeq, rows, world
  <2>3. Below(NextSeq)
    <3>1. CASE NextSeq = 0
      BY <3>1 DEF Below
    <3>2. ASSUME NEW c \in Rows, NextSeq = seq[c] + 1 PROVE Below(NextSeq)
      <4>1. seq[c] \in Nat /\ Below(seq[c])
        BY DEF TypeInv, SagaTypeOK, Rows, Ordered, Dense
      <4> QED BY <3>2, <4>1 DEF Below
    <3> QED BY <3>1, <3>2, NextSeqIsNext
  <2>4. InTurn(x)'
    BY <2>1, <2>2, <2>3 DEF InTurn, Below, Rows, Committing, AtCall
  <2> QED BY <2>1, <2>2, <2>4, OrderedStep
<1>3. CASE AddInsert(x)
  BY <1>3, InsertOrdered
<1>4. CASE AddRefused(x)
  BY <1>4, LeaveOrdered DEF AddRefused
<1> QED BY <1>1, <1>2, <1>3, <1>4 DEF Add

LEMMA DeleteOrdered ==
  ASSUME TypeInv, Ordered, NoneDeleted, NoneDeleted', NEW x \in Handlers, Delete(x)
  PROVE  Ordered'
<1>1. CASE DeleteStart(x)
  BY <1>1, StartOrdered DEF DeleteStart, Points, Committing, AtCall
<1>2. CASE DeleteCalls(x)
  <2>1. \A c \in Calls : status'[c] = "none" <=> status[c] = "none"
    BY <1>2 DEF DeleteCalls, Rows
  <2>2. h'[x].at = "deleteTx" /\ \A y \in Handlers : y # x => h'[y] = h[y]
    BY <1>2, EnterMoves DEF DeleteCalls
  <2> QED BY <1>2, <2>1, <2>2, Aside, WorldStays DEF DeleteCalls, world, Committing, AtCall
<1>3. CASE DeleteTx(x)
  BY <1>3, LeaveOrdered DEF DeleteTx
<1> QED BY <1>1, <1>2, <1>3 DEF Delete

(* Writing the status of a row neither adds nor removes one.               *)
LEMMA SetCallRows ==
  ASSUME TypeInv, NEW c \in Rows, NEW s \in CallStatuses \ {"none"}, SetCall(c, s)
  PROVE  \A d \in Calls : status'[d] = "none" <=> status[d] = "none"
  BY DEF SetCall, Rows, TypeInv, SagaTypeOK

(* The tool of the first call not yet run takes effect.                    *)
LEMMA InvokeOrdered ==
  ASSUME TypeInv, Ordered, NoneDeleted, NoneDeleted', NEW x \in Handlers, Invoke(x)
  PROVE  Ordered'
<1> DEFINE k == h[x].call
<1>0. /\ SagaTypeOK /\ InTurn(x) /\ h[x].at = "invoke" /\ k \in Rows /\ k \in Calls
      /\ \A c \in Rows : seq[c] < seq[k] => Made[c] > 0
  BY DEF TypeInv, Ordered, InTurn, Invoke, AtCall, Rows
<1>1. Rows' = Rows /\ seq' = seq /\ status' = status
  BY DEF Invoke, rows, Rows
<1>2. /\ h'[x].at \in {"record", "recordFailed"} /\ h'[x].todo = h[x].todo
      /\ h'[x].call = k /\ \A y \in Handlers : y # x => h'[y] = h[y]
  BY EnterMoves DEF Invoke
<1> HIDE DEF k
<1>3. /\ \A c \in Calls : Made[c] > 0 => Made'[c] > 0
      /\ \A c \in Calls : c # k => Made'[c] = Made[c]
      /\ h'[x].at = "record" => Made'[k] > 0
  <2>1. k \in Calls /\ k = h[x].call
    BY <1>0 DEF k
  <2>2. /\ \A c \in Calls : Made[c] > 0 => Made'[c] > 0
        /\ \A c \in Calls : c # k => Made'[c] = Made[c]
        /\ Enter(x, "record") => Made'[k] > 0
        /\ Enter(x, "record") \/ Enter(x, "recordFailed")
    BY <2>1, InvokeMakes
  <2> QED BY <2>2, EnterMoves
<1>4. Dense' /\ Unborn'
  BY <1>0, <1>1, <1>3 DEF Ordered, Dense, Below, Unborn, Rows
<1>5. Sorted'
  <2> SUFFICES ASSUME NEW c \in Rows, NEW d \in Rows, seq[c] < seq[d], Made'[d] > 0
               PROVE  Made'[c] > 0
    BY <1>1 DEF Sorted
  <2>1. CASE d = k
    BY <1>0, <1>3, <2>1 DEF Rows
  <2>2. CASE d # k
    BY <1>3, <2>2 DEF Ordered, Sorted, Rows
  <2> QED BY <2>1, <2>2
<1>6. ASSUME NEW y \in Handlers PROVE InTurn(y)'
  <2>1. CASE y = x
    BY <1>0, <1>1, <1>2, <1>3, <2>1 DEF InTurn, Committing, AtCall, k, Rows
  <2>2. CASE y # x
    BY <1>1, <1>2, <1>3, <2>2 DEF Ordered, InTurn, Below, Rows
  <2> QED BY <2>1, <2>2
<1> QED BY <1>4, <1>5, <1>6 DEF Ordered

LEMMA CommitOrdered ==
  ASSUME TypeInv, Effects, Ordered, NoneDeleted, NoneDeleted', NEW x \in Handlers, Commit(x)
  PROVE  Ordered'
<1>0. /\ h \in [Handlers -> Handler] /\ h[x] \in Handler /\ InTurn(x) /\ Founded(x)
      /\ Rows \subseteq Calls /\ h[x].todo \in SUBSET Calls
  BY DEF TypeInv, SagaTypeOK, Handler, Ordered, Effects, Rows
<1>1. CASE CommitStart(x)
  BY <1>1, StartOrdered DEF CommitStart, Points, Committing, AtCall
<1>2. CASE CommitCalls(x)
  <2>1. /\ \A y \in Handlers : y # x => h'[y] = h[y]
        /\ h'[x].at = "commitMark" /\ h'[x].todo = Rows
    BY <1>0, <1>2 DEF CommitCalls, Handler
  <2>2. UNCHANGED <<status, seq, Made>>
    BY <1>2, WorldStays DEF CommitCalls, rows, world
  <2>3. InTurn(x)'
    BY <2>1, <2>2 DEF InTurn, AtCall, Rows
  <2> QED BY <2>1, <2>2, <2>3, OrderedStep
<1>3. CASE CommitMark(x)
  <2>1. /\ \A y \in Handlers : y # x => h'[y] = h[y]
        /\ h'[x].at = "next" /\ h'[x].todo = h[x].todo /\ h[x].at = "commitMark"
    BY <1>3, EnterMoves DEF CommitMark
  <2>2. UNCHANGED <<status, seq, Made>>
    BY <1>3, WorldStays DEF CommitMark, rows, world
  <2>3. InTurn(x)'
    BY <1>0, <2>1, <2>2 DEF InTurn, Committing, AtCall, Rows
  <2> QED BY <2>1, <2>2, <2>3, OrderedStep
<1>4. CASE RunNext(x)
  <2> DEFINE c == First(h[x].todo)
  <2>1. /\ h[x].at = "next" /\ UNCHANGED <<seq, Made>>
        /\ SetCall(c, "running") \/ SetCall(c, "failed")
    BY <1>4, WorldStays DEF RunNext, world
  <2>2. c \in h[x].todo /\ \A d \in h[x].todo : seq[c] <= seq[d]
    BY <1>0, <1>4, FirstIsFirst DEF RunNext
  <2>3. h[x].todo \subseteq Rows
    BY <1>0, <2>1 DEF InTurn, Committing
  <2>4. /\ \A y \in Handlers : y # x => h'[y] = h[y]
        /\ \/ h'[x].at = "undoMark"
           \/ h'[x].at = "invoke" /\ h'[x].call = c /\ h'[x].todo = h[x].todo \ {c}
    BY <1>0, <1>4 DEF RunNext, Handler
  <2> HIDE DEF c
  <2>5. \A d \in Calls : status'[d] = "none" <=> status[d] = "none"
    BY <2>1, <2>2, <2>3, SetCallRows DEF CallStatuses
  <2>6. Rows' = Rows
    BY <2>5, SameRows
  <2>7. \A d \in Calls : seq[d] \in Nat
    BY DEF TypeInv, SagaTypeOK
  <2>8. \A d \in Rows : seq[d] < seq[c] => Made[d] > 0
    <3> SUFFICES ASSUME NEW d \in Rows, seq[d] < seq[c] PROVE Made[d] > 0
      OBVIOUS
    <3>1. d \notin h[x].todo
      BY <1>0, <2>2, <2>7
    <3> QED BY <1>0, <2>1, <2>2, <3>1 DEF InTurn, Committing, AtCall
  <2>9. CASE h'[x].at = "invoke"
    <3>1. \A d \in h[x].todo, e \in Rows \ h[x].todo : seq[e] < seq[d] => Made[e] > 0
      BY <1>0, <2>1 DEF InTurn, Committing, AtCall
    <3>2. InTurn(x)'
      BY <2>1, <2>2, <2>3, <2>4, <2>6, <2>8, <2>9, <3>1 DEF InTurn, AtCall
    <3> QED BY <2>1, <2>4, <2>5, <3>2, OrderedStep
  <2>10. CASE h'[x].at = "undoMark"
    BY <2>1, <2>4, <2>5, <2>10, Aside DEF Committing, AtCall
  <2> QED BY <2>4, <2>9, <2>10
<1>5. CASE Invoke(x)
  BY <1>5, InvokeOrdered
<1>6. CASE RecordCommitted(x)
  <2>1. /\ \A y \in Handlers : y # x => h'[y] = h[y]
        /\ h'[x].at = "next" /\ h'[x].todo = h[x].todo
    BY <1>0, <1>6 DEF RecordCommitted, Handler
  <2>2. /\ h[x].at = "record" /\ UNCHANGED <<seq, Made>> /\ SetCall(h[x].call, "committed")
        /\ h[x].call \in Rows /\ Made[h[x].call] > 0
    BY <1>0, <1>6, WorldStays DEF RecordCommitted, world, InTurn, AtCall, Founded
  <2>3. \A d \in Calls : status'[d] = "none" <=> status[d] = "none"
    BY <2>2, SetCallRows DEF CallStatuses
  <2>4. Rows' = Rows
    BY <2>3, SameRows
  <2>5. InTurn(x)'
    BY <1>0, <2>1, <2>2, <2>4 DEF InTurn, Committing, AtCall
  <2> QED BY <2>1, <2>2, <2>3, <2>5, OrderedStep
<1>7. CASE RecordFailed(x)
  <2>1. /\ \A y \in Handlers : y # x => h'[y] = h[y]
        /\ h'[x].at = "undoMark"
    BY <1>0, <1>7 DEF RecordFailed, Handler
  <2>2. /\ UNCHANGED <<seq, Made>> /\ SetCall(h[x].call, "failed") /\ h[x].call \in Rows
    BY <1>0, <1>7, WorldStays DEF RecordFailed, world, InTurn
  <2>3. \A d \in Calls : status'[d] = "none" <=> status[d] = "none"
    BY <2>2, SetCallRows DEF CallStatuses
  <2> QED BY <2>1, <2>2, <2>3, Aside DEF Committing, AtCall
<1>8. CASE CommitEnd(x)
  BY <1>8, LeaveOrdered DEF CommitEnd
<1> QED BY <1>1, <1>2, <1>3, <1>4, <1>5, <1>6, <1>7, <1>8 DEF Commit

LEMMA RollbackOrdered ==
  ASSUME TypeInv, Effects, Ordered, NoneDeleted, NoneDeleted', NEW x \in Handlers, Rollback(x)
  PROVE  Ordered'
<1>0. /\ h \in [Handlers -> Handler] /\ h[x] \in Handler /\ Founded(x)
      /\ h[x].todo \in SUBSET Calls
      /\ h[x].at \in Busy => h[x].call \in Calls
  BY DEF TypeInv, SagaTypeOK, Handler, Effects, CallNamed
<1>1. \A c \in Calls : Made[c] > 0 => c \in Rows
  BY DEF Ordered, Unborn, NoneDeleted, Rows
<1>2. CASE RollbackPending(x) \/ RollbackStart(x)
  BY <1>2, StartOrdered DEF RollbackPending, RollbackStart, Points, Committing, AtCall
<1>3. CASE RollbackEmpty(x) \/ UndoEnd(x)
  BY <1>3, LeaveOrdered DEF RollbackEmpty, UndoEnd
<1>4. CASE RollbackCalls(x) \/ UndoMark(x)
  <2>1. /\ \A y \in Handlers : y # x => h'[y] = h[y]
        /\ h'[x].at \in {"undoMark", "undoNext"}
    <3>1. CASE RollbackCalls(x)
      BY <1>0, <3>1 DEF RollbackCalls, Handler
    <3>2. CASE UndoMark(x)
      BY <1>0, <3>2 DEF UndoMark, Idle
    <3> QED BY <1>4, <3>1, <3>2
  <2> QED BY <1>4, <2>1, Aside, WorldStays DEF RollbackCalls, UndoMark, rows, world, Committing, AtCall
<1>5. CASE UndoNext(x)
  <2> DEFINE c == Last(h[x].todo)
  <2>1. c \in Rows
    <3>1. h[x].at = "undoNext" /\ h[x].todo # {}
      BY <1>5 DEF UndoNext
    <3>2. \A d \in h[x].todo : Made[d] > 0
      BY <1>0, <3>1 DEF Founded, Undoing
    <3>3. c \in h[x].todo
      BY <1>0, <3>1, LastIsLast
    <3> QED BY <1>0, <1>1, <3>2, <3>3
  <2>2. /\ \A y \in Handlers : y # x => h'[y] = h[y]
        /\ h'[x].at = "undoInvoke" /\ UNCHANGED <<seq, Made>> /\ SetCall(c, "compensating")
    BY <1>0, <1>5, WorldStays DEF UndoNext, Handler, world
  <2> HIDE DEF c
  <2>3. \A d \in Calls : status'[d] = "none" <=> status[d] = "none"
    BY <2>1, <2>2, SetCallRows DEF CallStatuses
  <2> QED BY <2>2, <2>3, Aside DEF Committing, AtCall
<1>6. CASE UndoInvoke(x)
  <2>1. /\ \A y \in Handlers : y # x => h'[y] = h[y]
        /\ h'[x].at \in {"undoRecord", "undoNext"}
    <3>1. CASE Enter(x, "undoRecord")
      BY <3>1, EnterMoves
    <3>2. CASE h' = [h EXCEPT ![x].at = "undoNext", ![x].call = NULL]
      BY <1>0, <3>2 DEF Handler
    <3> QED BY <1>6, <3>1, <3>2 DEF UndoInvoke
  <2> QED BY <1>6, <2>1, Aside, WorldStays DEF UndoInvoke, rows, Committing, AtCall
<1>7. CASE UndoRecord(x)
  <2>1. h[x].call \in Rows
    BY <1>0, <1>1, <1>7 DEF UndoRecord, Busy, Founded
  <2>2. /\ \A y \in Handlers : y # x => h'[y] = h[y]
        /\ h'[x].at = "undoNext" /\ UNCHANGED <<seq, Made>>
        /\ SetCall(h[x].call, "compensated")
    BY <1>0, <1>7, WorldStays DEF UndoRecord, Handler, world
  <2>3. \A d \in Calls : status'[d] = "none" <=> status[d] = "none"
    BY <2>1, <2>2, SetCallRows DEF CallStatuses
  <2> QED BY <2>2, <2>3, Aside DEF Committing, AtCall
<1> QED BY <1>2, <1>3, <1>4, <1>5, <1>6, <1>7 DEF Rollback

(* A deleted row stays deleted.                                            *)
LEMMA DeletedStays == TypeInv /\ [Next]_vars /\ NoneDeleted' => NoneDeleted
<1> SUFFICES ASSUME TypeInv, [Next]_vars, NEW c \in Calls, status[c] = "deleted"
             PROVE  status'[c] = "deleted"
  BY DEF NoneDeleted
<1>0. status \in [Calls -> CallStatuses]
  BY DEF TypeInv, SagaTypeOK
<1>1. CASE UNCHANGED status
  BY <1>1
<1>2. CASE \E d, s : SetCall(d, s)
  BY <1>0, <1>2 DEF SetCall
<1>3. ASSUME NEW x \in Handlers, Add(x) PROVE status'[c] = "deleted"
  BY <1>0, <1>3 DEF Add, AddStart, AddSeq, AddInsert, AddRefused, Start, rows
<1>4. ASSUME NEW x \in Handlers, Delete(x) PROVE status'[c] = "deleted"
  BY <1>0, <1>4 DEF Delete, DeleteStart, DeleteCalls, DeleteTx, Start, Rows, rows
<1>5. ASSUME NEW x \in Handlers, Commit(x) PROVE status'[c] = "deleted"
  <2>1. UNCHANGED status \/ \E d, s : SetCall(d, s)
    BY <1>5 DEF Commit, CommitStart, CommitCalls, CommitMark, RunNext, Invoke, RecordCommitted,
       RecordFailed, CommitEnd, Start, rows
  <2> QED BY <1>1, <1>2, <2>1
<1>6. ASSUME NEW x \in Handlers, Rollback(x) PROVE status'[c] = "deleted"
  <2>1. UNCHANGED status \/ \E d, s : SetCall(d, s)
    BY <1>6 DEF Rollback, RollbackPending, RollbackEmpty, RollbackStart, RollbackCalls, UndoMark,
       UndoNext, UndoInvoke, UndoRecord, UndoEnd, Start, rows
  <2> QED BY <1>1, <1>2, <2>1
<1>7. CASE UNCHANGED vars \/ \E x \in Handlers : Lose(x)
  BY <1>7 DEF vars, Lose, rows
<1> QED BY <1>3, <1>4, <1>5, <1>6, <1>7 DEF Next

LEMMA OrderedNext ==
  TypeInv /\ Effects /\ (NoneDeleted => Ordered) /\ [Next]_vars => (NoneDeleted => Ordered)'
<1> SUFFICES ASSUME TypeInv, Effects, NoneDeleted => Ordered, [Next]_vars, NoneDeleted'
             PROVE  Ordered'
  OBVIOUS
<1>0. NoneDeleted /\ Ordered
  BY DeletedStays
<1>1. ASSUME NEW x \in Handlers, Lose(x) PROVE Ordered'
  BY <1>0, <1>1, LeaveOrdered DEF Lose
<1>2. CASE UNCHANGED vars
  BY <1>0, <1>2, WorldStays DEF vars, rows, world, Ordered, Dense, Below, Sorted, Unborn, InTurn, Rows
<1> QED
  BY <1>0, <1>1, <1>2, AddOrdered, DeleteOrdered, CommitOrdered, RollbackOrdered DEF Next

(* Tools run in order of seq, however many commits overlap with each other *)
(* and with additions of calls, and wherever they are lost.                *)
THEOREM OrderOfRuns == Spec => []RunsInOrder
<1>1. Init => Effects /\ (NoneDeleted => Ordered)
  <2> SUFFICES ASSUME Init PROVE Effects /\ Ordered
    OBVIOUS
  <2>1. Rows = {} /\ \A x \in Handlers : h[x] = Idle
    BY DEF Init, Rows
  <2>2. Effects
    BY NothingMade
  <2>3. Dense /\ Sorted /\ Unborn
    BY <2>1, NothingMade DEF Dense, Sorted, Unborn
  <2>4. ASSUME NEW x \in Handlers PROVE InTurn(x)
    <3>1. h[x].at = "idle"
      BY <2>1 DEF Idle
    <3> QED BY <3>1 DEF InTurn, Committing, AtCall
  <2> QED BY <2>2, <2>3, <2>4 DEF Ordered
<1>2. (NoneDeleted => Ordered) => RunsInOrder
  BY DEF Ordered, Sorted, RunsInOrder, NoneDeleted
<1> QED BY <1>1, <1>2, EffectsNext, OrderedNext, TypeInvariant, PTL DEF Spec

--------------------------------------------------------------------------------
(* Transactions whose handlers never overlapped.  What the status of a row *)
(* says of the world outside:                                              *)
RowTells(c) ==
  /\ status[c] \in {"none", "pending"} => Made[c] = 0 /\ MadeUndone[c] = 0
  /\ status[c] \in {"running", "failed"} => MadeUndone[c] = 0
  /\ status[c] = "committed" => Made[c] = 1 /\ MadeUndone[c] = 0
  /\ status[c] = "compensating" => MadeUndone[c] <= Made[c]
  /\ status[c] = "compensated" => Made[c] = MadeUndone[c]

(* What the one handler in flight knows of the transaction and its rows.   *)
Preparing == {"addSeq", "addInsert", "commitCalls", "rollbackEmpty"}
Running == {"next", "invoke", "record", "recordFailed"}
Compensating == {"undoNext", "undoInvoke", "undoRecord"}

InPhase(k) ==
  /\ k.at \in Preparing => tx = "pending"
  /\ k.at = "commitCalls" => k.done = {}
  /\ k.at = "commitMark" => tx = "pending" /\ k.todo = Rows /\ k.done = {}
  /\ k.at \in {"deleteCalls", "deleteTx"} => tx \in {"pending", "rolled_back"}
  /\ k.at \in {"rollbackCalls", "undoMark"} => tx \in {"committing", "compensating"}
  /\ k.at \in Running =>
       /\ tx = "committing"
       /\ \A c \in k.todo : status[c] = "pending"
  /\ k.at \in Running \cup {"undoMark"} =>
       \A c \in Calls : c \in k.done <=> status[c] = "committed"
  /\ k.at = "next" => Rows \subseteq k.todo \cup k.done
  /\ k.at \in Running \ {"next"} =>
       /\ Rows \subseteq k.todo \cup k.done \cup {k.call}
       /\ status[k.call] = "running" /\ MadeUndone[k.call] = 0
       /\ k.at = "invoke" => Made[k.call] = 0
       /\ k.at = "record" => Made[k.call] = 1
  /\ k.at \in Compensating =>
       /\ tx = "compensating"
       /\ \A c \in k.todo : status[c] = "committed"
       /\ \A c \in Calls : status[c] = "committed" /\ comp[c] => c \in k.todo
  /\ k.at \in {"undoInvoke", "undoRecord"} =>
       /\ status[k.call] = "compensating" /\ Made[k.call] = 1
       /\ MadeUndone[k.call] = IF k.at = "undoRecord" THEN 1 ELSE 0
       /\ \A c \in k.todo : seq[c] <= seq[k.call]

TxTells ==
  /\ tx = "pending" => \A c \in Rows : status[c] = "pending"
  /\ tx = "committed" => \A c \in Rows : status[c] = "committed"
  /\ tx = "rolled_back" => \A c \in Rows : comp[c] => status[c] # "committed"

Solo ==
  /\ \A x, y \in Handlers : h[x].at # "idle" /\ h[y].at # "idle" => x = y
  /\ \A c \in Calls : RowTells(c)
  /\ TxTells
  /\ \A x \in Handlers : InPhase(h[x])
SoloInv == alone => Solo

(* One handler moves, the others are idle.                                 *)
LEMMA SoloMove ==
  ASSUME Solo, NEW x \in Handlers, h[x].at # "idle",
         \A y \in Handlers : y # x => h'[y] = h[y],
         (\A c \in Calls : RowTells(c))', TxTells', InPhase(h[x])'
  PROVE  Solo'
<1>1. \A y \in Handlers : y # x => h'[y].at = "idle"
  BY DEF Solo
<1>2. \A y \in Handlers : y # x => InPhase(h[y])'
  BY <1>1 DEF InPhase, Preparing, Running, Compensating
<1> QED BY <1>1, <1>2 DEF Solo

LEMMA SoloLeave ==
  ASSUME TypeInv, Solo, NEW x \in Handlers, h[x].at # "idle", Leave(x),
         (\A c \in Calls : RowTells(c))', TxTells'
  PROVE  Solo'
<1>1. h'[x].at = "idle" /\ \A y \in Handlers : y # x => h'[y] = h[y]
  BY DEF Leave, Idle, TypeInv, SagaTypeOK
<1>2. InPhase(h[x])'
  BY <1>1 DEF InPhase, Preparing, Running, Compensating
<1> QED BY <1>1, <1>2, SoloMove

LEMMA SoloStart ==
  ASSUME TypeInv, Solo, alone', NEW x \in Handlers, NEW allowed, NEW at, Start(x, allowed, at),
         \A k \in Handler : k.at = at /\ k.done = {} /\ tx \in allowed => InPhase(k),
         TypeInv'
  PROVE  Solo'
<1>1. /\ \A y \in Handlers : h[y].at = "idle"
      /\ tx \in allowed
  BY DEF Start
<1>2. /\ \A y \in Handlers : y # x => h'[y] = h[y]
      /\ UNCHANGED <<tx, status, seq, comp, Made, MadeUndone>>
  BY StartMoves, WorldStays DEF rows, world
<1>3. h'[x] \in Handler /\ h'[x].at = at /\ h'[x].done = {}
  <2>1. h'[x] = [Idle EXCEPT !.at = at]
    BY StartMoves
  <2>2. h'[x].at = at /\ h'[x].done = {}
    BY <2>1 DEF Idle
  <2> QED BY <2>2 DEF TypeInv, SagaTypeOK
<1>4. InPhase(h'[x])
  BY <1>1, <1>3
<1>5. InPhase(h[x])'
  BY <1>2, <1>4 DEF InPhase, Rows
<1>6. (\A c \in Calls : RowTells(c))' /\ TxTells'
  BY <1>2 DEF Solo, RowTells, TxTells, Rows
<1>7. ASSUME NEW y \in Handlers, y # x PROVE InPhase(h[y])' /\ h'[y].at = "idle"
  BY <1>1, <1>2, <1>7 DEF InPhase, Preparing, Running, Compensating
<1> QED BY <1>5, <1>6, <1>7 DEF Solo

LEMMA SoloAdd ==
  ASSUME TypeInv, TypeInv', Solo, alone', NEW x \in Handlers, Add(x)
  PROVE  Solo'
<1>0. h \in [Handlers -> Handler] /\ h[x] \in Handler /\ InPhase(h[x]) /\ SagaTypeOK
  BY DEF TypeInv, SagaTypeOK, Solo
<1>1. CASE AddStart(x)
  BY <1>1, SoloStart DEF AddStart, InPhase, Preparing, Running, Compensating
<1>2. CASE AddSeq(x)
  <2>1. /\ h[x].at = "addSeq" /\ h'[x].at = "addInsert"
        /\ \A y \in Handlers : y # x => h'[y] = h[y]
        /\ UNCHANGED <<tx, status, seq, comp, Made, MadeUndone>>
    BY <1>0, <1>2, WorldStays DEF AddSeq, Handler, rows, world
  <2>2. InPhase(h[x])'
    BY <1>0, <2>1 DEF InPhase, Preparing, Running, Compensating
  <2>3. (\A c \in Calls : RowTells(c))' /\ TxTells'
    BY <2>1 DEF Solo, RowTells, TxTells, Rows
  <2> QED BY <2>1, <2>2, <2>3, SoloMove
<1>3. CASE AddInsert(x)
  <2>1. PICK c \in Calls : status[c] = "none" /\ status' = [status EXCEPT ![c] = "pending"]
    BY <1>3 DEF AddInsert
  <2>2. /\ h[x].at = "addInsert" /\ Leave(x)
        /\ UNCHANGED <<tx, Made, MadeUndone>>
    BY <1>3, WorldStays DEF AddInsert, world
  <2>3. tx = "pending"
    BY <1>0, <2>2 DEF InPhase, Preparing
  <2>4. (\A d \in Calls : RowTells(d))'
    BY <1>0, <2>1, <2>2 DEF Solo, RowTells, SagaTypeOK
  <2>5. \A d \in Rows' : status'[d] = "pending"
    BY <1>0, <2>1, <2>3 DEF Solo, TxTells, Rows, SagaTypeOK
  <2>6. TxTells'
    BY <2>2, <2>3, <2>5 DEF TxTells
  <2> QED BY <2>2, <2>4, <2>6, SoloLeave
<1>4. CASE AddRefused(x)
  <2>1. (\A c \in Calls : RowTells(c))' /\ TxTells'
    BY <1>4, WorldStays DEF AddRefused, Solo, RowTells, TxTells, Rows, rows, world
  <2> QED BY <1>4, <2>1, SoloLeave DEF AddRefused
<1> QED BY <1>1, <1>2, <1>3, <1>4 DEF Add

LEMMA SoloDelete ==
  ASSUME TypeInv, TypeInv', Solo, alone', NEW x \in Handlers, Delete(x)
  PROVE  Solo'
<1>0. h \in [Handlers -> Handler] /\ h[x] \in Handler /\ InPhase(h[x]) /\ SagaTypeOK
  BY DEF TypeInv, SagaTypeOK, Solo
<1>1. CASE DeleteStart(x)
  BY <1>1, SoloStart DEF DeleteStart, InPhase, Preparing, Running, Compensating
<1>2. CASE DeleteCalls(x)
  <2>1. /\ h[x].at = "deleteCalls" /\ h'[x].at = "deleteTx"
        /\ \A y \in Handlers : y # x => h'[y] = h[y]
        /\ UNCHANGED <<tx, seq, comp, Made, MadeUndone>>
        /\ \A c \in Calls : status'[c] = IF c \in Rows THEN "deleted" ELSE status[c]
    BY <1>2, EnterMoves, WorldStays DEF DeleteCalls, world
  <2>2. tx \in {"pending", "rolled_back"}
    BY <1>0, <2>1 DEF InPhase
  <2>3. InPhase(h[x])'
    BY <2>1, <2>2 DEF InPhase, Preparing, Running, Compensating
  <2>4. Rows' = {}
    BY <2>1 DEF Rows
  <2>5. (\A c \in Calls : RowTells(c))' /\ TxTells'
    BY <2>1, <2>4 DEF Solo, RowTells, TxTells, Rows
  <2> QED BY <2>1, <2>3, <2>5, SoloMove
<1>3. CASE DeleteTx(x)
  <2>1. /\ h[x].at = "deleteTx" /\ Leave(x)
        /\ UNCHANGED <<status, seq, comp, Made, MadeUndone>>
        /\ tx' = tx \/ tx' = "deleted"
    BY <1>3, WorldStays DEF DeleteTx, rows, world, SetTx
  <2>2. (\A c \in Calls : RowTells(c))' /\ TxTells'
    BY <2>1 DEF Solo, RowTells, TxTells, Rows
  <2> QED BY <2>1, <2>2, SoloLeave
<1> QED BY <1>1, <1>2, <1>3 DEF Delete

LEMMA SoloCommit ==
  ASSUME TypeInv, TypeInv', Solo, alone', NEW x \in Handlers, Commit(x)
  PROVE  Solo'
<1>0. /\ h \in [Handlers -> Handler] /\ h[x] \in Handler /\ InPhase(h[x]) /\ SagaTypeOK
      /\ h[x].todo \in SUBSET Calls /\ h[x].done \in SUBSET Calls
      /\ h[x].at \in Busy => h[x].call \in Calls
  BY DEF TypeInv, SagaTypeOK, Solo, Handler, CallNamed
<1>1. CASE CommitStart(x)
  BY <1>1, SoloStart DEF CommitStart, InPhase, Preparing, Running, Compensating
<1>2. CASE CommitCalls(x)
  <2>1. /\ h[x].at = "commitCalls" /\ h'[x].at = "commitMark" /\ h'[x].todo = Rows
        /\ h'[x].done = h[x].done
        /\ \A y \in Handlers : y # x => h'[y] = h[y]
        /\ UNCHANGED <<tx, status, seq, comp, Made, MadeUndone>>
    BY <1>0, <1>2, WorldStays DEF CommitCalls, Handler, rows, world
  <2>2. InPhase(h[x])'
    BY <1>0, <2>1 DEF InPhase, Preparing, Running, Compensating, Rows
  <2>3. (\A c \in Calls : RowTells(c))' /\ TxTells'
    BY <2>1 DEF Solo, RowTells, TxTells, Rows
  <2> QED BY <2>1, <2>2, <2>3, SoloMove
<1>3. CASE CommitMark(x)
  <2>1. /\ h[x].at = "commitMark" /\ h'[x].at = "next"
        /\ h'[x].todo = h[x].todo /\ h'[x].done = h[x].done
        /\ \A y \in Handlers : y # x => h'[y] = h[y]
        /\ UNCHANGED <<status, seq, comp, Made, MadeUndone>> /\ SetTx("committing")
    BY <1>3, EnterMoves, WorldStays DEF CommitMark, rows, world
  <2>2. /\ tx = "pending" /\ h[x].todo = Rows /\ h[x].done = {}
        /\ \A c \in Rows : status[c] = "pending"
    BY <1>0, <2>1 DEF InPhase, Solo, TxTells
  <2>3. tx' = "committing" /\ Rows' = Rows
    BY <2>1, <2>2 DEF SetTx, Rows
  <2>4. \A c \in Calls : status[c] # "committed"
    BY <2>2 DEF Rows
  <2>5. InPhase(h[x])'
    BY <2>1, <2>2, <2>3, <2>4 DEF InPhase, Preparing, Running, Compensating
  <2>6. (\A c \in Calls : RowTells(c))' /\ TxTells'
    BY <2>1, <2>3 DEF Solo, RowTells, TxTells
  <2> QED BY <2>1, <2>5, <2>6, SoloMove
<1>4. CASE RunNext(x)
  <2> DEFINE c == First(h[x].todo)
  <2>1. /\ h[x].at = "next" /\ UNCHANGED <<tx, seq, comp, Made, MadeUndone>>
        /\ \A y \in Handlers : y # x => h'[y] = h[y]
        /\ \/ /\ SetCall(c, "running")
              /\ h'[x].at = "invoke" /\ h'[x].call = c /\ h'[x].todo = h[x].todo \ {c}
              /\ h'[x].done = h[x].done
           \/ /\ SetCall(c, "failed")
              /\ h'[x].at = "undoMark" /\ h'[x].done = h[x].done
    BY <1>0, <1>4, WorldStays DEF RunNext, Handler, world
  <2>2. c \in h[x].todo
    BY <1>0, <1>4, FirstIsFirst DEF RunNext
  <2> HIDE DEF c
  <2>3. /\ tx = "committing" /\ c \in Calls /\ status[c] = "pending"
        /\ \A d \in h[x].todo : status[d] = "pending"
        /\ \A d \in Calls : d \in h[x].done <=> status[d] = "committed"
        /\ Rows \subseteq h[x].todo \cup h[x].done
        /\ Made[c] = 0 /\ MadeUndone[c] = 0
    BY <1>0, <2>1, <2>2 DEF InPhase, Running, Solo, RowTells
  <2>4. /\ status'[c] \in {"running", "failed"}
        /\ h'[x].at = "invoke" => status'[c] = "running"
        /\ \A d \in Calls : d # c => status'[d] = status[d]
    BY <1>0, <2>1, <2>3 DEF SetCall, SagaTypeOK
  <2>5. Rows' = Rows
    BY <2>3, <2>4 DEF Rows
  <2>6. (\A d \in Calls : RowTells(d))'
    BY <2>1, <2>3, <2>4 DEF Solo, RowTells
  <2>7. TxTells'
    BY <2>1, <2>3 DEF TxTells
  <2>8. InPhase(h[x])'
    <3>1. CASE h'[x].at = "invoke"
      <4>1. /\ h'[x].call = c /\ h'[x].todo = h[x].todo \ {c} /\ h'[x].done = h[x].done
            /\ status'[c] = "running"
        BY <2>1, <2>4, <3>1
      <4>2. Rows' \subseteq h'[x].todo \cup h'[x].done \cup {c}
        BY <2>3, <2>5, <4>1
      <4>3. \A d \in Calls : d \in h'[x].done <=> status'[d] = "committed"
        BY <2>3, <2>4, <4>1
      <4>4. \A d \in h'[x].todo : status'[d] = "pending"
        BY <1>0, <2>3, <2>4, <4>1
      <4> QED
        BY <2>1, <2>3, <3>1, <4>1, <4>2, <4>3, <4>4
           DEF InPhase, Preparing, Running, Compensating
    <3>2. CASE h'[x].at = "undoMark"
      BY <2>1, <2>3, <2>4, <3>2 DEF InPhase, Preparing, Running, Compensating
    <3> QED BY <2>1, <3>1, <3>2
  <2> QED BY <2>1, <2>6, <2>7, <2>8, SoloMove
<1>5. CASE Invoke(x)
  <2> DEFINE c == h[x].call
  <2>1. /\ h[x].at = "invoke" /\ UNCHANGED <<tx, status, seq, comp, MadeUndone>>
        /\ \A y \in Handlers : y # x => h'[y] = h[y]
        /\ h'[x].todo = h[x].todo /\ h'[x].done = h[x].done /\ h'[x].call = c
        /\ h'[x].at \in {"record", "recordFailed"}
        /\ h'[x].at = "record" => Enter(x, "record")
    <3>1. UNCHANGED <<tx, status, seq, comp>> /\ MadeUndone' = MadeUndone /\ h[x].at = "invoke"
      BY <1>5, WorldStays DEF Invoke, rows
    <3>2. Enter(x, "record") \/ Enter(x, "recordFailed")
      BY <1>5 DEF Invoke
    <3> QED BY <3>1, <3>2, EnterMoves
  <2>2. c \in Calls
    BY <1>0, <2>1 DEF Busy
  <2> HIDE DEF c
  <2>3. /\ tx = "committing" /\ status[c] = "running" /\ MadeUndone[c] = 0 /\ Made[c] = 0
        /\ \A d \in h[x].todo : status[d] = "pending"
        /\ \A d \in Calls : d \in h[x].done <=> status[d] = "committed"
        /\ Rows \subseteq h[x].todo \cup h[x].done \cup {c}
    BY <1>0, <2>1 DEF InPhase, Running, c
  <2>4. /\ h'[x].at = "record" => Made'[c] = 1
        /\ \A d \in Calls : d # c => Made'[d] = Made[d]
    BY <1>5, <2>1, <2>2, <2>3, InvokeMakes DEF c
  <2>5. (\A d \in Calls : RowTells(d))'
    BY <2>1, <2>3, <2>4 DEF Solo, RowTells
  <2>6. TxTells'
    BY <2>1, <2>3 DEF TxTells
  <2>7. Rows' = Rows
    BY <2>1 DEF Rows
  <2>8. InPhase(h[x])'
    BY <2>1, <2>3, <2>4, <2>7 DEF InPhase, Preparing, Running, Compensating
  <2> QED BY <2>1, <2>5, <2>6, <2>8, SoloMove
<1>6. CASE RecordCommitted(x)
  <2> DEFINE c == h[x].call
  <2>1. /\ h[x].at = "record" /\ UNCHANGED <<tx, seq, comp, Made, MadeUndone>>
        /\ \A y \in Handlers : y # x => h'[y] = h[y]
        /\ h'[x].todo = h[x].todo /\ h'[x].done = h[x].done \cup {c} /\ h'[x].at = "next"
        /\ SetCall(c, "committed")
    BY <1>0, <1>6, WorldStays DEF RecordCommitted, Handler, world
  <2>2. c \in Calls
    BY <1>0, <2>1 DEF Busy
  <2> HIDE DEF c
  <2>3. /\ tx = "committing" /\ status[c] = "running" /\ MadeUndone[c] = 0 /\ Made[c] = 1
        /\ \A d \in h[x].todo : status[d] = "pending"
        /\ \A d \in Calls : d \in h[x].done <=> status[d] = "committed"
        /\ Rows \subseteq h[x].todo \cup h[x].done \cup {c}
    BY <1>0, <2>1 DEF InPhase, Running, c
  <2>4. status'[c] = "committed" /\ \A d \in Calls : d # c => status'[d] = status[d]
    BY <1>0, <2>1, <2>2, <2>3 DEF SetCall, SagaTypeOK
  <2>5. (\A d \in Calls : RowTells(d))'
    BY <2>1, <2>3, <2>4 DEF Solo, RowTells
  <2>6. TxTells'
    BY <2>1, <2>3 DEF TxTells
  <2>7. Rows' = Rows
    BY <2>2, <2>3, <2>4 DEF Rows
  <2>8. InPhase(h[x])'
    BY <1>0, <2>1, <2>2, <2>3, <2>4, <2>7 DEF InPhase, Preparing, Running, Compensating
  <2> QED BY <2>1, <2>5, <2>6, <2>8, SoloMove
<1>7. CASE RecordFailed(x)
  <2> DEFINE c == h[x].call
  <2>1. /\ h[x].at = "recordFailed" /\ UNCHANGED <<tx, seq, comp, Made, MadeUndone>>
        /\ \A y \in Handlers : y # x => h'[y] = h[y]
        /\ h'[x].done = h[x].done /\ h'[x].at = "undoMark"
        /\ SetCall(c, "failed")
    BY <1>0, <1>7, WorldStays DEF RecordFailed, Handler, world
  <2>2. c \in Calls
    BY <1>0, <2>1 DEF Busy
  <2> HIDE DEF c
  <2>3. /\ tx = "committing" /\ status[c] = "running" /\ MadeUndone[c] = 0
        /\ \A d \in Calls : d \in h[x].done <=> status[d] = "committed"
    BY <1>0, <2>1 DEF InPhase, Running, c
  <2>4. status'[c] = "failed" /\ \A d \in Calls : d # c => status'[d] = status[d]
    BY <1>0, <2>1, <2>2, <2>3 DEF SetCall, SagaTypeOK
  <2>5. (\A d \in Calls : RowTells(d))'
    BY <2>1, <2>3, <2>4 DEF Solo, RowTells
  <2>6. TxTells'
    BY <2>1, <2>3 DEF TxTells
  <2>7. InPhase(h[x])'
    BY <2>1, <2>2, <2>3, <2>4 DEF InPhase, Preparing, Running, Compensating
  <2> QED BY <2>1, <2>5, <2>6, <2>7, SoloMove
<1>8. CASE CommitEnd(x)
  <2>1. /\ h[x].at = "next" /\ h[x].todo = {} /\ Leave(x) /\ SetTx("committed")
        /\ UNCHANGED <<status, seq, comp, Made, MadeUndone>>
    BY <1>8, WorldStays DEF CommitEnd, rows, world
  <2>2. tx = "committing" /\ \A c \in Rows : status[c] = "committed"
    BY <1>0, <2>1 DEF InPhase, Running
  <2>3. tx' = "committed" /\ Rows' = Rows
    BY <2>1, <2>2 DEF SetTx, Rows
  <2>4. (\A c \in Calls : RowTells(c))' /\ TxTells'
    BY <2>1, <2>2, <2>3 DEF Solo, RowTells, TxTells
  <2> QED BY <2>1, <2>4, SoloLeave
<1> QED BY <1>1, <1>2, <1>3, <1>4, <1>5, <1>6, <1>7, <1>8 DEF Commit

LEMMA SoloRollback ==
  ASSUME TypeInv, TypeInv', Solo, alone', NEW x \in Handlers, Rollback(x)
  PROVE  Solo'
<1>0. /\ h \in [Handlers -> Handler] /\ h[x] \in Handler /\ InPhase(h[x]) /\ SagaTypeOK
      /\ h[x].todo \in SUBSET Calls /\ h[x].done \in SUBSET Calls
      /\ h[x].at \in Busy => h[x].call \in Calls
  BY DEF TypeInv, SagaTypeOK, Solo, Handler, CallNamed
<1>1. CASE RollbackPending(x)
  BY <1>1, SoloStart DEF RollbackPending, InPhase, Preparing, Running, Compensating
<1>2. CASE RollbackEmpty(x)
  <2>1. /\ h[x].at = "rollbackEmpty" /\ Leave(x) /\ SetTx("rolled_back")
        /\ UNCHANGED <<status, seq, comp, Made, MadeUndone>>
    BY <1>2, WorldStays DEF RollbackEmpty, rows, world
  <2>2. tx = "pending" /\ \A c \in Rows : status[c] = "pending"
    BY <1>0, <2>1 DEF InPhase, Preparing, Solo, TxTells
  <2>3. tx' = "rolled_back" /\ Rows' = Rows
    BY <2>1, <2>2 DEF SetTx, Rows
  <2>4. (\A c \in Calls : RowTells(c))' /\ TxTells'
    BY <2>1, <2>2, <2>3 DEF Solo, RowTells, TxTells
  <2> QED BY <2>1, <2>4, SoloLeave
<1>3. CASE RollbackStart(x)
  BY <1>3, SoloStart DEF RollbackStart, InPhase, Preparing, Running, Compensating
<1>4. CASE RollbackCalls(x)
  <2>1. /\ h[x].at = "rollbackCalls" /\ h'[x].at = "undoMark"
        /\ h'[x].done = {c \in Rows : status[c] = "committed"}
        /\ \A y \in Handlers : y # x => h'[y] = h[y]
        /\ UNCHANGED <<tx, status, seq, comp, Made, MadeUndone>>
    BY <1>0, <1>4, WorldStays DEF RollbackCalls, Handler, rows, world
  <2>2. tx \in {"committing", "compensating"}
    BY <1>0, <2>1 DEF InPhase
  <2>3. \A c \in Calls : c \in h'[x].done <=> status'[c] = "committed"
    BY <2>1 DEF Rows
  <2>4. InPhase(h[x])'
    BY <2>1, <2>2, <2>3 DEF InPhase, Preparing, Running, Compensating
  <2>5. (\A c \in Calls : RowTells(c))' /\ TxTells'
    BY <2>1 DEF Solo, RowTells, TxTells, Rows
  <2> QED BY <2>1, <2>4, <2>5, SoloMove
<1>5. CASE UndoMark(x)
  <2>1. /\ h[x].at = "undoMark" /\ SetTx("compensating")
        /\ UNCHANGED <<status, seq, comp, Made, MadeUndone>>
        /\ \A y \in Handlers : y # x => h'[y] = h[y]
        /\ h'[x].at = "undoNext" /\ h'[x].todo = {c \in h[x].done : comp[c]}
    BY <1>0, <1>5, WorldStays DEF UndoMark, Idle, rows, world
  <2>2. /\ tx \in {"committing", "compensating"}
        /\ \A c \in Calls : c \in h[x].done <=> status[c] = "committed"
    BY <1>0, <2>1 DEF InPhase
  <2>3. tx' = "compensating"
    BY <2>1, <2>2 DEF SetTx
  <2>4. InPhase(h[x])'
    BY <1>0, <2>1, <2>2, <2>3 DEF InPhase, Preparing, Running, Compensating
  <2>5. (\A c \in Calls : RowTells(c))' /\ TxTells'
    BY <2>1, <2>3 DEF Solo, RowTells, TxTells
  <2> QED BY <2>1, <2>4, <2>5, SoloMove
<1>6. CASE UndoNext(x)
  <2> DEFINE c == Last(h[x].todo)
  <2>1. /\ h[x].at = "undoNext" /\ UNCHANGED <<tx, seq, comp, Made, MadeUndone>>
        /\ \A y \in Handlers : y # x => h'[y] = h[y]
        /\ SetCall(c, "compensating")
        /\ h'[x].at = "undoInvoke" /\ h'[x].call = c /\ h'[x].todo = h[x].todo \ {c}
    BY <1>0, <1>6, WorldStays DEF UndoNext, Handler, world
  <2>2. c \in h[x].todo /\ \A d \in h[x].todo : seq[d] <= seq[c]
    BY <1>0, <1>6, LastIsLast DEF UndoNext
  <2> HIDE DEF c
  <2>3. /\ tx = "compensating" /\ c \in Calls /\ status[c] = "committed"
        /\ \A d \in h[x].todo : status[d] = "committed"
        /\ \A d \in Calls : status[d] = "committed" /\ comp[d] => d \in h[x].todo
        /\ Made[c] = 1 /\ MadeUndone[c] = 0
    BY <1>0, <2>1, <2>2 DEF InPhase, Compensating, Solo, RowTells
  <2>4. status'[c] = "compensating" /\ \A d \in Calls : d # c => status'[d] = status[d]
    BY <1>0, <2>1, <2>3 DEF SetCall, SagaTypeOK
  <2>5. (\A d \in Calls : RowTells(d))'
    BY <2>1, <2>3, <2>4 DEF Solo, RowTells
  <2>6. TxTells'
    BY <2>1, <2>3 DEF TxTells
  <2>7. InPhase(h[x])'
    BY <1>0, <2>1, <2>2, <2>3, <2>4 DEF InPhase, Preparing, Running, Compensating
  <2> QED BY <2>1, <2>5, <2>6, <2>7, SoloMove
<1>7. CASE UndoInvoke(x)
  <2> DEFINE c == h[x].call
  <2>1. /\ h[x].at = "undoInvoke" /\ UNCHANGED <<tx, status, seq, comp, Made>>
        /\ \A y \in Handlers : y # x => h'[y] = h[y]
        /\ h'[x].todo = h[x].todo
        /\ \/ h'[x].at = "undoRecord" /\ h'[x].call = c
              /\ (MadeUndone[c] = 0 => MadeUndone'[c] = 1)
           \/ h'[x].at = "undoNext"
        /\ MadeUndone'[c] <= MadeUndone[c] + 1
        /\ \A d \in Calls : d # c => MadeUndone'[d] = MadeUndone[d]
    <3>0. h[x].at = "undoInvoke" /\ UNCHANGED <<tx, status, seq, comp>> /\ c \in Calls
      BY <1>0, <1>7 DEF UndoInvoke, rows, Busy
    <3>1. CASE Enter(x, "undoRecord") /\ (MadeUndone[c] = 0 => MadeUndone'[c] = 1)
      BY <1>7, <3>0, <3>1, EnterMoves, UndoMakes
    <3>2. CASE h' = [h EXCEPT ![x].at = "undoNext", ![x].call = NULL]
      <4>1. /\ h'[x].at = "undoNext" /\ h'[x].todo = h[x].todo
            /\ \A y \in Handlers : y # x => h'[y] = h[y]
        BY <1>0, <3>2 DEF Handler
      <4> QED BY <1>7, <3>0, <4>1, UndoMakes
    <3> QED BY <1>7, <3>0, <3>1, <3>2, UndoMakes
  <2>2. c \in Calls
    BY <1>0, <2>1 DEF Busy
  <2> HIDE DEF c
  <2>3. /\ tx = "compensating" /\ status[c] = "compensating" /\ Made[c] = 1 /\ MadeUndone[c] = 0
        /\ \A d \in h[x].todo : status[d] = "committed" /\ seq[d] <= seq[c]
        /\ \A d \in Calls : status[d] = "committed" /\ comp[d] => d \in h[x].todo
    BY <1>0, <2>1 DEF InPhase, Compensating, c
  <2>4. /\ h'[x].at = "undoRecord" => MadeUndone'[c] = 1
        /\ MadeUndone'[c] <= Made[c]
        /\ \A d \in Calls : d # c => MadeUndone'[d] = MadeUndone[d]
    BY <2>1, <2>3
  <2>5. (\A d \in Calls : RowTells(d))'
    BY <2>1, <2>3, <2>4 DEF Solo, RowTells
  <2>6. TxTells'
    BY <2>1, <2>3 DEF TxTells
  <2>7. InPhase(h[x])'
    BY <1>0, <2>1, <2>3, <2>4 DEF InPhase, Preparing, Running, Compensating
  <2> QED BY <2>1, <2>5, <2>6, <2>7, SoloMove
<1>8. CASE UndoRecord(x)
  <2> DEFINE c == h[x].call
  <2>1. /\ h[x].at = "undoRecord" /\ UNCHANGED <<tx, seq, comp, Made, MadeUndone>>
        /\ \A y \in Handlers : y # x => h'[y] = h[y]
        /\ SetCall(c, "compensated")
        /\ h'[x].at = "undoNext" /\ h'[x].todo = h[x].todo
    BY <1>0, <1>8, WorldStays DEF UndoRecord, Handler, world
  <2>2. c \in Calls
    BY <1>0, <2>1 DEF Busy
  <2> HIDE DEF c
  <2>3. /\ tx = "compensating" /\ status[c] = "compensating" /\ Made[c] = 1 /\ MadeUndone[c] = 1
        /\ \A d \in h[x].todo : status[d] = "committed"
        /\ \A d \in Calls : status[d] = "committed" /\ comp[d] => d \in h[x].todo
    BY <1>0, <2>1 DEF InPhase, Compensating, c
  <2>4. status'[c] = "compensated" /\ \A d \in Calls : d # c => status'[d] = status[d]
    BY <1>0, <2>1, <2>2, <2>3 DEF SetCall, SagaTypeOK
  <2>5. (\A d \in Calls : RowTells(d))'
    BY <2>1, <2>3, <2>4 DEF Solo, RowTells
  <2>6. TxTells'
    BY <2>1, <2>3 DEF TxTells
  <2>7. InPhase(h[x])'
    BY <1>0, <2>1, <2>3, <2>4 DEF InPhase, Preparing, Running, Compensating
  <2> QED BY <2>1, <2>5, <2>6, <2>7, SoloMove
<1>9. CASE UndoEnd(x)
  <2>1. /\ h[x].at = "undoNext" /\ h[x].todo = {} /\ Leave(x) /\ SetTx("rolled_back")
        /\ UNCHANGED <<status, seq, comp, Made, MadeUndone>>
    BY <1>9, WorldStays DEF UndoEnd, rows, world
  <2>2. tx = "compensating" /\ \A c \in Calls : comp[c] => status[c] # "committed"
    BY <1>0, <2>1 DEF InPhase, Compensating
  <2>3. tx' = "rolled_back" /\ Rows' = Rows
    BY <2>1, <2>2 DEF SetTx, Rows
  <2>4. (\A c \in Calls : RowTells(c))' /\ TxTells'
    BY <2>1, <2>2, <2>3 DEF Solo, RowTells, TxTells, Rows
  <2> QED BY <2>1, <2>4, SoloLeave
<1> QED BY <1>1, <1>2, <1>3, <1>4, <1>5, <1>6, <1>7, <1>8, <1>9 DEF Rollback

(* Handlers that overlapped once have overlapped ever after.               *)
LEMMA AloneBefore ==
  ASSUME NEW x \in Handlers, alone', Add(x) \/ Delete(x) \/ Commit(x) \/ Rollback(x) \/ Lose(x)
  PROVE  alone
<1>1. CASE Add(x)
  BY <1>1 DEF Add, AddStart, AddSeq, AddInsert, AddRefused, Start
<1>2. CASE Delete(x)
  BY <1>2 DEF Delete, DeleteStart, DeleteCalls, DeleteTx, Start
<1>3. CASE Commit(x)
  BY <1>3 DEF Commit, CommitStart, CommitCalls, CommitMark, RunNext, Invoke, RecordCommitted,
     RecordFailed, CommitEnd, Start
<1>4. CASE Rollback(x)
  BY <1>4 DEF Rollback, RollbackPending, RollbackEmpty, RollbackStart, RollbackCalls, UndoMark,
     UndoNext, UndoInvoke, UndoRecord, UndoEnd, Start
<1> QED BY <1>1, <1>2, <1>3, <1>4 DEF Lose

LEMMA SoloNext == TypeInv /\ TypeInv' /\ SoloInv /\ [Next]_vars => SoloInv'
<1> SUFFICES ASSUME TypeInv, TypeInv', SoloInv, [Next]_vars, alone' PROVE Solo'
  BY DEF SoloInv
<1>1. ASSUME NEW x \in Handlers, Add(x) \/ Delete(x) \/ Commit(x) \/ Rollback(x) \/ Lose(x)
      PROVE  Solo'
  <2>1. Solo
    BY <1>1, AloneBefore DEF SoloInv
  <2>2. CASE Lose(x)
    <3>1. (\A c \in Calls : RowTells(c))' /\ TxTells'
      BY <2>1, <2>2, WorldStays DEF Lose, Solo, RowTells, TxTells, Rows, rows, world
    <3> QED BY <2>1, <2>2, <3>1, SoloLeave DEF Lose
  <2> QED BY <1>1, <2>1, <2>2, SoloAdd, SoloDelete, SoloCommit, SoloRollback
<1>2. CASE UNCHANGED vars
  BY <1>2, WorldStays DEF vars, rows, world, SoloInv, Solo, RowTells, TxTells, InPhase, Rows
<1> QED BY <1>1, <1>2 DEF Next

LEMMA SoloInvariant == Spec => []SoloInv
<1>1. Init => SoloInv
  <2> SUFFICES ASSUME Init PROVE Solo
    BY DEF SoloInv
  <2>1. Rows = {} /\ \A x \in Handlers : h[x].at = "idle"
    BY DEF Init, Rows, Idle
  <2>2. \A x \in Handlers : InPhase(h[x])
    BY <2>1 DEF InPhase, Preparing, Running, Compensating
  <2>3. (\A c \in Calls : RowTells(c)) /\ TxTells
    BY <2>1, NothingMade DEF Init, RowTells, TxTells
  <2> QED
    <3>1. \A x, y \in Handlers : h[x].at # "idle" /\ h[y].at # "idle" => x = y
      BY <2>1
    <3> QED BY <2>2, <2>3, <3>1 DEF Solo
<1> QED BY <1>1, SoloNext, TypeInvariant, PTL DEF Spec

(* The final status of a transaction none of whose handlers overlapped     *)
(* tells which of its tools took effect and which effects remain, wherever *)
(* handlers were lost.                                                     *)
THEOREM StatusTellsWhatRemains == Spec => []StatusTellsEffects
<1>1. TypeInv /\ SoloInv => StatusTellsEffects
  <2> SUFFICES ASSUME TypeInv, SoloInv, alone, SagaTypeOK PROVE StatusTellsEffects
    BY DEF StatusTellsEffects, CommittedRanAll, EffectsUndoneOrShown, TypeInv
  <2>1. CommittedRanAll
    BY DEF SoloInv, Solo, RowTells, TxTells, CommittedRanAll, Rows
  <2>2. EffectsUndoneOrShown
    BY MadeTyped DEF SoloInv, Solo, RowTells, TxTells, EffectsUndoneOrShown, Rows, SagaTypeOK,
       CallStatuses
  <2> QED BY <2>1, <2>2 DEF StatusTellsEffects
<1> QED BY <1>1, SoloInvariant, TypeInvariant, PTL

(* Only the invocation of a compensation undoes anything.                  *)
LEMMA OnlyUndoInvokeUndoes ==
  ASSUME TypeInv, NEW x \in Handlers,
         Add(x) \/ Delete(x) \/ Commit(x) \/ Rollback(x) \/ Lose(x), ~UndoInvoke(x)
  PROVE  MadeUndone' = MadeUndone
<1>1. CASE Add(x)
  BY <1>1, WorldStays DEF Add, AddStart, AddSeq, AddInsert, AddRefused, Start, world
<1>2. CASE Delete(x)
  BY <1>2, WorldStays DEF Delete, DeleteStart, DeleteCalls, DeleteTx, Start, world
<1>3. CASE Commit(x)
  BY <1>3, WorldStays DEF Commit, CommitStart, CommitCalls, CommitMark, RunNext, Invoke, RecordCommitted,
     RecordFailed, CommitEnd, Start, world
<1>4. CASE Rollback(x)
  BY <1>4, WorldStays DEF Rollback, RollbackPending, RollbackEmpty, RollbackStart, RollbackCalls, UndoMark,
     UndoNext, UndoRecord, UndoEnd, Start, world
<1> QED BY <1>1, <1>2, <1>3, <1>4, WorldStays DEF Lose, world

(* Compensations of a transaction none of whose handlers overlapped take   *)
(* effect in reverse order of the calls.                                   *)
THEOREM ReverseOrder == Spec => UndoneInReverse
<1> DEFINE Step == \A c, d \in Rows :
             alone /\ MadeUndone'[c] > MadeUndone[c] /\ seq[d] > seq[c] /\ comp[d]
               => status[d] # "committed"
<1>1. TypeInv /\ SoloInv /\ [Next]_vars => [Step]_vars
  <2> SUFFICES ASSUME TypeInv, SoloInv, NEW x \in Handlers,
                      Add(x) \/ Delete(x) \/ Commit(x) \/ Rollback(x) \/ Lose(x),
                      NEW c \in Rows, NEW d \in Rows,
                      alone, MadeUndone'[c] > MadeUndone[c], seq[d] > seq[c], comp[d]
               PROVE  status[d] # "committed"
    BY DEF Next
  <2>0. SagaTypeOK /\ c \in Calls /\ d \in Calls /\ MadeUndone[c] \in Nat
        /\ seq[c] \in Nat /\ seq[d] \in Nat
    BY MadeTyped DEF TypeInv, SagaTypeOK, Rows
  <2>1. UndoInvoke(x)
    BY <2>0, OnlyUndoInvokeUndoes
  <2>2. h[x].call = c
    <3>1. h[x].call \in Calls
      BY <2>1 DEF UndoInvoke, TypeInv, CallNamed, Busy
    <3>2. \A e \in Calls : e = h[x].call => MadeUndone'[c] = MadeUndone[c] \/ c = e
      BY <2>0, <2>1, UndoMakes
    <3> QED BY <2>0, <3>1, <3>2
  <2>3. InPhase(h[x]) /\ h[x].at = "undoInvoke"
    BY <2>1 DEF SoloInv, Solo, UndoInvoke
  <2>4. /\ \A e \in h[x].todo : seq[e] <= seq[c]
        /\ \A e \in Calls : status[e] = "committed" /\ comp[e] => e \in h[x].todo
    BY <2>2, <2>3 DEF InPhase, Compensating
  <2> QED BY <2>0, <2>4
<1> QED BY <1>1, SoloInvariant, TypeInvariant, PTL DEF Spec, UndoneInReverse

================================================================================
