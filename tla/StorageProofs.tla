---------------------------- MODULE StorageProofs ----------------------------
(***************************************************************************)
(* Proofs about the storage of a workspace and its replication between     *)
(* regions, for every set of writers, contents, versions, snapshots,       *)
(* branches and passes, and of regions, pulls and mutations.               *)
(***************************************************************************)
EXTENDS WorkspaceStorage, NatExtrema, FiniteSetTheorems, SequenceTheorems

--------------------------------------------------------------------------------
(***************************************************************************)
(* Storage.  What a snapshot captured while no pass ran is held by a row   *)
(* that no pass has chosen.                                                *)
(***************************************************************************)

OpStages == {"blob", "insert", "snapshot", "branch", "merge", "mergever", "mergeput",
             "mergemark"}
RowType == [id: 1..MaxRows, ver: Versions, br: Lines, content: Stored, clean: BOOLEAN]
SnapType == [ver: Versions \cup {0}, br: Lines, content: Stored, clean: BOOLEAN]
BranchType == [from: SnapIds, merged: BOOLEAN, clean: BOOLEAN]
OpType == [at: OpStages, br: Lines, snap: SnapIds \cup {NULL}, ver: Versions \cup {0},
           content: Stored, clean: BOOLEAN]
GcReading == [at: {"rows"}, policy: Policies, refs: SUBSET (Versions \cup {0}),
              active: SUBSET SnapIds]
GcWriting == [at: {"write"}, policy: Policies, active: SUBSET SnapIds,
              doomed: SUBSET (1..MaxRows), freed: SUBSET Contents]
GcLooking == [at: {"blobs"}, suspects: SUBSET Contents]
GcTaking == [at: {"unlink"}, suspects: SUBSET Contents, blob: Contents]

(* A captured version of main that a row of main still holds.              *)
StillHeld(o) == o.clean /\ o.br = NULL /\ o.ver # 0 =>
             \E r \in rows : r.br = NULL /\ r.ver = o.ver /\ r.content = o.content

(* A call in flight: its version is no larger than the rows there are, and *)
(* while it is clean, no pass runs, what it captured is held, the snapshot *)
(* it branches from is live and the blob of what it inserts is on disk.    *)
OpSound(o) ==
  /\ o.at \in {"blob", "insert", "mergeput"} => o.ver \in 1..nextId
  /\ o.at = "blob" => o.content # NULL
  /\ o.at = "branch" => o.snap \in SnapIds
  /\ o.at \in {"merge", "mergever", "mergeput", "mergemark"} => o.br \in BranchIds
  /\ o.clean => gc.at = "idle"
  /\ alive /\ o.at = "snapshot" => StillHeld(o)
  /\ alive /\ o.at = "branch" /\ o.clean => LiveSnap(o.snap)
  /\ HasBlobs /\ alive /\ o.at \in {"insert", "mergever", "mergeput"} /\ o.clean =>
       o.content \in blobs \cup {NULL}

OpsTyped == op \in [Writers -> {Idle} \cup OpType]
OpsSound == \A w \in Writers : op[w] # Idle => OpSound(op[w])

RowsTyped == rows \subseteq RowType
IdsOld == \A r \in rows : r.ver <= r.id /\ r.id < nextId
IdsOnce == \A q, r \in rows : q.id = r.id => q = r
TableInv == /\ alive \in BOOLEAN /\ nextId \in 1..MaxRows + 1 /\ passes \in 0..MaxPasses
            /\ blobs \subseteq Contents /\ RowsTyped /\ IdsOld /\ IdsOnce
            /\ snaps \in [SnapIds -> SnapType \cup {NULL, Gone}]
            /\ branches \in [BranchIds -> BranchType \cup {NULL, Gone}]

GcTyped == gc \in {Idle} \cup GcReading \cup GcWriting \cup GcLooking \cup GcTaking

(* What a live snapshot captured is held, and the pass spares it.          *)
SnapsHeld == \A s \in SnapIds : LiveSnap(s) => StillHeld(snaps[s])
SnapsSpared ==
  /\ gc.at = "rows" => \A s \in SnapIds : LiveSnap(s) /\ snaps[s].clean =>
                                            snaps[s].ver \in gc.refs
  /\ gc.at = "write" => \A s \in SnapIds :
       LiveSnap(s) /\ snaps[s].clean /\ snaps[s].br = NULL /\ snaps[s].ver # 0 =>
         \E r \in rows : /\ r.br = NULL /\ r.ver = snaps[s].ver
                         /\ r.content = snaps[s].content /\ r.id \notin gc.doomed

(* The snapshot of an unmerged branch is live, and the pass spares it.     *)
BranchesHeld == \A b \in Unmerged : branches[b].clean => LiveSnap(branches[b].from)
BranchesSpared == gc.at \in {"rows", "write"} =>
                    \A b \in Unmerged : branches[b].clean => branches[b].from \in gc.active

(* The blob about to be unlinked is that of no clean row.                  *)
BlobsSpared == HasBlobs /\ gc.at = "unlink" =>
                 \A r \in rows : r.clean /\ ~Deleted(r) => r.content # gc.blob

(* Rows to be deleted are old ones, and not the newest of a timeline if    *)
(* some are to be kept.                                                    *)
DoomedOld == gc.at = "write" => \A d \in gc.doomed : d < nextId
TopSpared ==
  gc.at = "write" /\ gc.policy.versions # NULL =>
    \A b \in Lines : Of(b) # {} =>
      \E r \in Of(b) : r.id \notin gc.doomed /\ \A q \in Of(b) : q.ver <= r.ver

PinsInv == SnapsHeld /\ SnapsSpared /\ BranchesHeld /\ BranchesSpared
RowsInv == BlobBacked /\ BlobsSpared /\ DoomedOld /\ TopSpared
StoreInv == TableInv /\ GcTyped /\ OpsTyped /\ OpsSound /\ PinsInv /\ RowsInv

LEMMA StorageConstants ==
  /\ MaxRows \in Nat /\ MaxSnaps \in Nat /\ MaxBranches \in Nat /\ MaxPasses \in Nat
  /\ NULL \notin Contents /\ NULL \notin BranchIds /\ NULL \notin SnapIds
  /\ \A p \in Policies : p.versions = NULL \/ (p.versions \in Nat /\ p.versions >= 1)
<1>1. \A p \in Policies : p.versions \in (Nat \ {0}) \cup {NULL}
  BY StorageAssumption
<1>2. NULL \notin BranchIds /\ NULL \notin SnapIds
  BY StorageAssumption DEF BranchIds, SnapIds
<1> QED BY <1>1, <1>2, StorageAssumption

LEMMA OpHas ==
  /\ Idle.at = "idle"
  /\ \A o \in OpType : /\ o.at \in OpStages /\ o.br \in Lines /\ o.snap \in SnapIds \cup {NULL}
                       /\ o.ver \in Versions \cup {0} /\ o.content \in Stored
                       /\ o.clean \in BOOLEAN /\ o # Idle
<1>1. Idle.at = "idle"
  BY DEF Idle
<1>2. \A o \in OpType : /\ o.at \in OpStages /\ o.br \in Lines /\ o.snap \in SnapIds \cup {NULL}
                        /\ o.ver \in Versions \cup {0} /\ o.content \in Stored
                        /\ o.clean \in BOOLEAN
  BY DEF OpType
<1> QED BY <1>1, <1>2 DEF OpStages

LEMMA OpMakes ==
  ASSUME NEW at \in OpStages, NEW br \in Lines, NEW snap \in SnapIds \cup {NULL},
         NEW ver \in Versions \cup {0}, NEW content \in Stored, NEW clean \in BOOLEAN
  PROVE  LET o == Op(at, br, snap, ver, content, clean)
         IN  /\ o \in OpType /\ o.at = at /\ o.br = br /\ o.snap = snap /\ o.ver = ver
             /\ o.content = content /\ o.clean = clean
BY DEF Op, OpType

LEMMA OpIs ==
  ASSUME OpsTyped, NEW w \in Writers
  PROVE  /\ op[w].at # "idle" => op[w] # Idle
         /\ op[w] # Idle => op[w] \in OpType
BY OpHas DEF OpsTyped

LEMMA GcHas ==
  /\ \A x \in GcReading : /\ x.at = "rows" /\ x.policy \in Policies
                          /\ x.refs \subseteq Versions \cup {0} /\ x.active \subseteq SnapIds
  /\ \A x \in GcWriting : /\ x.at = "write" /\ x.policy \in Policies /\ x.active \subseteq SnapIds
                          /\ x.doomed \subseteq 1..MaxRows /\ x.freed \subseteq Contents
  /\ \A x \in GcLooking : x.at = "blobs" /\ x.suspects \subseteq Contents
  /\ \A x \in GcTaking : x.at = "unlink" /\ x.suspects \subseteq Contents /\ x.blob \in Contents
<1>1. \A x \in GcReading : /\ x.at = "rows" /\ x.policy \in Policies
                           /\ x.refs \subseteq Versions \cup {0} /\ x.active \subseteq SnapIds
  BY DEF GcReading
<1>2. \A x \in GcWriting : /\ x.at = "write" /\ x.policy \in Policies /\ x.active \subseteq SnapIds
                           /\ x.doomed \subseteq 1..MaxRows /\ x.freed \subseteq Contents
  BY DEF GcWriting
<1>3. \A x \in GcLooking : x.at = "blobs" /\ x.suspects \subseteq Contents
  BY DEF GcLooking
<1>4. \A x \in GcTaking : x.at = "unlink" /\ x.suspects \subseteq Contents /\ x.blob \in Contents
  BY DEF GcTaking
<1> QED BY <1>1, <1>2, <1>3, <1>4

LEMMA GcIs ==
  ASSUME GcTyped
  PROVE  /\ gc.at = "idle" => gc = Idle
         /\ gc.at = "rows" => gc \in GcReading
         /\ gc.at = "write" => gc \in GcWriting
         /\ gc.at = "blobs" => gc \in GcLooking
         /\ gc.at = "unlink" => gc \in GcTaking
         /\ gc.at \in {"idle", "rows", "write", "blobs", "unlink"}
BY GcHas, OpHas DEF GcTyped

LEMMA RowHas ==
  ASSUME TableInv, NEW r \in rows
  PROVE  /\ r.id \in 1..MaxRows /\ r.ver \in Versions /\ r.br \in Lines /\ r.content \in Stored
         /\ r.clean \in BOOLEAN /\ r.ver <= r.id /\ r.id < nextId
<1>1. r \in RowType
  BY DEF TableInv, RowsTyped
<1>2. /\ r.id \in 1..MaxRows /\ r.ver \in Versions /\ r.br \in Lines /\ r.content \in Stored
      /\ r.clean \in BOOLEAN
  BY <1>1 DEF RowType
<1> QED BY <1>2 DEF TableInv, IdsOld

LEMMA SnapHas ==
  ASSUME TableInv, NEW s \in SnapIds, LiveSnap(s)
  PROVE  /\ snaps[s].ver \in Versions \cup {0} /\ snaps[s].br \in Lines
         /\ snaps[s].content \in Stored /\ snaps[s].clean \in BOOLEAN
<1>1. snaps[s] \in SnapType
  BY DEF TableInv, LiveSnap
<1> QED BY <1>1 DEF SnapType

LEMMA BranchHas ==
  ASSUME TableInv, NEW b \in BranchIds, LiveBranch(b)
  PROVE  /\ branches[b].from \in SnapIds /\ branches[b].merged \in BOOLEAN
         /\ branches[b].clean \in BOOLEAN /\ branches[b] \in BranchType
<1>1. branches[b] \in BranchType
  BY DEF TableInv, LiveBranch
<1> QED BY <1>1 DEF BranchType

(* The newest version of a timeline.                                       *)
LEMMA MaxVerIs ==
  ASSUME TableInv, NEW b \in Lines
  PROVE  /\ MaxVer(b) \in Nat /\ MaxVer(b) < nextId /\ MaxVer(b) \in Versions \cup {0}
         /\ \A r \in Of(b) : r.ver <= MaxVer(b)
         /\ Of(b) # {} => \E r \in Of(b) : r.ver = MaxVer(b)
<1> DEFINE S == {r.ver : r \in Of(b)}
<1>0. nextId \in Nat /\ nextId >= 1
  BY StorageConstants DEF TableInv
<1>1. CASE Of(b) = {}
  BY <1>0, <1>1 DEF MaxVer
<1>2. CASE Of(b) # {}
  <2>1. \A r \in Of(b) : r \in rows
    BY DEF Of
  <2>2. S \in SUBSET Nat /\ S # {} /\ S \in SUBSET (1..MaxRows)
    BY <1>2, <2>1, RowHas DEF Versions
  <2>3. IsFiniteSet(S)
    <3> HIDE DEF S
    <3>1. IsFiniteSet(1..MaxRows)
      BY FS_Interval, StorageConstants
    <3> QED BY <2>2, <3>1, FS_Subset
  <2>4. Max(S) \in S /\ \A n \in S : n <= Max(S)
    BY <2>2, <2>3, MaxIs
  <2>5. MaxVer(b) = Max(S)
    BY <1>2 DEF MaxVer
  <2>6. PICK r \in Of(b) : r.ver = Max(S)
    BY <2>4
  <2>7. r.ver < nextId /\ r.ver \in Versions
    BY <1>0, <2>1, <2>6, RowHas DEF Versions
  <2>8. \A q \in Of(b) : q.ver <= Max(S)
    BY <2>4
  <2> HIDE DEF S
  <2> QED BY <1>2, <2>5, <2>6, <2>7, <2>8 DEF Versions
<1> QED BY <1>1, <1>2

(* What a call in flight relies on stays as long as no pass runs.          *)
LEMMA OpKept ==
  ASSUME TableInv, TableInv', NEW o, OpSound(o), nextId <= nextId',
         gc.at = "idle" => gc'.at = "idle",
         gc.at = "idle" /\ alive' =>
           /\ alive /\ blobs \subseteq blobs'
           /\ \A r \in rows : r.br = NULL => r \in rows'
           /\ \A s \in SnapIds : LiveSnap(s) => LiveSnap(s)'
  PROVE  OpSound(o)'
<1>1. nextId \in Nat /\ nextId' \in Nat
  BY StorageConstants DEF TableInv
<1>2. o.at \in {"blob", "insert", "mergeput"} => o.ver \in 1..nextId'
  BY <1>1 DEF OpSound
<1>3. CASE o.clean
  <2>1. gc.at = "idle" /\ gc'.at = "idle"
    BY <1>3 DEF OpSound
  <2>2. alive' /\ o.at = "snapshot" => StillHeld(o)'
    BY <2>1 DEF OpSound, StillHeld
  <2>3. alive' /\ o.at = "branch" /\ o.clean => LiveSnap(o.snap)'
    BY <2>1 DEF OpSound
  <2>4. HasBlobs /\ alive' /\ o.at \in {"insert", "mergever", "mergeput"} /\ o.clean =>
          o.content \in blobs' \cup {NULL}
    BY <2>1 DEF OpSound
  <2> QED BY <1>2, <2>1, <2>2, <2>3, <2>4 DEF OpSound
<1>4. CASE ~o.clean
  BY <1>2, <1>4 DEF OpSound, StillHeld
<1> QED BY <1>3, <1>4

LEMMA RestKept ==
  ASSUME StoreInv, UNCHANGED <<alive, rows, nextId, blobs, snaps, branches, gc, passes>>
  PROVE  /\ TableInv' /\ GcTyped' /\ PinsInv' /\ RowsInv'
         /\ \A o : OpSound(o) => OpSound(o)'
<1>1. TableInv' /\ GcTyped'
  BY DEF StoreInv, TableInv, RowsTyped, IdsOld, IdsOnce, GcTyped
<1>2. PinsInv'
  BY DEF StoreInv, PinsInv, SnapsHeld, SnapsSpared, BranchesHeld, BranchesSpared, LiveSnap, StillHeld,
         Unmerged, LiveBranch
<1>3. RowsInv'
  BY DEF StoreInv, RowsInv, BlobBacked, BlobsSpared, DoomedOld, TopSpared, Deleted, Of
<1>4. \A o : OpSound(o) => OpSound(o)'
  BY DEF OpSound, StillHeld, LiveSnap
<1> QED BY <1>1, <1>2, <1>3, <1>4

(* A step of a call that only reads.                                       *)
LEMMA OpMoves ==
  ASSUME StoreInv, NEW w \in Writers, NEW x \in {Idle} \cup OpType, x # Idle => OpSound(x),
         op' = [op EXCEPT ![w] = x],
         UNCHANGED <<alive, rows, nextId, blobs, snaps, branches, gc, passes>>
  PROVE  StoreInv'
<1>1. op \in [Writers -> {Idle} \cup OpType]
  BY DEF StoreInv, OpsTyped
<1>2. OpsTyped'
  BY <1>1 DEF OpsTyped
<1>3. \A v \in Writers : op'[v] = IF v = w THEN x ELSE op[v]
  BY <1>1
<1>4. OpsSound'
  BY <1>3, RestKept DEF OpsSound, StoreInv
<1> QED BY <1>2, <1>4, RestKept DEF StoreInv

LEMMA QuietIs == Quiet \in BOOLEAN /\ (Quiet <=> gc.at = "idle")
BY DEF Quiet

LEMMA NextVersion ==
  ASSUME TableInv, NEW b \in Lines, nextId <= MaxRows
  PROVE  MaxVer(b) + 1 \in 1..nextId /\ MaxVer(b) + 1 \in Versions \cup {0}
<1>1. nextId \in Nat /\ MaxVer(b) \in Nat /\ MaxVer(b) < nextId
  BY MaxVerIs, StorageConstants DEF TableInv
<1> QED BY <1>1, StorageConstants DEF Versions

LEMMA PutReadKeeps ==
  ASSUME StoreInv, NEW w \in Writers, NEW b \in Lines, NEW c \in Contents, PutRead(w, b, c)
  PROVE  StoreInv'
<1> DEFINE at == IF HasBlobs THEN "blob" ELSE "insert"
           x == Op(at, b, NULL, MaxVer(b) + 1, c, Quiet)
<1>1. /\ nextId <= MaxRows /\ op' = [op EXCEPT ![w] = x]
      /\ UNCHANGED <<alive, rows, nextId, blobs, snaps, branches, gc, passes>>
  BY DEF PutRead, Begin
<1>2. MaxVer(b) + 1 \in 1..nextId /\ MaxVer(b) + 1 \in Versions \cup {0}
  BY <1>1, NextVersion DEF StoreInv
<1>3. at \in OpStages /\ c \in Stored /\ NULL \in SnapIds \cup {NULL}
  BY DEF OpStages, Stored
<1>6. at = "insert" => ~HasBlobs
  BY StorageAssumption
<1> HIDE DEF at
<1>4. /\ x \in OpType /\ x.at = at /\ x.ver = MaxVer(b) + 1 /\ x.content = c
      /\ x.clean = Quiet
  BY <1>2, <1>3, OpMakes, QuietIs
<1> HIDE DEF x
<1>5. OpSound(x)
  <2>1. x.at \in {"blob", "insert"} /\ (x.at = "insert" => ~HasBlobs)
    BY <1>4, <1>6 DEF at
  <2> QED BY <1>2, <1>4, <2>1, QuietIs, StorageConstants DEF OpSound
<1> QED BY <1>1, <1>4, <1>5, OpMoves

LEMMA DeleteReadKeeps ==
  ASSUME StoreInv, NEW w \in Writers, NEW b \in Lines, DeleteRead(w, b)
  PROVE  StoreInv'
<1> DEFINE x == Op("insert", b, NULL, MaxVer(b) + 1, NULL, Quiet)
<1>1. /\ nextId <= MaxRows /\ op' = [op EXCEPT ![w] = x]
      /\ UNCHANGED <<alive, rows, nextId, blobs, snaps, branches, gc, passes>>
  BY DEF DeleteRead, Begin
<1>2. MaxVer(b) + 1 \in 1..nextId /\ MaxVer(b) + 1 \in Versions \cup {0}
  BY <1>1, NextVersion DEF StoreInv
<1>3. "insert" \in OpStages /\ NULL \in Stored /\ NULL \in SnapIds \cup {NULL}
  BY DEF OpStages, Stored
<1>4. /\ x \in OpType /\ x.at = "insert" /\ x.ver = MaxVer(b) + 1 /\ x.content = NULL
      /\ x.clean = Quiet
  BY <1>2, <1>3, OpMakes, QuietIs
<1> HIDE DEF x
<1>5. OpSound(x)
  BY <1>2, <1>4, QuietIs DEF OpSound
<1> QED BY <1>1, <1>4, <1>5, OpMoves

(* What a snapshot captures is held by the table.                          *)
LEMMA CapturedIs ==
  ASSUME StoreInv, NEW b \in Lines, Resolves(b), NEW c \in Captured(b)
  PROVE  /\ c.br \in Lines /\ c.ver \in Versions \cup {0} /\ c.content \in Stored
         /\ c.clean \in BOOLEAN /\ StillHeld(c)
<1> USE DEF StoreInv
<1>1. CASE Of(b) # {}
  <2>1. PICK r \in Newest(b) : c = Capture(IF Deleted(r) THEN 0 ELSE r.ver, b, r.content, TRUE)
    BY <1>1 DEF Captured
  <2>2. /\ c.br = b /\ c.ver = (IF Deleted(r) THEN 0 ELSE r.ver) /\ c.content = r.content
        /\ c.clean = TRUE
    BY <2>1 DEF Capture
  <2>3. r \in rows /\ r.br = b
    BY <2>1 DEF Newest, AtVer, Of
  <2>4. r.ver \in Versions /\ r.content \in Stored
    BY <2>3, RowHas
  <2> QED BY <2>2, <2>3, <2>4 DEF StillHeld
<1>2. CASE Of(b) = {} /\ b = NULL
  <2>1. c = Capture(0, NULL, NULL, TRUE)
    BY <1>2 DEF Captured
  <2> QED BY <2>1 DEF Capture, Lines, Stored, StillHeld
<1>3. CASE Of(b) = {} /\ b # NULL
  <2> DEFINE s == branches[b].from
  <2>1. c = Capture(snaps[s].ver, snaps[s].br, snaps[s].content, snaps[s].clean)
    BY <1>3 DEF Captured
  <2>2. b \in BranchIds /\ LiveBranch(b) /\ LiveSnap(s)
    BY <1>3 DEF Resolves, Lines
  <2>3. s \in SnapIds
    BY <2>2, BranchHas
  <2> HIDE DEF s
  <2>4. /\ c.br = snaps[s].br /\ c.ver = snaps[s].ver /\ c.content = snaps[s].content
        /\ c.clean = snaps[s].clean
    BY <2>1 DEF Capture
  <2>5. StillHeld(snaps[s])
    BY <2>2, <2>3 DEF PinsInv, SnapsHeld
  <2>6. StillHeld(c)
    BY <2>4, <2>5 DEF StillHeld
  <2> QED BY <2>2, <2>3, <2>4, <2>6, SnapHas
<1> QED BY <1>1, <1>2, <1>3

LEMMA SnapCaptureKeeps ==
  ASSUME StoreInv, NEW w \in Writers, NEW b \in Lines, SnapCapture(w, b)
  PROVE  StoreInv'
<1>1. PICK c \in Captured(b) :
        op' = [op EXCEPT ![w] = Op("snapshot", c.br, NULL, c.ver, c.content, Quiet /\ c.clean)]
  BY DEF SnapCapture, Begin
<1>2. /\ Resolves(b)
      /\ UNCHANGED <<alive, rows, nextId, blobs, snaps, branches, gc, passes>>
  BY DEF SnapCapture
<1> DEFINE clean == Quiet /\ c.clean
           x == Op("snapshot", c.br, NULL, c.ver, c.content, clean)
<1>3. /\ c.br \in Lines /\ c.ver \in Versions \cup {0} /\ c.content \in Stored
      /\ c.clean \in BOOLEAN /\ StillHeld(c)
  BY <1>2, CapturedIs
<1>4. "snapshot" \in OpStages /\ NULL \in SnapIds \cup {NULL} /\ clean \in BOOLEAN
  BY <1>3, QuietIs DEF OpStages
<1>8. clean => Quiet /\ c.clean
  OBVIOUS
<1>9. op' = [op EXCEPT ![w] = x]
  BY <1>1
<1> HIDE DEF clean
<1>5. /\ x \in OpType /\ x.at = "snapshot" /\ x.br = c.br /\ x.ver = c.ver
      /\ x.content = c.content /\ x.clean = clean
  <2>1. x = [at |-> "snapshot", br |-> c.br, snap |-> NULL, ver |-> c.ver,
             content |-> c.content, clean |-> clean]
    BY DEF Op
  <2>2. /\ x.at = "snapshot" /\ x.br = c.br /\ x.ver = c.ver
        /\ x.content = c.content /\ x.clean = clean
    BY <2>1
  <2>3. x \in OpType
    BY <1>3, <1>4, <2>1 DEF OpType
  <2> QED BY <2>2, <2>3
<1> HIDE DEF x
<1>6. StillHeld(x)
  BY <1>3, <1>5, <1>8 DEF StillHeld
<1>7. OpSound(x)
  BY <1>5, <1>6, <1>8, QuietIs DEF OpSound
<1> QED BY <1>2, <1>5, <1>7, <1>9, OpMoves

LEMMA BranchCheckKeeps ==
  ASSUME StoreInv, NEW w \in Writers, NEW s \in SnapIds, BranchCheck(w, s)
  PROVE  StoreInv'
<1> DEFINE x == Op("branch", NULL, s, 0, NULL, Quiet)
<1>1. /\ LiveSnap(s) /\ op' = [op EXCEPT ![w] = x]
      /\ UNCHANGED <<alive, rows, nextId, blobs, snaps, branches, gc, passes>>
  BY DEF BranchCheck, Begin
<1>2. /\ "branch" \in OpStages /\ NULL \in Lines /\ NULL \in Stored /\ 0 \in Versions \cup {0}
  BY DEF OpStages, Stored, Lines
<1>3. /\ x \in OpType /\ x.at = "branch" /\ x.snap = s /\ x.clean = Quiet
  BY <1>2, OpMakes, QuietIs
<1> HIDE DEF x
<1>4. OpSound(x)
  BY <1>1, <1>3, QuietIs DEF OpSound
<1> QED BY <1>1, <1>3, <1>4, OpMoves

LEMMA MergeCheckKeeps ==
  ASSUME StoreInv, NEW w \in Writers, NEW b \in BranchIds, MergeCheck(w, b)
  PROVE  StoreInv'
<1> DEFINE x == Op("merge", b, NULL, 0, NULL, Quiet)
<1>1. /\ op' = [op EXCEPT ![w] = x]
      /\ UNCHANGED <<alive, rows, nextId, blobs, snaps, branches, gc, passes>>
  BY DEF MergeCheck, Begin
<1>2. /\ "merge" \in OpStages /\ b \in Lines /\ NULL \in Stored /\ 0 \in Versions \cup {0}
  BY DEF OpStages, Stored, Lines
<1>3. /\ x \in OpType /\ x.at = "merge" /\ x.br = b /\ x.clean = Quiet
  BY <1>2, OpMakes, QuietIs
<1> HIDE DEF x
<1>4. OpSound(x)
  BY <1>1, <1>3, QuietIs DEF OpSound
<1> QED BY <1>1, <1>3, <1>4, OpMoves

LEMMA MergeReadKeeps ==
  ASSUME StoreInv, NEW w \in Writers, MergeRead(w)
  PROVE  StoreInv'
<1> USE DEF StoreInv
<1>1. /\ op[w].at = "merge"
      /\ UNCHANGED <<alive, rows, nextId, blobs, snaps, branches, gc, passes>>
  BY DEF MergeRead
<1>2. op[w] \in OpType /\ op[w] # Idle
  BY <1>1, OpIs
<1>3. OpSound(op[w])
  BY <1>2 DEF OpsSound
<1>4. CASE op' = [op EXCEPT ![w] = [op[w] EXCEPT !.at = "mergemark"]]
  <2> DEFINE x == [op[w] EXCEPT !.at = "mergemark"]
  <2>1. x \in OpType /\ x.at = "mergemark" /\ x.br = op[w].br /\ x.clean = op[w].clean
    BY <1>2 DEF OpType, OpStages
  <2>2. op' = [op EXCEPT ![w] = x]
    BY <1>4
  <2> HIDE DEF x
  <2>3. OpSound(x)
    BY <1>1, <1>3, <2>1 DEF OpSound
  <2> QED BY <1>1, <2>1, <2>2, <2>3, OpMoves
<1>5. ASSUME NEW r \in Newest(op[w].br),
             op' = [op EXCEPT ![w] = [op[w] EXCEPT !.at = "mergever", !.content = r.content,
                                                   !.clean = op[w].clean /\ r.clean]]
      PROVE  StoreInv'
  <2> DEFINE clean == op[w].clean /\ r.clean
             x == [op[w] EXCEPT !.at = "mergever", !.content = r.content, !.clean = clean]
  <2>1. r \in rows
    BY DEF Newest, AtVer, Of
  <2>2. r.content \in Stored /\ r.clean \in BOOLEAN /\ op[w].clean \in BOOLEAN
    BY <1>2, <2>1, RowHas, OpHas
  <2>3. clean \in BOOLEAN
    BY <2>2
  <2>4. op' = [op EXCEPT ![w] = x]
    BY <1>5
  <2>5. clean => op[w].clean /\ r.clean
    OBVIOUS
  <2> HIDE DEF clean
  <2>6. x \in OpType /\ x.at = "mergever" /\ x.br = op[w].br /\ x.clean = clean /\ x.content = r.content
    BY <1>2, <2>2, <2>3 DEF OpType, OpStages
  <2> HIDE DEF x
  <2>7. HasBlobs /\ clean => r.content \in blobs \cup {NULL}
    BY <2>1, <2>5 DEF RowsInv, BlobBacked, Deleted
  <2>8. OpSound(x)
    BY <1>1, <1>3, <2>5, <2>6, <2>7 DEF OpSound
  <2> QED BY <1>1, <2>4, <2>6, <2>8, OpMoves
<1> QED BY <1>4, <1>5 DEF MergeRead, Continue

LEMMA MergeVersionKeeps ==
  ASSUME StoreInv, NEW w \in Writers, MergeVersion(w)
  PROVE  StoreInv'
<1> DEFINE x == [op[w] EXCEPT !.at = "mergeput", !.ver = MaxVer(NULL) + 1]
<1>1. /\ op[w].at = "mergever" /\ nextId <= MaxRows /\ op' = [op EXCEPT ![w] = x]
      /\ UNCHANGED <<alive, rows, nextId, blobs, snaps, branches, gc, passes>>
  BY DEF MergeVersion, Continue
<1>2. op[w] \in OpType /\ op[w] # Idle
  BY <1>1, OpIs DEF StoreInv
<1>3. OpSound(op[w])
  BY <1>2 DEF OpsSound, StoreInv
<1>4. MaxVer(NULL) + 1 \in 1..nextId /\ MaxVer(NULL) + 1 \in Versions \cup {0}
  BY <1>1, NextVersion DEF StoreInv, Lines
<1>5. /\ x \in OpType /\ x.at = "mergeput" /\ x.clean = op[w].clean
      /\ x.content = op[w].content /\ x.ver = MaxVer(NULL) + 1 /\ x.br = op[w].br
  BY <1>2, <1>4 DEF OpType, OpStages
<1> HIDE DEF x
<1>6. OpSound(x)
  BY <1>1, <1>3, <1>4, <1>5 DEF OpSound
<1> QED BY <1>1, <1>5, <1>6, OpMoves

LEMMA LoseOpKeeps ==
  ASSUME StoreInv, NEW w \in Writers, LoseOp(w)
  PROVE  StoreInv'
BY OpMoves DEF LoseOp, End

(* A call that ends, while what the others rely on stays.                  *)
LEMMA OpEnds ==
  ASSUME OpsTyped, OpsSound, TableInv, TableInv', NEW w \in Writers, End(w),
         nextId <= nextId', gc.at = "idle" => gc'.at = "idle",
         gc.at = "idle" /\ alive' =>
           /\ alive /\ blobs \subseteq blobs'
           /\ \A r \in rows : r.br = NULL => r \in rows'
           /\ \A s \in SnapIds : LiveSnap(s) => LiveSnap(s)'
  PROVE  OpsTyped' /\ OpsSound'
<1>1. op' = [op EXCEPT ![w] = Idle] /\ op \in [Writers -> {Idle} \cup OpType]
  BY DEF End, OpsTyped
<1>2. OpsTyped'
  BY <1>1 DEF OpsTyped
<1>3. \A v \in Writers : op'[v] = IF v = w THEN Idle ELSE op[v]
  BY <1>1
<1>4. ASSUME NEW o, NEW v \in Writers, op[v] # Idle, o = op[v]
      PROVE  OpSound(o)'
  <2>1. OpSound(o)
    BY <1>4 DEF OpsSound
  <2> QED BY <2>1, OpKept
<1>5. OpsSound'
  BY <1>3, <1>4 DEF OpsSound
<1> QED BY <1>2, <1>5

(* A version that is stored.                                               *)
LEMMA RowAdded ==
  ASSUME StoreInv, NEW b \in Lines, NEW v \in 1..nextId, NEW c \in Stored, NEW f \in BOOLEAN,
         Insert(b, v, c, f), f => gc.at = "idle",
         HasBlobs /\ f => c \in blobs \cup {NULL},
         UNCHANGED <<alive, blobs, snaps, gc, passes>>
  PROVE  /\ nextId' \in 1..MaxRows + 1 /\ nextId <= nextId' /\ rows \subseteq rows'
         /\ RowsTyped' /\ IdsOld' /\ IdsOnce' /\ SnapsHeld' /\ SnapsSpared' /\ RowsInv'
<1> USE DEF StoreInv
<1> DEFINE x == [id |-> nextId, ver |-> v, br |-> b, content |-> c, clean |-> f \/ c = NULL]
<1>1. nextId <= MaxRows /\ rows' = rows \cup {x} /\ nextId' = nextId + 1
  BY DEF Insert
<1>2. nextId \in Nat /\ nextId >= 1 /\ nextId' \in 1..MaxRows + 1 /\ nextId <= nextId'
  BY <1>1, StorageConstants DEF TableInv
<1>3. /\ x.id = nextId /\ x.ver = v /\ x.br = b /\ x.content = c
      /\ x.clean = (f \/ c = NULL)
  OBVIOUS
<1>4. x \in RowType
  <2>1. nextId \in 1..MaxRows /\ v \in Versions /\ (f \/ c = NULL) \in BOOLEAN
    BY <1>1, <1>2, StorageConstants DEF Versions
  <2> QED BY <2>1 DEF RowType
<1> HIDE DEF x
<1>5. \A r \in rows : r \in rows'
  BY <1>1
<1>6. RowsTyped'
  BY <1>1, <1>4 DEF TableInv, RowsTyped
<1>7. IdsOld'
  <2>1. \A r \in rows : r.ver <= r.id /\ r.id < nextId'
    BY <1>1, <1>2, RowHas, StorageConstants
  <2>2. x.ver <= x.id /\ x.id < nextId'
    BY <1>1, <1>2, <1>3
  <2> QED BY <1>1, <2>1, <2>2 DEF IdsOld
<1>8. IdsOnce'
  <2>1. \A r \in rows : r.id # x.id
    BY <1>2, <1>3, RowHas
  <2> QED BY <1>1, <2>1 DEF TableInv, IdsOnce
<1>9. SnapsHeld'
  BY <1>5 DEF PinsInv, SnapsHeld, StillHeld, LiveSnap
<1>10. SnapsSpared'
  BY <1>5 DEF PinsInv, SnapsSpared, LiveSnap
<1>11. BlobBacked'
  <2>1. HasBlobs /\ x.clean /\ c # NULL => x.content \in blobs
    BY <1>3
  <2> QED BY <1>1, <1>3, <2>1 DEF RowsInv, BlobBacked, Deleted
<1>12. BlobsSpared'
  <2>1. gc.at = "unlink" /\ x.clean => c = NULL
    BY <1>3
  <2> QED BY <1>1, <1>3, <2>1 DEF RowsInv, BlobsSpared, Deleted
<1>13. DoomedOld'
  <2>1. gc.at = "write" => \A d \in gc.doomed : d \in Nat /\ d < nextId
    BY GcIs, GcHas, StorageConstants DEF RowsInv, DoomedOld
  <2>2. gc.at = "write" => \A d \in gc.doomed : d < nextId'
    BY <1>1, <1>2, <2>1
  <2> QED BY <2>2 DEF DoomedOld
<1>14. TopSpared'
  <2> SUFFICES ASSUME gc.at = "write", gc.policy.versions # NULL,
                      NEW l \in Lines, Of(l)' # {}
               PROVE  \E r \in Of(l)' : r.id \notin gc.doomed
                                        /\ \A q \in Of(l)' : q.ver <= r.ver
    BY DEF TopSpared
  <2>1. x.id \notin gc.doomed
    BY <1>2, <1>3, GcIs, GcHas DEF RowsInv, DoomedOld
  <2>2. CASE l # b
    <3>1. Of(l)' = Of(l)
      BY <1>1, <1>3, <2>2 DEF Of
    <3> QED BY <3>1 DEF RowsInv, TopSpared
  <2>3. CASE l = b
    <3>1. Of(l)' = Of(l) \cup {x}
      BY <1>1, <1>3, <2>3 DEF Of
    <3>2. x.ver \in Nat /\ \A r \in Of(l) : r.ver \in Nat
      BY <1>2, <1>3, RowHas DEF Of, Versions
    <3>3. CASE Of(l) = {}
      BY <2>1, <3>1, <3>2, <3>3
    <3>4. CASE Of(l) # {}
      <4>1. PICK r \in Of(l) : r.id \notin gc.doomed /\ \A q \in Of(l) : q.ver <= r.ver
        BY <3>4 DEF RowsInv, TopSpared
      <4>2. CASE x.ver <= r.ver
        BY <3>1, <4>1, <4>2
      <4>3. CASE ~(x.ver <= r.ver)
        <5>1. \A q \in Of(l) : q.ver <= x.ver
          BY <3>2, <4>1, <4>3
        <5> QED BY <2>1, <3>1, <3>2, <5>1
      <4> QED BY <4>2, <4>3
    <3> QED BY <3>3, <3>4
  <2> QED BY <2>2, <2>3
<1> QED BY <1>2, <1>5, <1>6, <1>7, <1>8, <1>9, <1>10, <1>11, <1>12, <1>13, <1>14 DEF RowsInv

LEMMA InsertRowKeeps ==
  ASSUME StoreInv, NEW w \in Writers, InsertRow(w)
  PROVE  StoreInv'
<1> USE DEF StoreInv
<1>1. /\ op[w].at = "insert" /\ End(w)
      /\ UNCHANGED <<alive, blobs, snaps, branches, gc, passes>>
  BY DEF InsertRow
<1>2. op[w] \in OpType /\ op[w] # Idle
  BY <1>1, OpIs
<1>3. OpSound(op[w])
  BY <1>2 DEF OpsSound
<1>4. CASE alive /\ Insert(op[w].br, op[w].ver, op[w].content, op[w].clean)
  <2>1. /\ op[w].br \in Lines /\ op[w].ver \in 1..nextId /\ op[w].content \in Stored
        /\ op[w].clean \in BOOLEAN
        /\ op[w].clean => gc.at = "idle"
        /\ HasBlobs /\ op[w].clean => op[w].content \in blobs \cup {NULL}
    BY <1>1, <1>2, <1>3, <1>4, OpHas DEF OpSound
  <2>2. /\ nextId' \in 1..MaxRows + 1 /\ nextId <= nextId' /\ rows \subseteq rows'
        /\ RowsTyped' /\ IdsOld' /\ IdsOnce' /\ SnapsHeld' /\ SnapsSpared' /\ RowsInv'
    BY <1>1, <1>4, <2>1, RowAdded
  <2>3. TableInv' /\ GcTyped'
    BY <1>1, <2>2 DEF TableInv, GcTyped
  <2>4. BranchesHeld' /\ BranchesSpared'
    BY <1>1 DEF PinsInv, BranchesHeld, BranchesSpared, Unmerged, LiveBranch, LiveSnap
  <2>5. OpsTyped' /\ OpsSound'
    BY <1>1, <1>4, <2>2, <2>3, OpEnds DEF LiveSnap
  <2> QED BY <2>2, <2>3, <2>4, <2>5 DEF PinsInv
<1>5. CASE UNCHANGED <<rows, nextId>>
  <2>1. Idle \in {Idle} \cup OpType
    OBVIOUS
  <2> QED BY <1>1, <1>5, <2>1, OpMoves DEF End
<1> QED BY <1>4, <1>5 DEF InsertRow

LEMMA LeastFree ==
  ASSUME NEW S, NEW n \in Nat, S \subseteq 1..n, S # {}
  PROVE  Min(S) \in S
BY MinIs

LEMMA SnapInsertKeeps ==
  ASSUME StoreInv, NEW w \in Writers, SnapInsert(w)
  PROVE  StoreInv'
<1> USE DEF StoreInv
<1>1. /\ op[w].at = "snapshot" /\ End(w)
      /\ UNCHANGED <<alive, rows, nextId, blobs, branches, gc, passes>>
  BY DEF SnapInsert
<1>2. op[w] \in OpType /\ op[w] # Idle
  BY <1>1, OpIs
<1>3. OpSound(op[w])
  BY <1>2 DEF OpsSound
<1>4. CASE UNCHANGED snaps
  <2>1. Idle \in {Idle} \cup OpType
    OBVIOUS
  <2> QED BY <1>1, <1>4, <2>1, OpMoves DEF End
<1>5. CASE alive /\ SnapFree # {}
  <2> DEFINE n == Min(SnapFree)
             x == [ver |-> op[w].ver, br |-> op[w].br,
                   content |-> op[w].content, clean |-> op[w].clean]
  <2>1. n \in SnapIds /\ ~LiveSnap(n)
    BY <1>5, LeastFree, StorageConstants DEF SnapFree, SnapIds, LiveSnap
  <2>2. snaps' = [snaps EXCEPT ![n] = x]
    BY <1>5 DEF SnapInsert
  <2>3. /\ x.ver = op[w].ver /\ x.br = op[w].br /\ x.content = op[w].content
        /\ x.clean = op[w].clean
    OBVIOUS
  <2>4. x \in SnapType
    BY <1>2, OpHas DEF SnapType
  <2> HIDE DEF n, x
  <2>5. snaps \in [SnapIds -> SnapType \cup {NULL, Gone}]
    BY DEF TableInv
  <2>6. /\ snaps' \in [SnapIds -> SnapType \cup {NULL, Gone}]
        /\ \A s \in SnapIds : snaps'[s] = IF s = n THEN x ELSE snaps[s]
    BY <2>1, <2>2, <2>4, <2>5
  <2>7. TableInv' /\ GcTyped'
    BY <1>1, <2>6 DEF TableInv, RowsTyped, IdsOld, IdsOnce, GcTyped
  <2>8. \A s \in SnapIds : LiveSnap(s) => s # n /\ snaps'[s] = snaps[s] /\ LiveSnap(s)'
    BY <2>1, <2>6 DEF LiveSnap
  <2>9. \A s \in SnapIds : LiveSnap(s)' /\ s # n => LiveSnap(s) /\ snaps'[s] = snaps[s]
    BY <2>6 DEF LiveSnap
  <2>10. StillHeld(x)
    BY <1>1, <1>3, <1>5, <2>3 DEF OpSound, StillHeld
  <2>11. SnapsHeld'
    BY <1>1, <2>6, <2>9, <2>10 DEF PinsInv, SnapsHeld, StillHeld
  <2>12. SnapsSpared'
    <3>1. gc.at \in {"rows", "write"} => ~x.clean
      BY <1>3, <2>3 DEF OpSound
    <3>2. \A s \in SnapIds : LiveSnap(s)' /\ snaps'[s].clean /\ gc.at \in {"rows", "write"} =>
                               LiveSnap(s) /\ snaps'[s] = snaps[s]
      BY <2>6, <2>9, <3>1
    <3> QED BY <1>1, <3>2 DEF PinsInv, SnapsSpared
  <2>13. BranchesHeld' /\ BranchesSpared'
    <3>1. Unmerged' = Unmerged /\ \A b \in Unmerged : branches[b].from \in SnapIds
      BY <1>1, BranchHas DEF Unmerged, LiveBranch
    <3> QED BY <1>1, <2>8, <3>1 DEF PinsInv, BranchesHeld, BranchesSpared
  <2>14. RowsInv'
    BY <1>1 DEF RowsInv, BlobBacked, BlobsSpared, DoomedOld, TopSpared, Deleted, Of
  <2>15. nextId <= nextId'
    BY <1>1, StorageConstants DEF TableInv
  <2>16. OpsTyped' /\ OpsSound'
    BY <1>1, <1>5, <2>7, <2>8, <2>15, OpEnds
  <2> QED BY <2>7, <2>11, <2>12, <2>13, <2>14, <2>16 DEF PinsInv
<1> QED BY <1>4, <1>5 DEF SnapInsert

LEMMA BranchInsertKeeps ==
  ASSUME StoreInv, NEW w \in Writers, BranchInsert(w)
  PROVE  StoreInv'
<1> USE DEF StoreInv
<1>1. /\ op[w].at = "branch" /\ End(w)
      /\ UNCHANGED <<alive, rows, nextId, blobs, snaps, gc, passes>>
  BY DEF BranchInsert
<1>2. op[w] \in OpType /\ op[w] # Idle
  BY <1>1, OpIs
<1>3. OpSound(op[w])
  BY <1>2 DEF OpsSound
<1>4. CASE UNCHANGED branches
  <2>1. Idle \in {Idle} \cup OpType
    OBVIOUS
  <2> QED BY <1>1, <1>4, <2>1, OpMoves DEF End
<1>5. CASE alive /\ BranchFree # {}
  <2> DEFINE n == Min(BranchFree)
             x == [from |-> op[w].snap, merged |-> FALSE, clean |-> op[w].clean]
  <2>1. n \in BranchIds
    BY <1>5, LeastFree, StorageConstants DEF BranchFree, BranchIds
  <2>2. branches' = [branches EXCEPT ![n] = x]
    BY <1>5 DEF BranchInsert
  <2>3. x.from = op[w].snap /\ x.clean = op[w].clean
    OBVIOUS
  <2>4. op[w].snap \in SnapIds /\ op[w].clean \in BOOLEAN
    BY <1>1, <1>2, <1>3, OpHas DEF OpSound
  <2>5. x \in BranchType
    BY <2>4 DEF BranchType
  <2> HIDE DEF n, x
  <2>6. branches \in [BranchIds -> BranchType \cup {NULL, Gone}]
    BY DEF TableInv
  <2>7. /\ branches' \in [BranchIds -> BranchType \cup {NULL, Gone}]
        /\ \A b \in BranchIds : branches'[b] = IF b = n THEN x ELSE branches[b]
    BY <2>1, <2>2, <2>5, <2>6
  <2>8. TableInv' /\ GcTyped'
    BY <1>1, <2>7 DEF TableInv, RowsTyped, IdsOld, IdsOnce, GcTyped
  <2>9. \A b \in Unmerged' : b \in BranchIds /\ (b # n => b \in Unmerged /\ branches'[b] = branches[b])
    BY <2>7 DEF Unmerged, LiveBranch
  <2>10. BranchesHeld'
    <3>1. op[w].clean => LiveSnap(op[w].snap)
      BY <1>1, <1>3, <1>5 DEF OpSound
    <3>2. \A b \in Unmerged' : branches'[b].clean => LiveSnap(branches'[b].from)
      BY <2>3, <2>7, <2>9, <3>1 DEF PinsInv, BranchesHeld
    <3>3. \A s : LiveSnap(s)' <=> LiveSnap(s)
      BY <1>1 DEF LiveSnap
    <3> QED BY <3>2, <3>3 DEF BranchesHeld
  <2>11. BranchesSpared'
    <3>1. gc.at \in {"rows", "write"} => ~x.clean
      BY <1>3, <2>3 DEF OpSound
    <3> QED BY <1>1, <2>7, <2>9, <3>1 DEF PinsInv, BranchesSpared
  <2>12. SnapsHeld' /\ SnapsSpared'
    BY <1>1 DEF PinsInv, SnapsHeld, SnapsSpared, StillHeld, LiveSnap
  <2>13. RowsInv'
    BY <1>1 DEF RowsInv, BlobBacked, BlobsSpared, DoomedOld, TopSpared, Deleted, Of
  <2>14. nextId <= nextId'
    BY <1>1, StorageConstants DEF TableInv
  <2>15. OpsTyped' /\ OpsSound'
    BY <1>1, <1>5, <2>8, <2>14, OpEnds DEF LiveSnap
  <2> QED BY <2>8, <2>10, <2>11, <2>12, <2>13, <2>15 DEF PinsInv
<1> QED BY <1>4, <1>5 DEF BranchInsert

LEMMA MergeWriteKeeps ==
  ASSUME StoreInv, NEW w \in Writers, MergeWrite(w)
  PROVE  StoreInv'
<1> USE DEF StoreInv
<1> DEFINE b == op[w].br
<1>1. /\ op[w].at \in {"mergeput", "mergemark"} /\ End(w)
      /\ branches' = IF LiveBranch(b) THEN [branches EXCEPT ![b].merged = TRUE] ELSE branches
      /\ UNCHANGED <<alive, blobs, snaps, gc, passes>>
  BY DEF MergeWrite
<1>2. op[w] \in OpType /\ op[w] # Idle
  BY <1>1, OpIs
<1>3. OpSound(op[w])
  BY <1>2 DEF OpsSound
<1>4. b \in BranchIds
  BY <1>1, <1>3 DEF OpSound
<1>5. /\ branches' \in [BranchIds -> BranchType \cup {NULL, Gone}]
      /\ \A l \in Unmerged' : l \in Unmerged /\ branches'[l] = branches[l]
  <2> HIDE DEF b
  <2>1. branches \in [BranchIds -> BranchType \cup {NULL, Gone}]
    BY DEF TableInv
  <2>2. CASE LiveBranch(b)
    <3> DEFINE x == [branches[b] EXCEPT !.merged = TRUE]
    <3>1. x \in BranchType /\ x.merged = TRUE
      BY <1>4, <2>2, BranchHas DEF BranchType
    <3>2. branches' = [branches EXCEPT ![b] = x]
      BY <1>1, <2>2
    <3> HIDE DEF x
    <3>3. /\ branches' \in [BranchIds -> BranchType \cup {NULL, Gone}]
          /\ \A l \in BranchIds : branches'[l] = IF l = b THEN x ELSE branches[l]
      BY <1>4, <2>1, <3>1, <3>2
    <3> QED BY <3>1, <3>3 DEF Unmerged, LiveBranch
  <2>3. CASE ~LiveBranch(b)
    BY <1>1, <2>1, <2>3 DEF Unmerged, LiveBranch
  <2> QED BY <2>2, <2>3
<1>6. /\ nextId' \in 1..MaxRows + 1 /\ nextId <= nextId' /\ rows \subseteq rows'
      /\ RowsTyped' /\ IdsOld' /\ IdsOnce' /\ SnapsHeld' /\ SnapsSpared' /\ RowsInv'
  <2>1. CASE op[w].at = "mergeput" /\ alive
    <3>1. Insert(NULL, op[w].ver, op[w].content, op[w].clean)
      BY <2>1 DEF MergeWrite
    <3>2. /\ NULL \in Lines /\ op[w].ver \in 1..nextId /\ op[w].content \in Stored
          /\ op[w].clean \in BOOLEAN
      BY <1>2, <1>3, <2>1, OpHas DEF OpSound, Lines
    <3>3. op[w].clean => gc.at = "idle"
      BY <1>3 DEF OpSound
    <3>4. HasBlobs /\ op[w].clean => op[w].content \in blobs \cup {NULL}
      BY <1>3, <2>1 DEF OpSound
    <3> QED BY <1>1, <3>1, <3>2, <3>3, <3>4, RowAdded
  <2>2. CASE ~(op[w].at = "mergeput" /\ alive)
    <3>1. UNCHANGED <<rows, nextId>>
      BY <2>2 DEF MergeWrite
    <3>2. SnapsHeld' /\ SnapsSpared'
      BY <1>1, <3>1 DEF PinsInv, SnapsHeld, SnapsSpared, StillHeld, LiveSnap
    <3>3. RowsInv'
      BY <1>1, <3>1 DEF RowsInv, BlobBacked, BlobsSpared, DoomedOld, TopSpared, Deleted, Of
    <3>4. RowsTyped' /\ IdsOld' /\ IdsOnce' /\ nextId' \in 1..MaxRows + 1
      BY <1>1, <3>1 DEF TableInv, RowsTyped, IdsOld, IdsOnce
    <3> QED BY <3>1, <3>2, <3>3, <3>4, StorageConstants DEF TableInv
  <2> QED BY <2>1, <2>2
<1> HIDE DEF b
<1>7. TableInv' /\ GcTyped'
  BY <1>1, <1>5, <1>6 DEF TableInv, GcTyped
<1>8. BranchesHeld' /\ BranchesSpared'
  <2>1. \A s : LiveSnap(s)' <=> LiveSnap(s)
    BY <1>1 DEF LiveSnap
  <2> QED BY <1>1, <1>5, <2>1 DEF PinsInv, BranchesHeld, BranchesSpared
<1>9. OpsTyped' /\ OpsSound'
  BY <1>1, <1>6, <1>7, OpEnds DEF LiveSnap
<1> QED BY <1>6, <1>7, <1>8, <1>9 DEF PinsInv

LEMMA PutBlobKeeps ==
  ASSUME StoreInv, NEW w \in Writers, PutBlob(w)
  PROVE  StoreInv'
<1> USE DEF StoreInv
<1>1. /\ op[w].at = "blob" /\ blobs' = blobs \cup {op[w].content}
      /\ op' = [op EXCEPT ![w] = [op[w] EXCEPT !.at = "insert"]]
      /\ UNCHANGED <<alive, rows, nextId, snaps, branches, gc, passes>>
  BY DEF PutBlob, Continue
<1>2. op[w] \in OpType /\ op[w] # Idle
  BY <1>1, OpIs
<1>3. OpSound(op[w])
  BY <1>2 DEF OpsSound
<1>4. PICK x \in OpType : /\ x = [op[w] EXCEPT !.at = "insert"]
                          /\ x.at = "insert" /\ x.ver = op[w].ver
                          /\ x.content = op[w].content /\ x.clean = op[w].clean
  <2> DEFINE y == [op[w] EXCEPT !.at = "insert"]
  <2>1. /\ y \in OpType /\ y.at = "insert" /\ y.ver = op[w].ver
        /\ y.content = op[w].content /\ y.clean = op[w].clean
    BY <1>2 DEF OpType, OpStages
  <2> QED BY <2>1
<1>5. op[w].content \in Contents
  BY <1>1, <1>2, <1>3, OpHas DEF OpSound, Stored
<1>6. TableInv' /\ GcTyped'
  BY <1>1, <1>5 DEF TableInv, RowsTyped, IdsOld, IdsOnce, GcTyped
<1>7. PinsInv'
  BY <1>1 DEF PinsInv, SnapsHeld, SnapsSpared, BranchesHeld, BranchesSpared, LiveSnap, StillHeld,
              Unmerged, LiveBranch
<1>8. RowsInv'
  BY <1>1 DEF RowsInv, BlobBacked, BlobsSpared, DoomedOld, TopSpared, Deleted, Of
<1>9. nextId <= nextId'
  BY <1>1, StorageConstants DEF TableInv
<1>10. OpSound(x)'
  BY <1>1, <1>3, <1>4 DEF OpSound
<1>11. \A v \in Writers : op'[v] = IF v = w THEN x ELSE op[v]
  BY <1>1, <1>4 DEF OpsTyped
<1>12. ASSUME NEW o, NEW v \in Writers, op[v] # Idle, o = op[v]
       PROVE  OpSound(o)'
  <2>1. OpSound(o)
    BY <1>12 DEF OpsSound
  <2> QED BY <1>1, <1>6, <1>9, <2>1, OpKept DEF LiveSnap
<1>13. OpsSound'
  BY <1>10, <1>11, <1>12 DEF OpsSound
<1>14. OpsTyped'
  BY <1>1, <1>4 DEF OpsTyped
<1> QED BY <1>6, <1>7, <1>8, <1>13, <1>14

LEMMA DeleteBranchKeeps ==
  ASSUME StoreInv, NEW b \in BranchIds, DeleteBranch(b)
  PROVE  StoreInv'
<1> USE DEF StoreInv
<1>1. /\ rows' = rows \ Of(b) /\ branches' = [branches EXCEPT ![b] = Gone]
      /\ UNCHANGED <<alive, nextId, blobs, snaps, op, gc, passes>>
  BY DEF DeleteBranch
<1>2. /\ \A r \in rows' : r \in rows
      /\ \A r \in rows : r.br = NULL => r \in rows'
  BY <1>1, StorageConstants DEF Of
<1>3. /\ branches' \in [BranchIds -> BranchType \cup {NULL, Gone}]
      /\ \A l \in BranchIds : branches'[l] = IF l = b THEN Gone ELSE branches[l]
  BY <1>1 DEF TableInv
<1>4. TableInv' /\ GcTyped'
  BY <1>1, <1>2, <1>3 DEF TableInv, RowsTyped, IdsOld, IdsOnce, GcTyped
<1>5. \A l \in Unmerged' : l \in Unmerged /\ branches'[l] = branches[l]
  BY <1>3 DEF Unmerged, LiveBranch
<1>6. \A s : LiveSnap(s)' <=> LiveSnap(s)
  BY <1>1 DEF LiveSnap
<1>7. BranchesHeld' /\ BranchesSpared'
  BY <1>1, <1>5, <1>6 DEF PinsInv, BranchesHeld, BranchesSpared
<1>8. SnapsHeld' /\ SnapsSpared'
  BY <1>1, <1>2 DEF PinsInv, SnapsHeld, SnapsSpared, StillHeld, LiveSnap
<1>9. BlobBacked' /\ BlobsSpared' /\ DoomedOld'
  BY <1>1, <1>2 DEF RowsInv, BlobBacked, BlobsSpared, DoomedOld, Deleted
<1>10. TopSpared'
  <2>1. \A l \in Lines : l # b => Of(l)' = Of(l)
    BY <1>1 DEF Of
  <2>2. Of(b)' = {}
    BY <1>1 DEF Of
  <2> QED BY <1>1, <2>1, <2>2 DEF RowsInv, TopSpared
<1>11. OpsTyped'
  BY <1>1 DEF OpsTyped
<1>12. nextId <= nextId'
  BY <1>1, StorageConstants DEF TableInv
<1>13. ASSUME NEW o, NEW v \in Writers, op[v] # Idle, o = op[v]
       PROVE  OpSound(o)'
  <2>1. OpSound(o)
    BY <1>13 DEF OpsSound
  <2> QED BY <1>1, <1>2, <1>4, <1>6, <1>12, <2>1, OpKept
<1>14. OpsSound'
  BY <1>1, <1>13 DEF OpsSound
<1> QED BY <1>4, <1>7, <1>8, <1>9, <1>10, <1>11, <1>14 DEF PinsInv, RowsInv

LEMMA DeleteWorkspaceKeeps ==
  ASSUME StoreInv, DeleteWorkspace
  PROVE  StoreInv'
<1> USE DEF StoreInv
<1>1. /\ alive' = FALSE /\ rows' = {} /\ blobs' = {}
      /\ snaps' = [s \in SnapIds |-> IF LiveSnap(s) THEN Gone ELSE snaps[s]]
      /\ branches' = [b \in BranchIds |-> IF LiveBranch(b) THEN Gone ELSE branches[b]]
      /\ UNCHANGED <<nextId, op, gc, passes>>
  BY DEF DeleteWorkspace
<1>2. \A s \in SnapIds : ~LiveSnap(s)'
  BY <1>1 DEF LiveSnap
<1>3. \A b \in BranchIds : ~LiveBranch(b)'
  BY <1>1 DEF LiveBranch
<1>4. TableInv' /\ GcTyped'
  BY <1>1 DEF TableInv, RowsTyped, IdsOld, IdsOnce, GcTyped
<1>5. SnapsHeld' /\ SnapsSpared'
  BY <1>2 DEF SnapsHeld, SnapsSpared
<1>6. BranchesHeld' /\ BranchesSpared'
  BY <1>3 DEF BranchesHeld, BranchesSpared, Unmerged
<1>7. RowsInv'
  BY <1>1 DEF RowsInv, BlobBacked, BlobsSpared, DoomedOld, TopSpared, Of
<1>8. OpsTyped'
  BY <1>1 DEF OpsTyped
<1>9. nextId <= nextId'
  BY <1>1, StorageConstants DEF TableInv
<1>10. ASSUME NEW o, NEW v \in Writers, op[v] # Idle, o = op[v]
       PROVE  OpSound(o)'
  <2>1. OpSound(o)
    BY <1>10 DEF OpsSound
  <2> QED BY <1>1, <1>4, <1>9, <2>1, OpKept
<1>11. OpsSound'
  BY <1>1, <1>10 DEF OpsSound
<1> QED BY <1>4, <1>5, <1>6, <1>7, <1>8, <1>11 DEF PinsInv

LEMMA GcStartKeeps ==
  ASSUME StoreInv, NEW p \in Policies, GcStart(p)
  PROVE  StoreInv'
<1> USE DEF StoreInv
<1> DEFINE x == [at |-> "rows", policy |-> p, refs |-> SnapVersions,
                 active |-> {branches[b].from : b \in Unmerged}]
<1>1. /\ passes < MaxPasses /\ passes' = passes + 1 /\ gc' = x
      /\ op' = [w \in Writers |-> IF op[w] = Idle THEN Idle ELSE [op[w] EXCEPT !.clean = FALSE]]
      /\ UNCHANGED <<alive, rows, nextId, blobs, snaps, branches>>
  BY DEF GcStart
<1>2. /\ x.at = "rows" /\ x.refs = SnapVersions
      /\ x.active = {branches[b].from : b \in Unmerged}
  OBVIOUS
<1>3. SnapVersions \subseteq Versions \cup {0}
  BY SnapHas DEF SnapVersions
<1>4. {branches[b].from : b \in Unmerged} \subseteq SnapIds
  BY BranchHas DEF Unmerged
<1>5. x \in GcReading
  BY <1>3, <1>4 DEF GcReading
<1> HIDE DEF x
<1>6. TableInv' /\ GcTyped'
  BY <1>1, <1>5, StorageConstants DEF TableInv, RowsTyped, IdsOld, IdsOnce, GcTyped
<1>7. SnapsHeld' /\ BranchesHeld'
  BY <1>1 DEF PinsInv, SnapsHeld, StillHeld, LiveSnap, BranchesHeld, Unmerged, LiveBranch
<1>8. SnapsSpared'
  BY <1>1, <1>2 DEF SnapsSpared, SnapVersions, LiveSnap
<1>9. BranchesSpared'
  BY <1>1, <1>2 DEF BranchesSpared, Unmerged, LiveBranch
<1>10. RowsInv'
  BY <1>1, <1>2 DEF RowsInv, BlobBacked, BlobsSpared, DoomedOld, TopSpared, Deleted
<1>11. \A w \in Writers : op[w] # Idle =>
         [op[w] EXCEPT !.clean = FALSE] \in OpType
  BY OpIs DEF OpType
<1>12. OpsTyped'
  BY <1>1, <1>11 DEF OpsTyped
<1>13. OpsSound'
  <2> SUFFICES ASSUME NEW w \in Writers, op'[w] # Idle PROVE OpSound(op[w])'
    BY DEF OpsSound
  <2>1. op[w] # Idle /\ op'[w] = [op[w] EXCEPT !.clean = FALSE]
    BY <1>1
  <2>2. op[w] \in OpType /\ OpSound(op[w])
    BY <2>1, OpIs DEF OpsSound
  <2>3. /\ op'[w].clean = FALSE /\ op'[w].at = op[w].at /\ op'[w].ver = op[w].ver
        /\ op'[w].content = op[w].content /\ op'[w].snap = op[w].snap
        /\ op'[w].br = op[w].br
    BY <2>1, <2>2 DEF OpType
  <2> QED BY <1>1, <2>2, <2>3 DEF OpSound, StillHeld
<1> QED BY <1>6, <1>7, <1>8, <1>9, <1>10, <1>12, <1>13 DEF PinsInv

(* The first row of a timeline in the order of the collector.              *)
LEMMA FirstRanked ==
  ASSUME TableInv, NEW b \in Lines, Of(b) # {}, NEW asc \in BOOLEAN
  PROVE  \E r \in Of(b) : /\ \A q \in Of(b) : q.ver <= r.ver
                          /\ Rank(r, asc) = 0
<1> DEFINE T == {r \in Of(b) : r.ver = MaxVer(b)}
           N == {r.id : r \in T}
<1>1. /\ \A r \in Of(b) : r \in rows /\ r.ver <= MaxVer(b) /\ r.br = b
      /\ T # {} /\ MaxVer(b) \in Nat
  BY MaxVerIs DEF Of
<1>2. N \in SUBSET Nat /\ N # {} /\ N \in SUBSET (1..MaxRows)
  BY <1>1, RowHas
<1>3. IsFiniteSet(N)
  <2> HIDE DEF N
  <2>1. IsFiniteSet(1..MaxRows)
    BY FS_Interval, StorageConstants
  <2> QED BY <1>2, <2>1, FS_Subset
<1>4. PICK r \in T : \A q \in T : IF asc THEN ~(q.id < r.id) ELSE ~(q.id > r.id)
  <2>1. CASE asc
    <3>1. Min(N) \in N /\ \A n \in N : Min(N) <= n
      BY <1>2, MinIs
    <3>2. PICK r \in T : r.id = Min(N)
      BY <3>1
    <3>3. \A q \in T : q.id \in Nat /\ r.id <= q.id
      BY <1>2, <3>1, <3>2
    <3> QED BY <2>1, <3>2, <3>3
  <2>2. CASE ~asc
    <3>1. Max(N) \in N /\ \A n \in N : n <= Max(N)
      BY <1>2, <1>3, MaxIs
    <3>2. PICK r \in T : r.id = Max(N)
      BY <3>1
    <3>3. \A q \in T : q.id \in Nat /\ q.id <= r.id
      BY <1>2, <3>1, <3>2
    <3> QED BY <2>2, <3>2, <3>3
  <2> QED BY <2>1, <2>2
<1>5. r \in Of(b) /\ r.ver = MaxVer(b) /\ r.br = b
  BY <1>1
<1>6. \A q \in Of(b) : q.ver \in Nat /\ q.ver <= r.ver
  BY <1>1, <1>5, RowHas DEF Versions
<1>7. \A q \in Of(b) : ~Before(q, r, asc)
  <2> SUFFICES ASSUME NEW q \in Of(b) PROVE ~Before(q, r, asc)
    OBVIOUS
  <2>1. ~(q.ver > r.ver)
    BY <1>1, <1>5, <1>6
  <2>2. q.ver = r.ver => q \in T
    BY <1>5
  <2> QED BY <1>4, <2>1, <2>2 DEF Before
<1>8. Rank(r, asc) = 0
  <2>1. {q \in Of(r.br) : Before(q, r, asc)} = {}
    BY <1>5, <1>7
  <2> QED BY <2>1, FS_EmptySet DEF Rank
<1> QED BY <1>5, <1>6, <1>8

LEMMA GcRowsKeeps ==
  ASSUME StoreInv, GcRows
  PROVE  StoreInv'
<1> USE DEF StoreInv
<1>1. PICK asc \in BOOLEAN, cutoff \in 1..nextId :
        gc' = [at |-> "write", policy |-> gc.policy, active |-> gc.active,
               doomed |-> {r.id : r \in Trimmable(gc.policy, gc.refs, asc, cutoff)},
               freed |-> {r.content : r \in Trimmable(gc.policy, gc.refs, asc, cutoff)} \ {NULL}]
  BY DEF GcRows
<1>2. gc.at = "rows" /\ UNCHANGED <<alive, rows, nextId, blobs, snaps, branches, op, passes>>
  BY DEF GcRows
<1> DEFINE doomed == Trimmable(gc.policy, gc.refs, asc, cutoff)
           ids == {r.id : r \in doomed}
           freed == {r.content : r \in doomed} \ {NULL}
<1>3. gc \in GcReading /\ gc.policy \in Policies /\ gc.active \subseteq SnapIds
  BY <1>2, GcIs, GcHas
<1>4. /\ gc'.at = "write" /\ gc'.policy = gc.policy /\ gc'.active = gc.active
      /\ gc'.doomed = ids /\ gc'.freed = freed
  BY <1>1
<1>5. \A r \in doomed : r \in rows /\ r.ver \notin gc.refs /\ ~KeptByRank(gc.policy, r, asc)
  BY DEF Trimmable
<1>6. ids \subseteq 1..MaxRows /\ freed \subseteq Contents
  BY <1>5, RowHas DEF Stored
<1>7. gc' \in GcWriting
  BY <1>1, <1>3, <1>6 DEF GcWriting
<1> HIDE DEF doomed
<1>8. TableInv' /\ GcTyped'
  BY <1>2, <1>7 DEF TableInv, RowsTyped, IdsOld, IdsOnce, GcTyped
<1>9. SnapsHeld' /\ BranchesHeld'
  BY <1>2 DEF PinsInv, SnapsHeld, StillHeld, LiveSnap, BranchesHeld, Unmerged, LiveBranch
<1>10. BranchesSpared'
  BY <1>2, <1>4 DEF PinsInv, BranchesSpared, Unmerged, LiveBranch
<1>11. \A r \in rows : r \notin doomed => r.id \notin ids
  BY <1>5 DEF TableInv, IdsOnce
<1>12. SnapsSpared'
  <2> SUFFICES ASSUME NEW s \in SnapIds, LiveSnap(s), snaps[s].clean, snaps[s].br = NULL,
                      snaps[s].ver # 0
               PROVE  \E r \in rows : /\ r.br = NULL /\ r.ver = snaps[s].ver
                                      /\ r.content = snaps[s].content /\ r.id \notin ids
    BY <1>2, <1>4 DEF SnapsSpared, LiveSnap
  <2>1. PICK r \in rows : r.br = NULL /\ r.ver = snaps[s].ver /\ r.content = snaps[s].content
    BY DEF PinsInv, SnapsHeld, StillHeld
  <2>2. snaps[s].ver \in gc.refs
    BY <1>2 DEF PinsInv, SnapsSpared
  <2> QED BY <1>5, <1>11, <2>1, <2>2
<1>13. DoomedOld'
  BY <1>2, <1>4, <1>5, RowHas DEF DoomedOld
<1>14. TopSpared'
  <2> SUFFICES ASSUME gc.policy.versions # NULL, NEW b \in Lines, Of(b) # {}
               PROVE  \E r \in Of(b) : r.id \notin ids /\ \A q \in Of(b) : q.ver <= r.ver
    <3>1. \A b : Of(b)' = Of(b)
      BY <1>2 DEF Of
    <3> QED BY <1>4, <3>1 DEF TopSpared
  <2>1. PICK r \in Of(b) : (\A q \in Of(b) : q.ver <= r.ver) /\ Rank(r, asc) = 0
    BY FirstRanked
  <2>2. KeptByRank(gc.policy, r, asc)
    <3>1. gc.policy.versions \in Nat /\ gc.policy.versions >= 1
      BY <1>3, StorageConstants
    <3> QED BY <2>1, <3>1 DEF KeptByRank
  <2>3. r \in rows /\ r \notin doomed
    BY <1>5, <2>2 DEF Of
  <2> QED BY <1>11, <2>1, <2>3
<1>15. BlobBacked' /\ BlobsSpared'
  BY <1>2, <1>4 DEF RowsInv, BlobBacked, BlobsSpared, Deleted
<1>16. OpsTyped'
  BY <1>2 DEF OpsTyped
<1>17. nextId <= nextId'
  BY <1>2, StorageConstants DEF TableInv
<1>18. ASSUME NEW o, NEW v \in Writers, op[v] # Idle, o = op[v]
       PROVE  OpSound(o)'
  <2>1. OpSound(o)
    BY <1>18 DEF OpsSound
  <2> QED BY <1>2, <1>8, <1>17, <2>1, OpKept
<1>19. OpsSound'
  BY <1>2, <1>18 DEF OpsSound
<1> QED BY <1>8, <1>9, <1>10, <1>12, <1>13, <1>14, <1>15, <1>16, <1>19 DEF PinsInv, RowsInv

LEMMA GcWriteKeeps ==
  ASSUME StoreInv, GcWrite
  PROVE  StoreInv'
<1> USE DEF StoreInv
<1>1. PICK gone \in SUBSET Merged(gc.policy) :
        /\ rows' = {r \in rows : r.id \notin gc.doomed /\ r.br \notin gone}
        /\ snaps' = [s \in SnapIds |-> IF s \in SurplusSnaps(gc.policy, gc.active)
                                         THEN Gone ELSE snaps[s]]
        /\ branches' = [b \in BranchIds |-> IF b \in gone THEN Gone ELSE branches[b]]
  BY DEF GcWrite
<1>2. /\ gc.at = "write"
      /\ gc' = IF HasBlobs /\ gc.policy.blobs
                 THEN [at |-> "blobs", suspects |-> gc.freed \cup blobs] ELSE Idle
      /\ UNCHANGED <<alive, nextId, blobs, op, passes>>
  BY DEF GcWrite
<1>3. gc \in GcWriting /\ gc.freed \subseteq Contents
  BY <1>2, GcIs, GcHas
<1>4. gc' \in {Idle} \cup GcLooking /\ gc'.at \in {"idle", "blobs"}
  <2>1. CASE HasBlobs /\ gc.policy.blobs
    <3>1. gc' = [at |-> "blobs", suspects |-> gc.freed \cup blobs]
      BY <1>2, <2>1
    <3>2. gc' \in GcLooking
      BY <1>3, <3>1 DEF TableInv, GcLooking
    <3> QED BY <3>1, <3>2
  <2>2. CASE ~(HasBlobs /\ gc.policy.blobs)
    BY <1>2, <2>2, OpHas
  <2> QED BY <2>1, <2>2
<1>5. gone \subseteq BranchIds /\ NULL \notin gone
  BY StorageConstants DEF Merged
<1>6. \A r \in rows' : r \in rows
  BY <1>1
<1>7. /\ snaps' \in [SnapIds -> SnapType \cup {NULL, Gone}]
      /\ branches' \in [BranchIds -> BranchType \cup {NULL, Gone}]
  BY <1>1 DEF TableInv
<1>8. TableInv' /\ GcTyped'
  BY <1>2, <1>4, <1>6, <1>7 DEF TableInv, RowsTyped, IdsOld, IdsOnce, GcTyped
<1>9. \A s \in SnapIds : LiveSnap(s)' => LiveSnap(s) /\ snaps'[s] = snaps[s]
  BY <1>1 DEF LiveSnap
<1>10. SnapsHeld'
  <2> SUFFICES ASSUME NEW s \in SnapIds, LiveSnap(s)', snaps'[s].clean, snaps'[s].br = NULL,
                      snaps'[s].ver # 0
               PROVE  \E r \in rows' : r.br = NULL /\ r.ver = snaps'[s].ver
                                       /\ r.content = snaps'[s].content
    BY DEF SnapsHeld, StillHeld
  <2>1. LiveSnap(s) /\ snaps'[s] = snaps[s]
    BY <1>9
  <2>2. PICK r \in rows : /\ r.br = NULL /\ r.ver = snaps[s].ver
                          /\ r.content = snaps[s].content /\ r.id \notin gc.doomed
    BY <1>2, <2>1 DEF PinsInv, SnapsSpared
  <2>3. r \in rows'
    BY <1>1, <1>5, <2>2
  <2> QED BY <2>1, <2>2, <2>3
<1>11. BranchesHeld'
  <2> SUFFICES ASSUME NEW b \in Unmerged', branches'[b].clean
               PROVE  snaps'[branches'[b].from] \notin {NULL, Gone}
    BY DEF BranchesHeld, LiveSnap
  <2>1. b \in Unmerged /\ branches'[b] = branches[b]
    BY <1>1 DEF Unmerged, LiveBranch
  <2> DEFINE s == branches[b].from
  <2>2. s \in SnapIds
    BY <2>1, BranchHas DEF Unmerged
  <2>3. LiveSnap(s) /\ s \in gc.active
    BY <1>2, <2>1 DEF PinsInv, BranchesHeld, BranchesSpared
  <2>4. s \notin SurplusSnaps(gc.policy, gc.active)
    BY <2>3 DEF SurplusSnaps
  <2>5. snaps'[s] = snaps[s]
    BY <1>1, <2>2, <2>4
  <2>6. snaps'[s] \notin {NULL, Gone}
    BY <2>3, <2>5 DEF LiveSnap
  <2> QED BY <2>1, <2>6
<1>12. SnapsSpared' /\ BranchesSpared' /\ BlobsSpared' /\ DoomedOld' /\ TopSpared'
  BY <1>4 DEF SnapsSpared, BranchesSpared, BlobsSpared, DoomedOld, TopSpared
<1>13. BlobBacked'
  BY <1>2, <1>6 DEF RowsInv, BlobBacked, Deleted
<1>14. OpsTyped'
  BY <1>2 DEF OpsTyped
<1>15. nextId <= nextId'
  BY <1>2, StorageConstants DEF TableInv
<1>16. ASSUME NEW o, NEW v \in Writers, op[v] # Idle, o = op[v]
       PROVE  OpSound(o)'
  <2>1. OpSound(o)
    BY <1>16 DEF OpsSound
  <2> QED BY <1>2, <1>8, <1>15, <2>1, OpKept
<1>17. OpsSound'
  BY <1>2, <1>16 DEF OpsSound
<1> QED BY <1>8, <1>10, <1>11, <1>12, <1>13, <1>14, <1>17 DEF PinsInv, RowsInv

(* Steps of the collector after its transaction.                           *)
LEMMA GcLooks ==
  ASSUME StoreInv, gc.at \in {"blobs", "unlink"}, BlobBacked', BlobsSpared',
         gc' \in {Idle} \cup GcLooking \cup GcTaking, blobs' \subseteq Contents,
         UNCHANGED <<alive, rows, nextId, snaps, branches, op, passes>>
  PROVE  StoreInv'
<1> USE DEF StoreInv
<1>1. gc'.at \notin {"rows", "write"}
  BY GcHas, OpHas
<1>2. TableInv' /\ GcTyped'
  BY DEF TableInv, RowsTyped, IdsOld, IdsOnce, GcTyped
<1>3. SnapsHeld' /\ BranchesHeld'
  BY DEF PinsInv, SnapsHeld, StillHeld, LiveSnap, BranchesHeld, Unmerged, LiveBranch
<1>4. SnapsSpared' /\ BranchesSpared' /\ DoomedOld' /\ TopSpared'
  BY <1>1 DEF SnapsSpared, BranchesSpared, DoomedOld, TopSpared
<1>5. OpsTyped'
  BY DEF OpsTyped
<1>6. nextId <= nextId'
  BY StorageConstants DEF TableInv
<1>7. ASSUME NEW o, NEW v \in Writers, op[v] # Idle, o = op[v]
      PROVE  OpSound(o)'
  <2>1. OpSound(o)
    BY <1>7 DEF OpsSound
  <2> QED BY <1>2, <1>6, <2>1, OpKept
<1>8. OpsSound'
  BY <1>7 DEF OpsSound
<1> QED BY <1>2, <1>3, <1>4, <1>5, <1>8 DEF PinsInv, RowsInv

LEMMA GcCheckKeeps ==
  ASSUME StoreInv, NEW c \in Contents, GcCheck(c)
  PROVE  StoreInv'
<1> USE DEF StoreInv
<1> DEFINE rest == gc.suspects \ {c}
<1>1. /\ gc.at = "blobs"
      /\ gc' = IF Referenced(c) THEN [at |-> "blobs", suspects |-> rest]
               ELSE [at |-> "unlink", suspects |-> rest, blob |-> c]
      /\ UNCHANGED <<alive, rows, nextId, blobs, snaps, branches, op, passes>>
  BY DEF GcCheck
<1>2. rest \subseteq Contents
  BY <1>1, GcIs, GcHas
<1> HIDE DEF rest
<1>3. BlobBacked'
  BY <1>1 DEF RowsInv, BlobBacked, Deleted
<1>4. CASE Referenced(c)
  <2>1. gc' = [at |-> "blobs", suspects |-> rest]
    BY <1>1, <1>4
  <2>2. gc' \in GcLooking /\ gc'.at = "blobs"
    BY <1>2, <2>1 DEF GcLooking
  <2>3. BlobsSpared'
    BY <2>2 DEF BlobsSpared
  <2> QED BY <1>1, <1>3, <2>2, <2>3, GcLooks DEF TableInv
<1>5. CASE ~Referenced(c)
  <2>1. gc' = [at |-> "unlink", suspects |-> rest, blob |-> c]
    BY <1>1, <1>5
  <2>2. gc' \in GcTaking /\ gc'.blob = c
    BY <1>2, <2>1 DEF GcTaking
  <2>3. BlobsSpared'
    BY <1>1, <1>5, <2>2 DEF BlobsSpared, Referenced
  <2> QED BY <1>1, <1>3, <2>2, <2>3, GcLooks DEF TableInv
<1> QED BY <1>4, <1>5

LEMMA GcUnlinkKeeps ==
  ASSUME StoreInv, GcUnlink
  PROVE  StoreInv'
<1> USE DEF StoreInv
<1>1. /\ gc.at = "unlink" /\ blobs' = blobs \ {gc.blob}
      /\ gc' = [at |-> "blobs", suspects |-> gc.suspects]
      /\ UNCHANGED <<alive, rows, nextId, snaps, branches, op, passes>>
  BY DEF GcUnlink
<1>2. gc.suspects \subseteq Contents
  BY <1>1, GcIs, GcHas
<1>3. gc' \in GcLooking /\ gc'.at = "blobs"
  BY <1>1, <1>2 DEF GcLooking
<1>4. BlobBacked'
  BY <1>1 DEF RowsInv, BlobBacked, BlobsSpared, Deleted
<1>5. BlobsSpared'
  BY <1>3 DEF BlobsSpared
<1>6. blobs' \subseteq Contents
  BY <1>1 DEF TableInv
<1> QED BY <1>1, <1>3, <1>4, <1>5, <1>6, GcLooks

LEMMA GcEndKeeps ==
  ASSUME StoreInv, GcEnd
  PROVE  StoreInv'
<1> USE DEF StoreInv
<1>1. /\ gc.at \in {"blobs", "unlink"} /\ gc' = Idle
      /\ UNCHANGED <<alive, rows, nextId, blobs, snaps, branches, op, passes>>
  BY DEF GcEnd
<1>2. BlobBacked'
  BY <1>1 DEF RowsInv, BlobBacked, Deleted
<1>3. BlobsSpared'
  BY <1>1, OpHas DEF BlobsSpared
<1>4. blobs' \subseteq Contents
  BY <1>1 DEF TableInv
<1> QED BY <1>1, <1>2, <1>3, <1>4, GcLooks

LEMMA StoreStarts == StorageInit => StoreInv
<1> SUFFICES ASSUME StorageInit PROVE StoreInv
  OBVIOUS
<1>1. TableInv
  BY StorageConstants DEF StorageInit, TableInv, RowsTyped, IdsOld, IdsOnce
<1>2. gc.at = "idle" /\ GcTyped
  BY OpHas DEF StorageInit, GcTyped
<1>3. OpsTyped /\ OpsSound
  BY DEF StorageInit, OpsTyped, OpsSound
<1>4. (\A s \in SnapIds : ~LiveSnap(s)) /\ Unmerged = {}
  BY DEF StorageInit, LiveSnap, Unmerged, LiveBranch
<1>5. PinsInv
  BY <1>2, <1>4 DEF PinsInv, SnapsHeld, SnapsSpared, BranchesHeld, BranchesSpared
<1>6. RowsInv
  BY <1>2 DEF StorageInit, RowsInv, BlobBacked, BlobsSpared, DoomedOld, TopSpared
<1> QED BY <1>1, <1>2, <1>3, <1>5, <1>6 DEF StoreInv

LEMMA WriterKeeps ==
  ASSUME StoreInv, NEW w \in Writers, WriterStep(w)
  PROVE  StoreInv'
BY PutBlobKeeps, InsertRowKeeps, SnapInsertKeeps, BranchInsertKeeps, MergeReadKeeps,
   MergeVersionKeeps, MergeWriteKeeps, LoseOpKeeps, DeleteReadKeeps, SnapCaptureKeeps,
   PutReadKeeps, MergeCheckKeeps, BranchCheckKeeps
   DEF WriterStep

LEMMA StoreIdle == StoreInv /\ UNCHANGED storageVars => StoreInv'
<1> SUFFICES ASSUME StoreInv, UNCHANGED storageVars PROVE StoreInv'
  OBVIOUS
<1>1. UNCHANGED <<alive, rows, nextId, blobs, snaps, branches, gc, passes, op>>
  BY DEF storageVars
<1>2. TableInv' /\ GcTyped' /\ PinsInv' /\ RowsInv' /\ \A o : OpSound(o) => OpSound(o)'
  BY <1>1, RestKept
<1>3. OpsTyped' /\ OpsSound'
  BY <1>1, <1>2 DEF StoreInv, OpsTyped, OpsSound
<1> QED BY <1>2, <1>3 DEF StoreInv

LEMMA StoreStep == StoreInv /\ [StorageNext]_storageVars => StoreInv'
BY WriterKeeps, DeleteBranchKeeps, GcStartKeeps, GcCheckKeeps, GcRowsKeeps, GcWriteKeeps,
   GcUnlinkKeeps, GcEndKeeps, DeleteWorkspaceKeeps, StoreIdle
   DEF StorageNext

LEMMA StoreAlways == StorageSpec => []StoreInv
BY StoreStarts, StoreStep, PTL DEF StorageSpec

(* Ids are not given out twice, and rows, snapshots, branches and what is  *)
(* in flight are what storage.py, snapshots.py and gc.py make.             *)
THEOREM StorageTypes == StorageSpec => []StorageTypeOK
<1>1. StoreInv => StorageTypeOK
  <2> SUFFICES ASSUME StoreInv PROVE StorageTypeOK
    OBVIOUS
  <2>1. Cardinality({r.id : r \in rows}) = Cardinality(rows)
    <3> DEFINE I == {r.id : r \in rows}
               f == [r \in rows |-> r.id]
    <3>1. I \in SUBSET (1..MaxRows)
      BY RowHas DEF StoreInv
    <3>2. f \in Bijection(rows, I)
      BY DEF StoreInv, TableInv, IdsOnce, Bijection, Injection, Surjection, IsInjective
    <3> HIDE DEF I, f
    <3>3. IsFiniteSet(1..MaxRows)
      BY FS_Interval, StorageConstants
    <3>4. IsFiniteSet(I)
      BY <3>1, <3>3, FS_Subset
    <3>5. f \in Injection(rows, I)
      BY <3>2 DEF Bijection
    <3>6. IsFiniteSet(rows)
      BY <3>4, <3>5, FS_Injection
    <3>7. ExistsBijection(rows, I)
      BY <3>2 DEF ExistsBijection
    <3>8. Cardinality(I) = Cardinality(rows)
      BY <3>6, <3>7, FS_Bijection
    <3> QED BY <3>8 DEF I
  <2>2. rows \subseteq [id: 1..MaxRows, ver: Versions, br: Lines, content: Stored,
                        clean: BOOLEAN]
    BY DEF StoreInv, TableInv, RowsTyped, RowType
  <2>3. /\ snaps \in [SnapIds -> [ver: Versions \cup {0}, br: Lines, content: Stored,
                                 clean: BOOLEAN] \cup {NULL, Gone}]
        /\ branches \in [BranchIds -> [from: SnapIds, merged: BOOLEAN, clean: BOOLEAN]
                                     \cup {NULL, Gone}]
    BY DEF StoreInv, TableInv, SnapType, BranchType
  <2>4. op \in [Writers -> [at: {"idle"}] \cup
                  [at: {"blob", "insert", "snapshot", "branch", "merge", "mergever",
                        "mergeput", "mergemark"},
                   br: Lines, snap: SnapIds \cup {NULL}, ver: Versions \cup {0},
                   content: Stored, clean: BOOLEAN]]
    <3>1. Idle \in [at: {"idle"}]
      BY DEF Idle
    <3> QED BY <3>1 DEF StoreInv, OpsTyped, OpType, OpStages
  <2>5. gc.at \in {"idle", "rows", "write", "blobs", "unlink"}
    BY GcIs DEF StoreInv
  <2> QED BY <2>1, <2>2, <2>3, <2>4, <2>5 DEF StoreInv, TableInv, StorageTypeOK
<1> QED BY <1>1, StoreAlways, PTL

(* What a snapshot or a branch pins stays readable (snapshots.py, gc.py):  *)
(* the version that a snapshot of main captured while no pass ran is still *)
(* a row of main with that content, and the snapshot of an unmerged branch *)
(* is still there, however writes, merges, deletions and passes overlap.   *)
THEOREM PinsStayReadable == StorageSpec => []PinsReadable
<1>1. StoreInv => PinsReadable
  <2> SUFFICES ASSUME StoreInv PROVE PinsReadable
    OBVIOUS
  <2>1. SnapshotSafe
    BY DEF StoreInv, PinsInv, SnapsHeld, StillHeld, SnapshotSafe, AtVer, Of
  <2>2. BranchHasSnapshot
    BY DEF StoreInv, PinsInv, BranchesHeld, BranchHasSnapshot
  <2> QED BY <2>1, <2>2 DEF PinsReadable
<1> QED BY <1>1, StoreAlways, PTL

(* A file version that was written while no pass ran keeps its blob        *)
(* (gc.py _delete_blobs), also when other versions share it: the check     *)
(* that nothing refers to a blob and its unlinking are two steps, but no   *)
(* clean version is stored between them.                                   *)
THEOREM BlobsStayBacked == StorageSpec => []BlobBacked
<1>1. StoreInv => BlobBacked
  BY DEF StoreInv, RowsInv
<1> QED BY <1>1, StoreAlways, PTL

LEMMA SameMax ==
  ASSUME NEW n \in Nat, NEW S \in SUBSET (1..n), NEW R \in SUBSET S, NEW v \in R,
         \A m \in S : m <= v
  PROVE  Max(R) = Max(S)
<1>1. IsFiniteSet(1..n)
  BY FS_Interval
<1>2. IsFiniteSet(S) /\ IsFiniteSet(R)
  BY <1>1, FS_Subset
<1>3. S \in SUBSET Nat /\ R \in SUBSET Nat /\ S # {} /\ R # {}
  OBVIOUS
<1>4. /\ Max(S) \in S /\ \A m \in S : m <= Max(S)
      /\ Max(R) \in R /\ \A m \in R : m <= Max(R)
  BY <1>2, <1>3, MaxIs
<1>5. Max(S) \in Nat /\ Max(R) \in Nat /\ v \in Nat
  BY <1>3, <1>4
<1>6. Max(S) <= v /\ v <= Max(R) /\ Max(R) <= Max(S)
  BY <1>4
<1> QED BY <1>5, <1>6

(* With keep_versions set, a pass never lowers the newest version of a     *)
(* timeline it leaves standing (gc.py), whatever was stored between its    *)
(* reading of the rows and its transaction.                                *)
THEOREM GcSparesNewest == StorageSpec => GcKeepsNewest
<1> DEFINE A == GcWrite /\ gc.policy.versions # NULL
                  => \A b \in Lines : (b # NULL => LiveBranch(b)')
                                        => MaxVer(b)' = MaxVer(b)
<1>1. StoreInv /\ [StorageNext]_storageVars => [A]_storageVars
  <2> SUFFICES ASSUME StoreInv, GcWrite, gc.policy.versions # NULL, NEW b \in Lines,
                      b # NULL => LiveBranch(b)'
               PROVE  MaxVer(b)' = MaxVer(b)
    OBVIOUS
  <2>1. PICK gone \in SUBSET Merged(gc.policy) :
          /\ rows' = {r \in rows : r.id \notin gc.doomed /\ r.br \notin gone}
          /\ branches' = [l \in BranchIds |-> IF l \in gone THEN Gone ELSE branches[l]]
    BY DEF GcWrite
  <2>2. b \notin gone
    <3>1. gone \subseteq BranchIds /\ NULL \notin gone
      BY StorageConstants DEF Merged
    <3> QED BY <2>1, <3>1 DEF LiveBranch
  <2>3. Of(b)' = {r \in Of(b) : r.id \notin gc.doomed}
    BY <2>1, <2>2 DEF Of
  <2>4. CASE Of(b) = {}
    <3>1. Of(b)' = {}
      BY <2>3, <2>4
    <3> QED BY <2>4, <3>1 DEF MaxVer
  <2>5. CASE Of(b) # {}
    <3>1. PICK r \in Of(b) : r.id \notin gc.doomed /\ \A q \in Of(b) : q.ver <= r.ver
      BY <2>5 DEF StoreInv, RowsInv, TopSpared, GcWrite
    <3> DEFINE S == {q.ver : q \in Of(b)}
               R == {q.ver : q \in Of(b)'}
    <3>2. S \in SUBSET (1..MaxRows)
      BY RowHas DEF StoreInv, Of, Versions
    <3>3. R \in SUBSET S /\ r.ver \in R /\ Of(b)' # {}
      BY <2>3, <3>1
    <3>4. \A m \in S : m <= r.ver
      BY <3>1
    <3>5. MaxVer(b) = Max(S) /\ MaxVer(b)' = Max(R)
      BY <2>5, <3>3 DEF MaxVer
    <3> HIDE DEF S, R
    <3> QED BY <3>2, <3>3, <3>4, <3>5, SameMax, StorageConstants
  <2> QED BY <2>4, <2>5
<1>2. StorageSpec => [][A]_storageVars
  BY <1>1, StoreAlways, PTL DEF StorageSpec
<1> QED BY <1>2 DEF GcKeepsNewest

--------------------------------------------------------------------------------
(***************************************************************************)
(* Replication.  A follower has a beginning of the log it follows.         *)
(***************************************************************************)

USE ReplicationAssumption

--------------------------------------------------------------------------------
(* Replication.  What a run of the pull script holds was read from a log   *)
(* that still has it at the same place, and only primaries have appends    *)
(* under way.                                                              *)
Run == [at: {"log", "apply"}, rep: Regions, since: Nat, batch: Seq(Mutations)]

ReplTypes ==
  /\ mode \in [Regions -> {"primary", "replica", "down"}]
  /\ log \in [Regions -> Seq(Mutations)]
  /\ pending \in [Regions -> SUBSET Mutations]
  /\ pull \in [Pulls -> {NoRun} \cup Run]
  /\ led \subseteq Regions /\ count \in Nat /\ again \in BOOLEAN

Held(run, p) ==
  \A k \in 1..Len(run.batch) :
    /\ run.since + k <= Len(log[p])
    /\ run.batch[k] = log[p][run.since + k]

RunFits(run) ==
  run # NoRun =>
    /\ mode[run.rep] # "primary"
    /\ run.since <= Len(log[run.rep])
    /\ run.at = "apply" =>
         /\ \E p \in Regions : Primary(p)
         /\ \A p \in Regions : Primary(p) => Held(run, p)

ReplInv ==
  /\ ReplTypes
  /\ \A p, q \in Regions : Primary(p) /\ Primary(q) => p = q
  /\ \A r \in Regions : r \notin led => mode[r] = "replica"
  /\ \A r \in Regions : pending[r] # {} => Primary(r)
  /\ \A i \in Pulls : RunFits(pull[i])

(* Prefixes, place by place.                                               *)
Agrees(s, t) == Len(s) <= Len(t) /\ \A k \in 1..Len(s) : s[k] = t[k]

Followers ==
  /\ \A r, p \in Regions : r \notin led /\ Primary(p) => Agrees(log[r], log[p])
  /\ \A r, s \in Regions : r \notin led /\ s \notin led /\ Len(log[r]) <= Len(log[s])
                             => Agrees(log[r], log[s])

(* A mutation has one place in all logs, and none before it is appended.   *)
OnePlace ==
  /\ \A r, s \in Regions : \A j \in 1..Len(log[r]), k \in 1..Len(log[s]) :
       log[r][j] = log[s][k] => j = k
  /\ \A r, s \in Regions : \A j \in 1..Len(log[r]) : log[r][j] \notin pending[s]
  /\ \A r \in Regions : \A j \in 1..Len(log[r]) : log[r][j] <= count
  /\ \A r \in Regions : \A m \in pending[r] : m <= count

LEMMA AgreesIsPrefix ==
  ASSUME NEW s \in Seq(Mutations), NEW t \in Seq(Mutations)
  PROVE  Agrees(s, t) => IsPrefix(s, t)
<1> SUFFICES ASSUME Agrees(s, t) PROVE SubSeq(s, 1, Len(s)) = SubSeq(t, 1, Len(s))
  BY DEF Agrees, IsPrefix
<1>1. /\ Len(s) \in Nat /\ Len(t) \in Nat /\ Len(s) <= Len(t)
      /\ \A k \in 1..Len(s) : s[k] \in Mutations /\ t[k] \in Mutations
  BY LenProperties, ElementOfSeq DEF Agrees
<1>2. /\ SubSeq(s, 1, Len(s)) \in Seq(Mutations) /\ SubSeq(t, 1, Len(s)) \in Seq(Mutations)
      /\ Len(SubSeq(s, 1, Len(s))) = Len(s) /\ Len(SubSeq(t, 1, Len(s))) = Len(s)
      /\ \A k \in 1..Len(s) : /\ SubSeq(s, 1, Len(s))[k] = s[k]
                              /\ SubSeq(t, 1, Len(s))[k] = t[k]
  BY <1>1, SubSeqProperties
<1> QED BY <1>2, SeqEqual DEF Agrees

LEMMA TypedLog ==
  ASSUME ReplTypes, NEW r \in Regions
  PROVE  /\ log[r] \in Seq(Mutations) /\ Len(log[r]) \in Nat
         /\ \A k \in 1..Len(log[r]) : log[r][k] \in Mutations
  BY LenProperties, ElementOfSeq DEF ReplTypes

LEMMA TypedRun ==
  ASSUME ReplTypes, NEW i \in Pulls, pull[i] # NoRun
  PROVE  /\ pull[i] \in Run /\ pull[i].rep \in Regions /\ pull[i].since \in Nat
         /\ pull[i].batch \in Seq(Mutations) /\ Len(pull[i].batch) \in Nat
         /\ \A k \in 1..Len(pull[i].batch) : pull[i].batch[k] \in Mutations
<1>1. pull[i] \in Run
  BY DEF ReplTypes
<1> QED BY <1>1, LenProperties, ElementOfSeq DEF Run

(* What a puller is given.                                                 *)
LEMMA FetchHolds ==
  ASSUME ReplTypes, NEW p \in Regions, NEW since \in Nat, NEW limit \in Nat
  PROVE  /\ Fetch(p, since, limit) \in Seq(Mutations)
         /\ \A k \in 1..Len(Fetch(p, since, limit)) :
              /\ since + k <= Len(log[p])
              /\ Fetch(p, since, limit)[k] = log[p][since + k]
<1> DEFINE n == IF since + limit < Len(log[p]) THEN since + limit ELSE Len(log[p])
<1>1. n \in Nat /\ n <= Len(log[p]) /\ Fetch(p, since, limit) = SubSeq(log[p], since + 1, n)
  BY TypedLog DEF Fetch
<1> HIDE DEF n
<1>2. \A j \in since + 1..n : log[p][j] \in Mutations
  BY <1>1, TypedLog
<1>3. /\ SubSeq(log[p], since + 1, n) \in Seq(Mutations)
      /\ Len(SubSeq(log[p], since + 1, n)) =
           IF since + 1 <= n THEN n - (since + 1) + 1 ELSE 0
      /\ \A k \in 1..n - (since + 1) + 1 :
           SubSeq(log[p], since + 1, n)[k] = log[p][since + 1 + k - 1]
  BY <1>1, <1>2, SubSeqProperties
<1> QED BY <1>1, <1>3, TypedLog

(* What is applied extends the log by entries at the places they had.      *)
LEMMA AppliedHolds ==
  ASSUME NEW old \in Seq(Mutations), NEW since \in Nat, since <= Len(old),
         NEW batch \in Seq(Mutations)
  PROVE  /\ Applied(old, since, batch) \in Seq(Mutations)
         /\ Len(old) <= Len(Applied(old, since, batch))
         /\ \A k \in 1..Len(old) : Applied(old, since, batch)[k] = old[k]
         /\ \A k \in 1..Len(Applied(old, since, batch)) : k > Len(old) =>
              /\ k - since \in 1..Len(batch)
              /\ Applied(old, since, batch)[k] = batch[k - since]
<1> DEFINE m == Len(old) - since + 1
           new == SubSeq(batch, m, Len(batch))
<1>1. /\ Len(old) \in Nat /\ Len(batch) \in Nat /\ m \in Nat /\ m >= 1
      /\ \A j \in m..Len(batch) : batch[j] \in Mutations
  BY LenProperties, ElementOfSeq
<1>2. /\ new \in Seq(Mutations)
      /\ Len(new) = IF m <= Len(batch) THEN Len(batch) - m + 1 ELSE 0
      /\ \A k \in 1..Len(batch) - m + 1 : new[k] = batch[m + k - 1]
  BY <1>1, SubSeqProperties
<1>3. Applied(old, since, batch) = old \o new
  BY DEF Applied
<1>4. /\ old \o new \in Seq(Mutations) /\ Len(old \o new) = Len(old) + Len(new)
      /\ \A k \in 1..Len(old) + Len(new) :
           (old \o new)[k] = IF k <= Len(old) THEN old[k] ELSE new[k - Len(old)]
  BY <1>2, ConcatProperties
<1>5. ASSUME NEW k \in 1..Len(old \o new), k > Len(old)
      PROVE  k - since \in 1..Len(batch) /\ (old \o new)[k] = batch[k - since]
  <2>1. k - Len(old) \in 1..Len(new) /\ Len(new) = Len(batch) - m + 1
    BY <1>1, <1>2, <1>4, <1>5
  <2>2. (old \o new)[k] = batch[m + (k - Len(old)) - 1]
    BY <1>1, <1>2, <1>4, <1>5, <2>1
  <2>3. m + (k - Len(old)) - 1 = k - since
    BY <1>1, <1>5, <2>1
  <2> QED BY <1>1, <2>1, <2>2, <2>3
<1>6. Len(new) \in Nat
  BY <1>1, <1>2
<1> HIDE DEF m, new
<1>7. \A k \in 1..Len(old) : (old \o new)[k] = old[k]
  BY <1>1, <1>4, <1>6
<1> QED BY <1>1, <1>3, <1>4, <1>5, <1>6, <1>7

(* Appending to a log or a set of them keeps what runs hold.               *)
LEMMA ReplInvNext == ReplInv /\ [ReplicationNext]_replVars => ReplInv'
<1> SUFFICES ASSUME ReplInv, [ReplicationNext]_replVars PROVE ReplInv'
  OBVIOUS
<1>0. ReplTypes /\ \A i \in Pulls : RunFits(pull[i])
  BY DEF ReplInv
<1>1. ASSUME NEW r \in Regions, Mutate(r) PROVE ReplInv'
  <2>1. /\ UNCHANGED <<mode, log, pull, led, again>> /\ count' = count + 1 /\ Primary(r)
        /\ pending' = [pending EXCEPT ![r] = @ \cup {count + 1}] /\ count + 1 \in Mutations
    BY <1>0, <1>1 DEF Mutate, ReplTypes, Mutations
  <2>2. ReplTypes'
    BY <1>0, <2>1 DEF ReplTypes
  <2>3. \A s \in Regions : pending'[s] # {} => Primary(s)'
    BY <1>0, <2>1 DEF ReplInv, ReplTypes, Primary
  <2>4. \A i \in Pulls : RunFits(pull[i])'
    BY <1>0, <2>1 DEF RunFits, Held, Primary
  <2> QED BY <2>1, <2>2, <2>3, <2>4 DEF ReplInv, Primary
<1>2. ASSUME NEW r \in Regions, NEW m \in Mutations, AppendEntry(r, m) PROVE ReplInv'
  <2>1. /\ UNCHANGED <<mode, pull, led, again, count>> /\ m \in pending[r] /\ Primary(r)
        /\ pending' = [pending EXCEPT ![r] = @ \ {m}]
        /\ log' = [log EXCEPT ![r] = Append(@, m)]
    BY <1>0, <1>2 DEF AppendEntry, ReplInv
  <2>2. /\ Append(log[r], m) \in Seq(Mutations) /\ Len(Append(log[r], m)) = Len(log[r]) + 1
        /\ \A k \in 1..Len(log[r]) : Append(log[r], m)[k] = log[r][k]
    BY <1>0, TypedLog
  <2>3. ReplTypes'
    BY <1>0, <2>1, <2>2 DEF ReplTypes
  <2>4. \A s \in Regions : /\ Len(log[s]) <= Len(log'[s])
                           /\ \A k \in 1..Len(log[s]) : log'[s][k] = log[s][k]
    BY <1>0, <2>1, <2>2, TypedLog DEF ReplTypes
  <2>5. ASSUME NEW i \in Pulls, pull[i] # NoRun PROVE RunFits(pull[i])'
    <3>1. RunFits(pull[i]) /\ UNCHANGED <<pull, mode>>
      BY <1>0, <2>1
    <3>2. pull[i].rep \in Regions /\ pull[i].since \in Nat /\ Len(pull[i].batch) \in Nat
      BY <1>0, <2>5, TypedRun
    <3>3. pull[i].since <= Len(log'[pull[i].rep])
      BY <1>0, <2>3, <2>4, <2>5, <3>1, <3>2, TypedLog DEF RunFits, ReplTypes
    <3>4. ASSUME NEW p \in Regions, Held(pull[i], p) PROVE Held(pull[i], p)'
      <4>1. Len(log[p]) \in Nat /\ Len(log'[p]) \in Nat
        BY <1>0, <2>3, TypedLog, LenProperties DEF ReplTypes
      <4>2. ASSUME NEW k \in 1..Len(pull[i].batch)
            PROVE  /\ pull[i].since + k <= Len(log'[p])
                   /\ pull[i].batch[k] = log'[p][pull[i].since + k]
        <5>1. pull[i].since + k \in 1..Len(log[p])
          BY <3>2, <3>4, <4>1 DEF Held
        <5> QED BY <2>4, <3>4, <4>1, <5>1 DEF Held
      <4> QED BY <3>1, <4>2 DEF Held
    <3> QED BY <3>1, <3>3, <3>4 DEF RunFits, Primary
  <2>6. \A i \in Pulls : RunFits(pull[i])'
    BY <2>1, <2>5 DEF RunFits
  <2>7. \A s \in Regions : pending'[s] # {} => Primary(s)'
    BY <1>0, <2>1 DEF ReplInv, ReplTypes, Primary
  <2> QED BY <2>1, <2>3, <2>6, <2>7 DEF ReplInv, Primary
<1>3. ASSUME NEW r \in Regions, NEW m \in Mutations, AppendFails(r, m) PROVE ReplInv'
  <2>1. /\ UNCHANGED <<mode, log, pull, led, again, count>> /\ m \in pending[r]
        /\ pending' = [pending EXCEPT ![r] = @ \ {m}]
    BY <1>3 DEF AppendFails
  <2>2. ReplTypes' /\ \A s \in Regions : pending'[s] # {} => Primary(s)'
    BY <1>0, <2>1 DEF ReplInv, ReplTypes, Primary
  <2>3. \A i \in Pulls : RunFits(pull[i])'
    BY <1>0, <2>1 DEF RunFits, Held, Primary
  <2> QED BY <2>1, <2>2, <2>3 DEF ReplInv, Primary
<1>4. ASSUME NEW i \in Pulls, NEW r \in Regions, PullStatus(i, r) PROVE ReplInv'
  <2> DEFINE run == [at |-> "log", rep |-> r, since |-> CurrentSeq(r), batch |-> <<>>]
  <2>1. /\ UNCHANGED <<mode, log, pending, led, again, count>> /\ mode[r] = "replica"
        /\ pull' = [pull EXCEPT ![i] = run]
    BY <1>4 DEF PullStatus
  <2>2. run \in Run /\ run.rep = r /\ run.since = Len(log[r]) /\ run.at = "log"
    BY <1>0, TypedLog DEF Run, CurrentSeq
  <2> HIDE DEF run
  <2>3. ReplTypes'
    BY <1>0, <2>1, <2>2 DEF ReplTypes
  <2>4. ASSUME NEW j \in Pulls PROVE RunFits(pull[j])'
    <3>1. CASE j = i
      <4>1. pull'[j] = run /\ Len(log[r]) \in Nat
        BY <1>0, <2>1, <3>1, TypedLog DEF ReplTypes
      <4> QED BY <2>1, <2>2, <4>1 DEF RunFits
    <3>2. CASE j # i
      BY <1>0, <2>1, <3>2 DEF RunFits, ReplTypes, Held, Primary
    <3> QED BY <3>1, <3>2
  <2> QED BY <2>1, <2>3, <2>4 DEF ReplInv, Primary
<1>5. ASSUME NEW i \in Pulls, NEW p \in Regions, NEW limit \in 1..2, PullLog(i, p, limit)
      PROVE  ReplInv'
  <2>1. pull[i] # NoRun /\ pull[i].at = "log" /\ Primary(p)
    BY <1>5 DEF PullLog, NoRun
  <2> DEFINE run == [pull[i] EXCEPT !.at = "apply", !.batch = Fetch(p, pull[i].since, limit)]
  <2>2. /\ UNCHANGED <<mode, log, pending, led, again, count>>
        /\ pull' = [pull EXCEPT ![i] = run]
    BY <1>0, <1>5 DEF PullLog, ReplTypes
  <2>3. pull[i] \in Run /\ pull[i].since \in Nat /\ pull[i].rep \in Regions
    BY <1>0, <2>1, TypedRun
  <2>4. /\ Fetch(p, pull[i].since, limit) \in Seq(Mutations)
        /\ \A k \in 1..Len(Fetch(p, pull[i].since, limit)) :
              /\ pull[i].since + k <= Len(log[p])
              /\ Fetch(p, pull[i].since, limit)[k] = log[p][pull[i].since + k]
    BY <1>0, <2>3, FetchHolds
  <2>5. /\ run \in Run /\ run.rep = pull[i].rep /\ run.since = pull[i].since
        /\ run.batch = Fetch(p, pull[i].since, limit)
    BY <2>3, <2>4 DEF Run
  <2>6. Held(run, p)
    BY <2>4, <2>5 DEF Held
  <2> HIDE DEF run
  <2>7. ReplTypes'
    BY <1>0, <2>2, <2>5 DEF ReplTypes
  <2>8. ASSUME NEW j \in Pulls PROVE RunFits(pull[j])'
    <3>1. CASE j = i
      <4>1. pull'[j] = run
        BY <1>0, <2>2, <3>1 DEF ReplTypes
      <4>2. mode[run.rep] # "primary" /\ run.since <= Len(log[run.rep])
        BY <1>0, <2>1, <2>5 DEF RunFits
      <4>3. \A q \in Regions : Primary(q) => Held(run, q)
        BY <2>1, <2>6 DEF ReplInv
      <4> QED BY <2>1, <2>2, <4>1, <4>2, <4>3 DEF RunFits, Held, Primary
    <3>2. CASE j # i
      BY <1>0, <2>2, <3>2 DEF RunFits, ReplTypes, Held, Primary
    <3> QED BY <3>1, <3>2
  <2> QED BY <2>2, <2>7, <2>8 DEF ReplInv, Primary
<1>6. ASSUME NEW i \in Pulls, PullApply(i) PROVE ReplInv'
  <2> DEFINE r == pull[i].rep
             new == Applied(log[r], pull[i].since, pull[i].batch)
  <2>1. /\ UNCHANGED <<mode, pending, led, again, count>> /\ pull[i] # NoRun
        /\ log' = [log EXCEPT ![r] = new] /\ pull' = [pull EXCEPT ![i] = NoRun]
    BY <1>6 DEF PullApply, NoRun
  <2>2. /\ r \in Regions /\ pull[i].since \in Nat /\ pull[i].batch \in Seq(Mutations)
        /\ pull[i].since <= Len(log[r]) /\ ~Primary(r) /\ log[r] \in Seq(Mutations)
    BY <1>0, <2>1, TypedRun, TypedLog DEF RunFits, Primary
  <2>3. /\ new \in Seq(Mutations) /\ Len(log[r]) <= Len(new)
    BY <2>2, AppliedHolds
  <2> HIDE DEF r, new
  <2>4. ReplTypes'
    BY <1>0, <2>1, <2>2, <2>3 DEF ReplTypes
  <2>5. \A s \in Regions : Len(log[s]) <= Len(log'[s])
    BY <1>0, <2>1, <2>3, TypedLog DEF ReplTypes
  <2>6. \A p \in Regions : Primary(p) => log'[p] = log[p]
    BY <1>0, <2>1, <2>2 DEF ReplTypes
  <2>7. ASSUME NEW j \in Pulls, pull'[j] # NoRun PROVE RunFits(pull[j])'
    <3>1. pull'[j] = pull[j] /\ pull[j] # NoRun /\ RunFits(pull[j])
      BY <1>0, <2>1, <2>7 DEF ReplTypes
    <3>2. pull[j].rep \in Regions /\ pull[j].since \in Nat
      BY <1>0, <3>1, TypedRun
    <3>3. pull[j].since <= Len(log'[pull[j].rep])
      <4>1. Len(log[pull[j].rep]) \in Nat /\ Len(log'[pull[j].rep]) \in Nat
        BY <1>0, <2>4, <3>2, TypedLog, LenProperties DEF ReplTypes
      <4> QED BY <2>5, <3>1, <3>2, <4>1 DEF RunFits
    <3> QED BY <2>1, <2>6, <3>1, <3>3 DEF RunFits, Held, Primary
  <2>8. \A j \in Pulls : RunFits(pull[j])'
    BY <2>7 DEF RunFits
  <2> QED BY <2>1, <2>4, <2>8 DEF ReplInv, Primary
<1>7. ASSUME NEW i \in Pulls, PullFails(i) PROVE ReplInv'
  <2>1. /\ UNCHANGED <<mode, log, pending, led, again, count>>
        /\ pull' = [pull EXCEPT ![i] = NoRun]
    BY <1>7 DEF PullFails
  <2>2. ReplTypes'
    BY <1>0, <2>1 DEF ReplTypes
  <2>3. ASSUME NEW j \in Pulls PROVE RunFits(pull[j])'
    <3>1. pull'[j] = NoRun \/ pull'[j] = pull[j]
      BY <1>0, <2>1 DEF ReplTypes
    <3> QED BY <1>0, <2>1, <3>1 DEF RunFits, Held, Primary
  <2> QED BY <2>1, <2>2, <2>3 DEF ReplInv, Primary
<1>8. ASSUME NEW r \in Regions, Crash(r) PROVE ReplInv'
  <2>1. /\ Primary(r) /\ mode' = [mode EXCEPT ![r] = "down"]
        /\ pending' = [pending EXCEPT ![r] = {}] /\ pull' = [i \in Pulls |-> NoRun]
        /\ UNCHANGED <<log, led, again, count>>
    BY <1>8 DEF Crash
  <2>2. ReplTypes'
    BY <1>0, <2>1 DEF ReplTypes
  <2>3. \A i \in Pulls : RunFits(pull[i])'
    BY <2>1 DEF RunFits
  <2>4. r \in led
    BY <2>1 DEF ReplInv, Primary
  <2>5. \A s \in Regions : s # r => mode'[s] = mode[s] /\ pending'[s] = pending[s]
    BY <1>0, <2>1 DEF ReplTypes
  <2>6. mode'[r] = "down" /\ pending'[r] = {}
    BY <1>0, <2>1 DEF ReplTypes
  <2> QED BY <2>1, <2>2, <2>3, <2>4, <2>5, <2>6 DEF ReplInv, Primary
<1>9. ASSUME NEW r \in Regions, Promote(r) PROVE ReplInv'
  <2>1. /\ mode' = [mode EXCEPT ![r] = "primary"] /\ \A s \in Regions : ~Primary(s)
        /\ pull' = [i \in Pulls |-> NoRun] /\ led' = led \cup {r}
        /\ again' = (again \/ r \in led) /\ UNCHANGED <<log, pending, count>>
    BY <1>9 DEF Promote
  <2>2. ReplTypes'
    BY <1>0, <2>1 DEF ReplTypes
  <2>3. \A i \in Pulls : RunFits(pull[i])'
    BY <2>1 DEF RunFits
  <2>4. \A s \in Regions : s # r => mode'[s] = mode[s]
    BY <1>0, <2>1 DEF ReplTypes
  <2> QED BY <2>1, <2>2, <2>3, <2>4 DEF ReplInv, Primary
<1>10. ASSUME NEW r \in Regions, Return(r) PROVE ReplInv'
  <2>1. /\ mode[r] = "down" /\ mode' = [mode EXCEPT ![r] = "replica"]
        /\ UNCHANGED <<log, pending, count, pull, led, again>>
    BY <1>10 DEF Return
  <2>2. ReplTypes'
    BY <1>0, <2>1 DEF ReplTypes
  <2>3. /\ \A s \in Regions : s # r => mode'[s] = mode[s]
        /\ mode'[r] = "replica" /\ \A s \in Regions : Primary(s)' <=> Primary(s)
    BY <1>0, <2>1 DEF ReplTypes, Primary
  <2>4. ASSUME NEW i \in Pulls PROVE RunFits(pull[i])'
    <3>1. CASE pull[i] = NoRun
      BY <2>1, <3>1 DEF RunFits
    <3>2. CASE pull[i] # NoRun
      <4>1. pull[i].rep \in Regions /\ RunFits(pull[i])
        BY <1>0, <3>2, TypedRun
      <4>2. mode'[pull[i].rep] # "primary"
        BY <2>3, <4>1, <3>2 DEF RunFits, Primary
      <4> QED BY <2>1, <2>3, <4>1, <4>2 DEF RunFits, Held
    <3> QED BY <3>1, <3>2
  <2> QED BY <2>1, <2>2, <2>3, <2>4 DEF ReplInv
<1>11. CASE UNCHANGED replVars
  <2>1. UNCHANGED <<mode, log, pending, count, pull, led, again>>
    BY <1>11 DEF replVars
  <2>2. ReplTypes'
    BY <1>0, <2>1 DEF ReplTypes
  <2>3. \A i \in Pulls : RunFits(pull[i])'
    BY <1>0, <2>1 DEF RunFits, Held, Primary
  <2> QED BY <2>1, <2>2, <2>3 DEF ReplInv, Primary
<1> QED BY <1>1, <1>2, <1>3, <1>4, <1>5, <1>6, <1>7, <1>8, <1>9, <1>10, <1>11
        DEF ReplicationNext

--------------------------------------------------------------------------------
LEMMA AgreesGrows ==
  ASSUME NEW s \in Seq(Mutations), NEW t \in Seq(Mutations), NEW m \in Mutations, Agrees(s, t)
  PROVE  Agrees(s, Append(t, m))
<1>1. /\ Len(s) \in Nat /\ Len(t) \in Nat /\ Len(Append(t, m)) = Len(t) + 1
      /\ \A k \in 1..Len(t) : Append(t, m)[k] = t[k]
  BY LenProperties
<1> QED BY <1>1 DEF Agrees

LEMMA AgreesBoth ==
  ASSUME NEW s \in Seq(Mutations), NEW t \in Seq(Mutations), NEW u \in Seq(Mutations),
         Agrees(s, u), Agrees(t, u), Len(s) <= Len(t)
  PROVE  Agrees(s, t)
<1>1. Len(s) \in Nat /\ Len(t) \in Nat /\ Len(u) \in Nat
  BY LenProperties
<1> QED BY <1>1 DEF Agrees

(* Two followers of one log follow each other.                             *)
LEMMA FollowersOf ==
  ASSUME ReplTypes, NEW p \in Regions, Primary(p),
         \A q \in Regions : Primary(q) => q = p,
         \A r \in Regions : r \notin led => Agrees(log[r], log[p])
  PROVE  Followers
  BY TypedLog, AgreesBoth DEF Followers

(* Entries applied to a follower are the primary's.                        *)
LEMMA AppliedAgrees ==
  ASSUME ReplInv, NEW i \in Pulls, pull[i] # NoRun, pull[i].at = "apply",
         NEW p \in Regions, Primary(p), Agrees(log[pull[i].rep], log[p])
  PROVE  Agrees(Applied(log[pull[i].rep], pull[i].since, pull[i].batch), log[p])
<1> DEFINE old == log[pull[i].rep]
           new == Applied(old, pull[i].since, pull[i].batch)
<1>1. /\ pull[i].rep \in Regions /\ pull[i].since \in Nat /\ pull[i].batch \in Seq(Mutations)
      /\ old \in Seq(Mutations) /\ log[p] \in Seq(Mutations)
      /\ pull[i].since <= Len(old) /\ Held(pull[i], p)
  BY TypedRun, TypedLog DEF ReplInv, RunFits
<1>2. /\ new \in Seq(Mutations)
      /\ \A k \in 1..Len(old) : new[k] = old[k]
      /\ \A k \in 1..Len(new) : k > Len(old) =>
           /\ k - pull[i].since \in 1..Len(pull[i].batch)
           /\ new[k] = pull[i].batch[k - pull[i].since]
  BY <1>1, AppliedHolds
<1>3. Len(old) \in Nat /\ Len(new) \in Nat /\ Len(log[p]) \in Nat
  BY <1>1, <1>2, LenProperties
<1>4. Len(old) <= Len(log[p]) /\ \A k \in 1..Len(old) : old[k] = log[p][k]
  BY DEF Agrees
<1> HIDE DEF old, new
<1>5. ASSUME NEW k \in 1..Len(new) PROVE k <= Len(log[p]) /\ new[k] = log[p][k]
  <2>1. CASE k <= Len(old)
    BY <1>2, <1>3, <1>4, <2>1
  <2>2. CASE k > Len(old)
    <3>1. /\ k - pull[i].since \in 1..Len(pull[i].batch)
          /\ new[k] = pull[i].batch[k - pull[i].since]
          /\ pull[i].since + (k - pull[i].since) = k
      BY <1>1, <1>2, <1>3, <2>2
    <3> QED BY <1>1, <3>1 DEF Held
  <2> QED BY <1>3, <2>1, <2>2
<1>6. Len(new) <= Len(log[p])
  <2>1. CASE Len(new) = 0
    BY <1>3, <2>1
  <2>2. CASE Len(new) # 0
    <3>1. Len(new) \in 1..Len(new)
      BY <1>3, <2>2
    <3> QED BY <1>5, <3>1
  <2> QED BY <2>1, <2>2
<1>7. Agrees(new, log[p])
  BY <1>5, <1>6 DEF Agrees
<1> QED BY <1>7 DEF new, old

LEMMA FollowersNext ==
  ReplInv /\ ReplInv' /\ (~again => Followers) /\ [ReplicationNext]_replVars
    => (~again => Followers)'
<1> SUFFICES ASSUME ReplInv, ReplInv', ~again => Followers, [ReplicationNext]_replVars, ~again'
             PROVE  Followers'
  OBVIOUS
<1>0. ReplTypes /\ ReplTypes' /\ again \in BOOLEAN
  BY DEF ReplInv, ReplTypes
<1>1. ASSUME UNCHANGED <<log, led, again>>, \A s \in Regions : Primary(s)' => Primary(s)
      PROVE  Followers'
  BY <1>1 DEF Followers, Primary
<1>2. ASSUME NEW r \in Regions, NEW m \in Mutations, AppendEntry(r, m) PROVE Followers'
  <2>1. /\ UNCHANGED <<mode, led, again>> /\ Primary(r) /\ r \in led
        /\ log' = [log EXCEPT ![r] = Append(@, m)]
    BY <1>2 DEF AppendEntry, ReplInv, Primary
  <2>2. ASSUME NEW s \in Regions, s \notin led PROVE Agrees(log'[s], log'[r])
    <3>1. log'[s] = log[s] /\ log'[r] = Append(log[r], m) /\ Agrees(log[s], log[r])
      BY <1>0, <2>1, <2>2 DEF ReplTypes, Followers
    <3> QED BY <1>0, <3>1, TypedLog, AgreesGrows
  <2>3. \A q \in Regions : Primary(q)' => q = r
    BY <2>1 DEF ReplInv, Primary
  <2>4. \A s \in Regions : s \notin led' => Agrees(log'[s], log'[r])
    BY <2>1, <2>2
  <2>5. Primary(r)'
    BY <2>1 DEF Primary
  <2>6. \A s \in Regions : log'[s] \in Seq(Mutations) /\ Len(log'[s]) \in Nat
    BY <1>0, LenProperties DEF ReplTypes
  <2> QED BY <2>3, <2>4, <2>5, <2>6, AgreesBoth DEF Followers
<1>3. ASSUME NEW i \in Pulls, PullApply(i) PROVE Followers'
  <2> DEFINE r == pull[i].rep
             new == Applied(log[r], pull[i].since, pull[i].batch)
  <2>1. /\ UNCHANGED <<mode, led, again>> /\ pull[i] # NoRun /\ pull[i].at = "apply"
        /\ log' = [log EXCEPT ![r] = new]
    BY <1>3 DEF PullApply, NoRun
  <2>2. PICK p \in Regions : Primary(p)
    BY <2>1 DEF ReplInv, RunFits
  <2>3. r \in Regions /\ r # p /\ \A q \in Regions : Primary(q)' => q = p
    BY <1>0, <2>1, <2>2, TypedRun DEF ReplInv, RunFits, Primary
  <2>4. ASSUME NEW s \in Regions, s \notin led PROVE Agrees(log'[s], log'[p])
    <3>1. Agrees(log[s], log[p]) /\ log'[p] = log[p]
      BY <1>0, <2>1, <2>2, <2>3, <2>4 DEF ReplTypes, Followers
    <3>2. CASE s = r
      BY <1>0, <2>1, <2>2, <3>1, <3>2, AppliedAgrees DEF ReplTypes
    <3>3. CASE s # r
      BY <1>0, <2>1, <3>1, <3>3 DEF ReplTypes
    <3> QED BY <3>2, <3>3
  <2>5. Primary(p)' /\ led' = led
    BY <2>1, <2>2 DEF Primary
  <2>6. \A s \in Regions : log'[s] \in Seq(Mutations) /\ Len(log'[s]) \in Nat
    BY <1>0, LenProperties DEF ReplTypes
  <2> QED BY <2>3, <2>4, <2>5, <2>6, AgreesBoth DEF Followers
<1>4. ASSUME NEW r \in Regions, Promote(r) PROVE Followers'
  <2>1. /\ \A s \in Regions : ~Primary(s) /\ Best(r) /\ led' = led \cup {r}
        /\ again' = (again \/ r \in led) /\ UNCHANGED log
        /\ mode' = [mode EXCEPT ![r] = "primary"]
    BY <1>4 DEF Promote
  <2>2. r \notin led /\ ~again /\ Followers
    BY <1>0, <2>1
  <2>3. \A q \in Regions : Primary(q)' => q = r
    BY <1>0, <2>1 DEF ReplTypes, Primary
  <2>4. \A s \in Regions : s \notin led => Len(log[s]) <= Len(log[r])
    BY <2>1 DEF Best, CurrentSeq, ReplInv
  <2> QED BY <2>1, <2>2, <2>3, <2>4 DEF Followers
<1>5. ASSUME NEW r \in Regions, Crash(r) \/ Return(r) PROVE Followers'
  <2>1. \A s \in Regions : Primary(s)' => Primary(s)
    BY <1>0, <1>5 DEF Crash, Return, Primary, ReplTypes
  <2> QED BY <1>1, <1>5, <2>1 DEF Crash, Return
<1>6. CASE UNCHANGED <<mode, log, led, again>>
  BY <1>1, <1>6 DEF Primary
<1> QED BY <1>2, <1>3, <1>4, <1>5, <1>6 DEF ReplicationNext, Mutate, AppendFails, PullStatus,
     PullLog, PullFails, replVars

LEMMA ReplInvInit == ReplicationInit => ReplInv
<1> SUFFICES ASSUME ReplicationInit PROVE ReplInv
  OBVIOUS
<1>1. ReplTypes
  BY EmptySeq DEF ReplicationInit, ReplTypes
<1> QED BY <1>1 DEF ReplicationInit, ReplInv, RunFits, Primary

(* A region that was never primary has a prefix of the primary's log,      *)
(* whatever pulls overlap, repeat or fail and whoever fails over, as long  *)
(* as no former primary is promoted again.                                 *)
THEOREM FollowersFollow == ReplicationSpec => []FollowerIsPrefix
<1>1. ReplicationInit => (~again => Followers)
  <2> SUFFICES ASSUME ReplicationInit PROVE Followers
    OBVIOUS
  <2>1. \A r \in Regions : log[r] = <<>> /\ Len(log[r]) = 0
    BY DEF ReplicationInit
  <2> QED BY <2>1 DEF Followers, Agrees
<1>2. ReplInv /\ (~again => Followers) => FollowerIsPrefix
  BY TypedLog, AgreesIsPrefix DEF FollowerIsPrefix, Followers, ReplInv
<1> QED BY <1>1, <1>2, ReplInvInit, ReplInvNext, FollowersNext, PTL DEF ReplicationSpec

--------------------------------------------------------------------------------
LEMMA OnePlaceNext ==
  ReplInv /\ ReplInv' /\ OnePlace /\ [ReplicationNext]_replVars => OnePlace'
<1> SUFFICES ASSUME ReplInv, ReplInv', OnePlace, [ReplicationNext]_replVars PROVE OnePlace'
  OBVIOUS
<1>0. /\ ReplTypes /\ ReplTypes' /\ count \in Nat
      /\ \A r \in Regions : /\ Len(log[r]) \in Nat
                            /\ \A k \in 1..Len(log[r]) : log[r][k] \in Nat
  BY TypedLog DEF ReplInv, ReplTypes, Mutations
<1>1. ASSUME NEW r \in Regions, Mutate(r) PROVE OnePlace'
  <2>1. /\ UNCHANGED log /\ count' = count + 1
        /\ pending' = [pending EXCEPT ![r] = @ \cup {count + 1}]
    BY <1>1 DEF Mutate
  <2>2. \A s \in Regions : \A m \in pending'[s] : m = count + 1 \/ m \in pending[s]
    BY <1>0, <2>1 DEF ReplTypes
  <2>3. \A s \in Regions : \A m \in pending[s] : m \in Nat
    BY <1>0 DEF ReplTypes, Mutations
  <2>4. \A s, t \in Regions : \A j \in 1..Len(log[s]) : log[s][j] \notin pending'[t]
    <3> SUFFICES ASSUME NEW s \in Regions, NEW t \in Regions, NEW j \in 1..Len(log[s]),
                        log[s][j] \in pending'[t]
                 PROVE  FALSE
      OBVIOUS
    <3>1. log[s][j] <= count /\ log[s][j] \in Nat /\ log[s][j] \notin pending[t]
      BY <1>0 DEF OnePlace
    <3> QED BY <1>0, <2>2, <3>1
  <2>5. \A s \in Regions : \A m \in pending'[s] : m <= count'
    BY <1>0, <2>1, <2>2, <2>3 DEF OnePlace
  <2>6. \A s \in Regions : \A j \in 1..Len(log[s]) : log[s][j] <= count'
    BY <1>0, <2>1 DEF OnePlace
  <2> QED BY <2>1, <2>4, <2>5, <2>6 DEF OnePlace
<1>2. ASSUME NEW r \in Regions, NEW m \in Mutations, AppendEntry(r, m) PROVE OnePlace'
  <2>1. /\ UNCHANGED <<mode, count>> /\ m \in pending[r] /\ Primary(r)
        /\ pending' = [pending EXCEPT ![r] = @ \ {m}]
        /\ log' = [log EXCEPT ![r] = Append(@, m)]
    BY <1>2 DEF AppendEntry, ReplInv
  <2>2. /\ Len(Append(log[r], m)) = Len(log[r]) + 1
        /\ \A k \in 1..Len(log[r]) : Append(log[r], m)[k] = log[r][k]
        /\ Append(log[r], m)[Len(log[r]) + 1] = m
    BY <1>0, TypedLog
  <2>3. \A s \in Regions : \A k \in 1..Len(log'[s]) :
          \/ s = r /\ k = Len(log[r]) + 1 /\ log'[s][k] = m
          \/ k \in 1..Len(log[s]) /\ log'[s][k] = log[s][k]
    BY <1>0, <2>1, <2>2 DEF ReplTypes
  <2>4. \A s \in Regions : \A k \in 1..Len(log[s]) : log[s][k] # m
    BY <2>1 DEF OnePlace
  <2>5. \A s \in Regions : pending'[s] \subseteq pending[s] /\ m \notin pending'[s]
    <3>1. \A s \in Regions : s # r => pending[s] = {}
      BY <2>1 DEF ReplInv
    <3> QED BY <1>0, <2>1, <3>1 DEF ReplTypes
  <2>6. m <= count
    BY <2>1 DEF OnePlace
  <2>7. \A s, t \in Regions : \A j \in 1..Len(log'[s]), k \in 1..Len(log'[t]) :
          log'[s][j] = log'[t][k] => j = k
    <3> SUFFICES ASSUME NEW s \in Regions, NEW t \in Regions, NEW j \in 1..Len(log'[s]),
                        NEW k \in 1..Len(log'[t]), log'[s][j] = log'[t][k]
                 PROVE  j = k
      OBVIOUS
    <3>1. CASE log'[s][j] = m
      BY <2>3, <2>4, <3>1
    <3>2. CASE log'[s][j] # m
      <4>1. /\ j \in 1..Len(log[s]) /\ log'[s][j] = log[s][j]
            /\ k \in 1..Len(log[t]) /\ log'[t][k] = log[t][k]
        BY <2>3, <3>2
      <4> QED BY <4>1 DEF OnePlace
    <3> QED BY <3>1, <3>2
  <2>8. \A s, t \in Regions : \A j \in 1..Len(log'[s]) : log'[s][j] \notin pending'[t]
    BY <2>3, <2>5 DEF OnePlace
  <2>9. \A s \in Regions : \A j \in 1..Len(log'[s]) : log'[s][j] <= count'
    BY <2>1, <2>3, <2>6 DEF OnePlace
  <2>10. \A s \in Regions : \A k \in pending'[s] : k <= count'
    BY <2>1, <2>5 DEF OnePlace
  <2> QED BY <2>7, <2>8, <2>9, <2>10 DEF OnePlace
<1>3. ASSUME NEW i \in Pulls, PullApply(i) PROVE OnePlace'
  <2> DEFINE r == pull[i].rep
             new == Applied(log[r], pull[i].since, pull[i].batch)
  <2>1. /\ UNCHANGED <<mode, pending, count>> /\ pull[i] # NoRun /\ pull[i].at = "apply"
        /\ log' = [log EXCEPT ![r] = new]
    BY <1>3 DEF PullApply, NoRun
  <2>2. PICK p \in Regions : Primary(p) /\ Held(pull[i], p)
    BY <2>1 DEF ReplInv, RunFits
  <2>3. /\ r \in Regions /\ pull[i].since \in Nat /\ pull[i].batch \in Seq(Mutations)
        /\ log[r] \in Seq(Mutations) /\ pull[i].since <= Len(log[r])
        /\ Len(pull[i].batch) \in Nat
    BY <1>0, <2>1, TypedRun, TypedLog DEF ReplInv, RunFits
  <2>4. /\ new \in Seq(Mutations)
        /\ \A k \in 1..Len(log[r]) : new[k] = log[r][k]
        /\ \A k \in 1..Len(new) : k > Len(log[r]) =>
             /\ k - pull[i].since \in 1..Len(pull[i].batch)
             /\ new[k] = pull[i].batch[k - pull[i].since]
    BY <2>3, AppliedHolds
  <2>5. Len(new) \in Nat
    BY <2>4, LenProperties
  <2> HIDE DEF r, new
  <2>6. ASSUME NEW k \in 1..Len(new), k > Len(log[r])
        PROVE  k \in 1..Len(log[p]) /\ new[k] = log[p][k]
    <3>1. /\ k - pull[i].since \in 1..Len(pull[i].batch)
          /\ new[k] = pull[i].batch[k - pull[i].since]
          /\ pull[i].since + (k - pull[i].since) = k
      BY <2>3, <2>4, <2>5, <2>6
    <3> QED BY <2>2, <3>1, <2>5, <2>6 DEF Held
  <2>7. \A s \in Regions : \A k \in 1..Len(log'[s]) : \E t \in Regions :
          k \in 1..Len(log[t]) /\ log'[s][k] = log[t][k]
    <3> SUFFICES ASSUME NEW s \in Regions, NEW k \in 1..Len(log'[s])
                 PROVE  \E t \in Regions : k \in 1..Len(log[t]) /\ log'[s][k] = log[t][k]
      OBVIOUS
    <3>1. CASE s # r
      BY <1>0, <2>1, <3>1 DEF ReplTypes
    <3>2. CASE s = r
      <4>1. log'[s] = new
        BY <1>0, <2>1, <2>3, <3>2 DEF ReplTypes
      <4>2. CASE k > Len(log[r])
        BY <2>2, <2>6, <4>1, <4>2
      <4>3. CASE ~(k > Len(log[r]))
        <5>1. k \in 1..Len(log[r])
          BY <1>0, <2>3, <2>5, <4>1, <4>3
        <5> QED BY <2>3, <2>4, <4>1, <5>1
      <4> QED BY <4>2, <4>3
    <3> QED BY <3>1, <3>2
  <2>8. \A s, t \in Regions : \A j \in 1..Len(log'[s]), k \in 1..Len(log'[t]) :
          log'[s][j] = log'[t][k] => j = k
    <3> SUFFICES ASSUME NEW s \in Regions, NEW t \in Regions, NEW j \in 1..Len(log'[s]),
                        NEW k \in 1..Len(log'[t]), log'[s][j] = log'[t][k]
                 PROVE  j = k
      OBVIOUS
    <3>1. PICK u \in Regions : j \in 1..Len(log[u]) /\ log'[s][j] = log[u][j]
      BY <2>7
    <3>2. PICK v \in Regions : k \in 1..Len(log[v]) /\ log'[t][k] = log[v][k]
      BY <2>7
    <3> QED BY <3>1, <3>2 DEF OnePlace
  <2>9. \A s, t \in Regions : \A j \in 1..Len(log'[s]) : log'[s][j] \notin pending'[t]
    BY <2>1, <2>7 DEF OnePlace
  <2>10. \A s \in Regions : \A j \in 1..Len(log'[s]) : log'[s][j] <= count'
    BY <2>1, <2>7 DEF OnePlace
  <2> QED BY <2>1, <2>8, <2>9, <2>10 DEF OnePlace
<1>4. CASE UNCHANGED <<log, count>> /\ \A s \in Regions : pending'[s] \subseteq pending[s]
  BY <1>4 DEF OnePlace
<1>5. ASSUME NEW r \in Regions,
             Crash(r) \/ Promote(r) \/ Return(r) \/ \E m \in Mutations : AppendFails(r, m)
      PROVE  OnePlace'
  <2>1. UNCHANGED <<log, count>> /\ \A s \in Regions : pending'[s] \subseteq pending[s]
    BY <1>0, <1>5 DEF Crash, Promote, Return, AppendFails, ReplTypes
  <2> QED BY <1>4, <2>1
<1>6. CASE UNCHANGED <<log, pending, count>>
  BY <1>4, <1>6
<1> QED BY <1>1, <1>2, <1>3, <1>5, <1>6 DEF ReplicationNext, PullStatus, PullLog, PullFails,
     replVars

(* No log holds a mutation twice, not even across failovers: in all logs   *)
(* that have it, it stands at the place where its region appended it.      *)
THEOREM EntriesAreUnique == ReplicationSpec => []LoggedOnce
<1>1. ReplicationInit => OnePlace
  <2> SUFFICES ASSUME ReplicationInit PROVE OnePlace
    OBVIOUS
  <2>1. \A r \in Regions : log[r] = <<>> /\ Len(log[r]) = 0 /\ pending[r] = {}
    BY DEF ReplicationInit
  <2> QED BY <2>1 DEF OnePlace
<1>2. ReplInv /\ OnePlace => LoggedOnce
  <2> SUFFICES ASSUME ReplInv, OnePlace PROVE LoggedOnce
    OBVIOUS
  <2>1. \A r \in Regions : DOMAIN log[r] = 1..Len(log[r])
    BY LenProperties DEF ReplInv, ReplTypes
  <2> QED BY <2>1 DEF OnePlace, LoggedOnce
<1> QED BY <1>1, <1>2, ReplInvInit, ReplInvNext, OnePlaceNext, PTL DEF ReplicationSpec

(* A log has as many entries as there are mutations, at the most.          *)
LEMMA LogIsShort ==
  ASSUME ReplInv, OnePlace, NEW r \in Regions
  PROVE  Len(log[r]) \in Nat /\ Len(log[r]) <= MaxMutations
<1>1. /\ log[r] \in Seq(Mutations) /\ Len(log[r]) \in Nat
      /\ \A k \in 1..Len(log[r]) : log[r][k] \in Mutations
  BY TypedLog DEF ReplInv
<1> DEFINE f == [k \in 1..Len(log[r]) |-> log[r][k]]
<1>2. f \in [1..Len(log[r]) -> Mutations]
  BY <1>1
<1>3. \A j, k \in 1..Len(log[r]) : f[j] = f[k] => j = k
  BY DEF OnePlace
<1>4. f \in Injection(1..Len(log[r]), Mutations)
  <2> HIDE DEF f
  <2> QED BY <1>2, <1>3 DEF Injection, IsInjective
<1>5. /\ IsFiniteSet(Mutations) /\ Cardinality(Mutations) = MaxMutations
      /\ Cardinality(1..Len(log[r])) = Len(log[r])
  <2>1. /\ IsFiniteSet(1..MaxMutations)
        /\ Cardinality(1..MaxMutations) = IF 1 > MaxMutations THEN 0 ELSE MaxMutations - 1 + 1
    BY FS_Interval
  <2>2. Cardinality(1..Len(log[r])) = IF 1 > Len(log[r]) THEN 0 ELSE Len(log[r]) - 1 + 1
    BY <1>1, FS_Interval
  <2> QED BY <1>1, <2>1, <2>2 DEF Mutations
<1> HIDE DEF f
<1>6. Cardinality(1..Len(log[r])) <= Cardinality(Mutations)
  BY <1>4, <1>5, FS_Injection
<1> QED BY <1>1, <1>5, <1>6

(* Counters stay within their bounds, and a run that was not yet given     *)
(* entries holds none.                                                     *)
ReplBounds ==
  /\ count \in 0..MaxMutations /\ failovers \in 0..MaxFailovers
  /\ unlogged \subseteq Mutations
  /\ \A i \in Pulls : pull[i] # NoRun /\ pull[i].at = "log" => pull[i].batch = <<>>

LEMMA ReplBoundsNext ==
  ReplInv /\ ReplBounds /\ [ReplicationNext]_replVars => ReplBounds'
<1> SUFFICES ASSUME ReplInv, ReplBounds, [ReplicationNext]_replVars PROVE ReplBounds'
  OBVIOUS
<1>0. ReplTypes /\ count \in Nat /\ failovers \in Nat
  BY DEF ReplInv, ReplBounds, ReplTypes
<1>1. ASSUME NEW r \in Regions, Mutate(r) PROVE ReplBounds'
  <2>1. count < MaxMutations /\ count' = count + 1 /\ UNCHANGED <<failovers, unlogged, pull>>
    BY <1>1 DEF Mutate
  <2>2. count' \in 0..MaxMutations
    BY <1>0, <2>1
  <2> QED BY <2>1, <2>2 DEF ReplBounds
<1>2. ASSUME NEW r \in Regions, Crash(r) PROVE ReplBounds'
  <2>1. /\ failovers < MaxFailovers /\ failovers' = failovers + 1 /\ UNCHANGED count
        /\ unlogged' = unlogged \cup pending[r] /\ pull' = [i \in Pulls |-> NoRun]
    BY <1>2 DEF Crash
  <2>2. failovers' \in 0..MaxFailovers
    BY <1>0, <2>1
  <2>3. unlogged' \subseteq Mutations
    BY <1>0, <2>1 DEF ReplBounds, ReplTypes
  <2> QED BY <2>1, <2>2, <2>3 DEF ReplBounds
<1>3. ASSUME NEW r \in Regions, NEW m \in Mutations, AppendFails(r, m) PROVE ReplBounds'
  BY <1>3 DEF AppendFails, ReplBounds
<1>4. ASSUME NEW r \in Regions, Promote(r) PROVE ReplBounds'
  BY <1>4 DEF Promote, ReplBounds
<1>5. ASSUME NEW i \in Pulls, NEW r \in Regions, PullStatus(i, r) PROVE ReplBounds'
  <2> DEFINE q == [at |-> "log", rep |-> r, since |-> CurrentSeq(r), batch |-> <<>>]
  <2>1. pull' = [pull EXCEPT ![i] = q] /\ q.batch = <<>>
    BY <1>5 DEF PullStatus
  <2>2. UNCHANGED <<count, failovers, unlogged>>
    BY <1>5 DEF PullStatus
  <2> HIDE DEF q
  <2>3. \A j \in Pulls : pull'[j] = pull[j] \/ pull'[j] = q
    BY <1>0, <2>1 DEF ReplTypes
  <2> QED BY <2>1, <2>2, <2>3 DEF ReplBounds
<1>6. ASSUME NEW i \in Pulls, NEW p \in Regions, NEW limit \in 1..2, PullLog(i, p, limit)
      PROVE  ReplBounds'
  <2> DEFINE q == [pull[i] EXCEPT !.at = "apply",
                                  !.batch = Fetch(p, pull[i].since, limit)]
  <2>1. pull[i].at = "log" /\ UNCHANGED <<count, failovers, unlogged>>
    BY <1>6 DEF PullLog
  <2>2. pull[i] \in Run
    <3>1. pull[i] # NoRun
      BY <2>1 DEF NoRun
    <3> QED BY <1>0, <3>1, TypedRun
  <2>3. pull' = [pull EXCEPT ![i] = q] /\ q.at = "apply"
    BY <1>0, <1>6, <2>2 DEF PullLog, Run, ReplTypes
  <2> HIDE DEF q
  <2>4. \A j \in Pulls : pull'[j] = pull[j] \/ pull'[j] = q
    BY <1>0, <2>3 DEF ReplTypes
  <2> QED BY <2>1, <2>3, <2>4 DEF ReplBounds
<1>7. ASSUME NEW i \in Pulls, PullApply(i) \/ PullFails(i) PROVE ReplBounds'
  <2>1. \A j \in Pulls : pull'[j] = pull[j] \/ pull'[j] = NoRun
    BY <1>0, <1>7 DEF PullApply, PullFails, ReplTypes
  <2>2. UNCHANGED <<count, failovers, unlogged>>
    BY <1>7 DEF PullApply, PullFails
  <2> QED BY <2>1, <2>2 DEF ReplBounds
<1>8. CASE UNCHANGED <<count, failovers, unlogged, pull>>
  BY <1>8 DEF ReplBounds
<1> QED BY <1>1, <1>2, <1>3, <1>4, <1>5, <1>6, <1>7, <1>8
        DEF ReplicationNext, AppendEntry, Return, replVars

LEMMA ReplIsTyped == ReplInv /\ OnePlace /\ ReplBounds => ReplicationTypeOK
<1> SUFFICES ASSUME ReplInv, OnePlace, ReplBounds PROVE ReplicationTypeOK
  OBVIOUS
<1>1. ReplTypes /\ \A i \in Pulls : RunFits(pull[i])
  BY DEF ReplInv
<1>2. ASSUME NEW i \in Pulls, pull[i] # NoRun
      PROVE  /\ pull[i].since \in 0..MaxMutations
             /\ Len(pull[i].batch) \in 0..MaxMutations
  <2>1. /\ pull[i] \in Run /\ pull[i].rep \in Regions /\ pull[i].since \in Nat
        /\ Len(pull[i].batch) \in Nat
    BY <1>1, <1>2, TypedRun
  <2>2. pull[i].since \in 0..MaxMutations
    <3>1. pull[i].since <= Len(log[pull[i].rep])
      BY <1>1, <1>2 DEF RunFits
    <3> QED BY <2>1, <3>1, LogIsShort
  <2>3. CASE pull[i].at = "log"
    <3>1. Len(pull[i].batch) = 0
      BY <1>2, <2>3 DEF ReplBounds
    <3> QED BY <2>2, <3>1
  <2>4. CASE pull[i].at = "apply"
    <3>1. PICK p \in Regions : Held(pull[i], p)
      BY <1>1, <1>2, <2>4 DEF RunFits
    <3>2. \A k \in 1..Len(pull[i].batch) : pull[i].since + k <= Len(log[p])
      BY <3>1 DEF Held
    <3>3. Len(log[p]) \in Nat /\ Len(log[p]) <= MaxMutations
      BY LogIsShort
    <3>4. Len(pull[i].batch) <= Len(log[p])
      <4>1. CASE Len(pull[i].batch) = 0
        BY <3>3, <4>1
      <4>2. CASE Len(pull[i].batch) # 0
        <5>1. Len(pull[i].batch) \in 1..Len(pull[i].batch)
          BY <2>1, <4>2
        <5>2. pull[i].since + Len(pull[i].batch) <= Len(log[p])
          BY <3>2, <5>1
        <5> QED BY <2>1, <3>3, <5>2
      <4> QED BY <4>1, <4>2
    <3> QED BY <2>1, <2>2, <3>3, <3>4
  <2> QED BY <2>1, <2>3, <2>4 DEF Run
<1>3. ASSUME NEW i \in Pulls, pull[i] # NoRun
      PROVE  pull[i] \in [at: {"log", "apply"}, rep: Regions, since: 0..MaxMutations,
                          batch: UNION {[1..n -> Mutations] : n \in 0..MaxMutations}]
  <2> DEFINE n == Len(pull[i].batch)
  <2>1. pull[i] \in Run /\ pull[i].batch \in Seq(Mutations)
    BY <1>1, <1>3, TypedRun
  <2>2. pull[i].batch \in [1..n -> Mutations] /\ n \in 0..MaxMutations
    BY <1>2, <1>3, <2>1, LenProperties
  <2>3. pull[i].batch \in UNION {[1..m -> Mutations] : m \in 0..MaxMutations}
    <3> HIDE DEF n
    <3> QED BY <2>2
  <2> QED BY <1>2, <1>3, <2>1, <2>3 DEF Run
<1> QED BY <1>1, <1>3 DEF ReplTypes, ReplBounds, ReplicationTypeOK

(* Storage and replication are sound (storage.py, gc.py, replication.py),  *)
(* for every set of writers and regions: types, ids and logs are what the  *)
(* modules say, no log is longer than the mutations there were.            *)
THEOREM WorkspaceStorageIsSound == WorkspaceStorageSpec => []StorageSound
<1>1. ReplicationInit => ReplInv /\ OnePlace /\ ReplBounds
  <2> SUFFICES ASSUME ReplicationInit PROVE OnePlace /\ ReplBounds
    BY ReplInvInit
  <2>1. \A r \in Regions : log[r] = <<>> /\ Len(log[r]) = 0 /\ pending[r] = {}
    BY DEF ReplicationInit
  <2> QED BY <2>1 DEF OnePlace, ReplBounds, ReplicationInit
<1>2. ReplInv /\ OnePlace /\ ReplBounds /\ [ReplicationNext]_replVars
        => ReplInv' /\ OnePlace' /\ ReplBounds'
  BY ReplInvNext, OnePlaceNext, ReplBoundsNext
<1>3. ReplicationSpec => []ReplicationTypeOK
  BY <1>1, <1>2, ReplIsTyped, PTL DEF ReplicationSpec
<1> QED BY <1>3, StorageTypes, EntriesAreUnique, PTL DEF WorkspaceStorageSpec, StorageSound

================================================================================
