--------------------------------- MODULE Storage ---------------------------------
(***************************************************************************)
(* The versioned storage of the workspace service: one key or one file     *)
(* (storage.py), the snapshots and branches that pin its versions          *)
(* (snapshots.py) and the garbage collector that trims them (gc.py).       *)
(*                                                                         *)
(* A handler reads in autocommit mode and writes in one transaction, so    *)
(* every read before its first INSERT is an action of its own and so is    *)
(* the transaction.  A handler may be lost between any two.  The collector *)
(* runs one pass at a time and unlinks blobs after its transaction.        *)
(*                                                                         *)
(* A version holds a content, which for a file stands for the SHA-256 of   *)
(* its bytes and so for the name of its blob.  "clean" marks what was      *)
(* begun and finished while no pass of the collector ran.                  *)
(***************************************************************************)
EXTENDS Naturals, FiniteSets, FiniteSetsExt

CONSTANTS Writers,     \* slots for API calls in flight
          Contents,    \* values a version may hold
          MaxRows,     \* bound on the rows ever inserted
          MaxSnaps,    \* bound on the snapshots ever taken
          MaxBranches, \* bound on the branches ever created
          MaxPasses,   \* bound on the passes of the collector
          HasBlobs,    \* TRUE: file_entries, FALSE: kv_entries
          Policies,    \* the retention policies a pass may run under
          NULL         \* main, no content, nothing

ASSUME StorageAssumption ==
  /\ MaxRows \in Nat /\ MaxSnaps \in Nat /\ MaxBranches \in Nat
  /\ MaxPasses \in Nat /\ HasBlobs \in BOOLEAN
  /\ NULL \notin Contents /\ NULL \notin Nat
  /\ Policies \subseteq
       [versions: (Nat \ {0}) \cup {NULL},   \* keep_versions
        days: BOOLEAN,                       \* is keep_days set
        snapshots: (Nat \ {0}) \cup {NULL},  \* keep_snapshots
        blobs: BOOLEAN]                      \* delete_unreferenced_blobs

VARIABLES alive,     \* the row of workspaces
          rows,      \* the versions stored
          nextId,    \* AUTOINCREMENT of the table
          blobs,     \* the blob files on disk
          snaps,     \* the snapshots in order of creation
          branches,  \* the branches in order of creation
          op,        \* the API calls in flight
          gc,        \* the pass of the collector
          passes     \* how many began

storageVars ==
  <<alive, rows, nextId, blobs, snaps, branches, op, gc, passes>>

SnapIds == 1..MaxSnaps
BranchIds == 1..MaxBranches
Lines == BranchIds \cup {NULL}      \* timelines: the branches and main
Versions == 1..MaxRows
Stored == Contents \cup {NULL}

Op(at, br, snap, ver, content, clean) ==
  [at |-> at, br |-> br, snap |-> snap, ver |-> ver, content |-> content,
   clean |-> clean]
Idle == [at |-> "idle"]
Gone == [deleted |-> TRUE]

StorageTypeOK ==
  /\ alive \in BOOLEAN
  /\ nextId \in 1..MaxRows + 1 /\ passes \in 0..MaxPasses
  /\ rows \subseteq [id: 1..MaxRows, ver: Versions, br: Lines, content: Stored,
                     clean: BOOLEAN]
  /\ Cardinality({r.id : r \in rows}) = Cardinality(rows)
  /\ blobs \subseteq Contents
  /\ snaps \in [SnapIds -> [ver: Versions \cup {0}, br: Lines, content: Stored,
                            clean: BOOLEAN] \cup {NULL, Gone}]
  /\ branches \in [BranchIds -> [from: SnapIds, merged: BOOLEAN, clean: BOOLEAN]
                                \cup {NULL, Gone}]
  /\ op \in [Writers -> [at: {"idle"}] \cup
              [at: {"blob", "insert", "snapshot", "branch", "merge", "mergever",
                    "mergeput", "mergemark"},
               br: Lines, snap: SnapIds \cup {NULL}, ver: Versions \cup {0},
               content: Stored, clean: BOOLEAN]]
  /\ gc.at \in {"idle", "rows", "write", "blobs", "unlink"}

StorageInit ==
  /\ alive = TRUE
  /\ rows = {} /\ nextId = 1 /\ blobs = {}
  /\ snaps = [s \in SnapIds |-> NULL]
  /\ branches = [b \in BranchIds |-> NULL]
  /\ op = [w \in Writers |-> Idle]
  /\ gc = Idle /\ passes = 0

LiveSnap(s) == snaps[s] \notin {NULL, Gone}
LiveBranch(b) == branches[b] \notin {NULL, Gone}
Quiet == gc.at = "idle"
Deleted(r) == r.content = NULL

\* resolve_branch_context: the branch and its snapshot must exist.
Resolves(b) == b # NULL => LiveBranch(b) /\ LiveSnap(branches[b].from)

Of(b) == {r \in rows : r.br = b}
MaxVer(b) == IF Of(b) = {} THEN 0 ELSE Max({r.ver : r \in Of(b)})
AtVer(b, v) == {r \in Of(b) : r.ver = v}
Newest(b) == AtVer(b, MaxVer(b))    \* more than one row after a version race

\* Where a timeline that never wrote the name reads it: the version its snapshot
\* captured, looked up on main.
Fallthrough(b) == IF b = NULL THEN {} ELSE AtVer(NULL, snaps[branches[b].from].ver)

Begin(w, o) == op[w] = Idle /\ alive /\ op' = [op EXCEPT ![w] = o]
Continue(w, o) == op' = [op EXCEPT ![w] = o]
End(w) == op' = [op EXCEPT ![w] = Idle]

\* UNIQUE(workspace_id, key, version, branch_id) compares NULL with nothing, so
\* it does not bind main.
Unique(b, v) == b # NULL => AtVer(b, v) = {}

MutInsert(b, v, c, clean) ==   \* mutant: ids are reused
  /\ nextId <= MaxRows
  /\ rows' = rows \cup {[id |-> nextId, ver |-> v, br |-> b, content |-> c,
                         clean |-> clean \/ c = NULL]}
  /\ nextId' = IF b = NULL THEN nextId + 1 ELSE nextId

Insert(b, v, c, clean) ==
  /\ nextId <= MaxRows
  /\ rows' = rows \cup {[id |-> nextId, ver |-> v, br |-> b, content |-> c,
                         clean |-> clean \/ c = NULL]}
  /\ nextId' = nextId + 1

--------------------------------------------------------------------------------
(* Writes: kv_put, file_put, kv_delete, file_delete.                       *)
PutRead(w, b, c) ==
  /\ Resolves(b) /\ nextId <= MaxRows
  /\ Begin(w, Op(IF HasBlobs THEN "blob" ELSE "insert", b, NULL,
                 MaxVer(b) + 1, c, Quiet))
  /\ UNCHANGED <<alive, rows, nextId, blobs, snaps, branches, gc, passes>>

\* A blob that is already there is not written again.
PutBlob(w) ==
  /\ op[w].at = "blob"
  /\ blobs' = blobs \cup {op[w].content}
  /\ Continue(w, [op[w] EXCEPT !.at = "insert"])
  /\ UNCHANGED <<alive, rows, nextId, snaps, branches, gc, passes>>

Visible(b) ==
  \/ \E r \in Newest(b) : ~Deleted(r)
  \/ \E r \in Fallthrough(b) : ~Deleted(r)

DeleteRead(w, b) ==
  /\ Resolves(b) /\ Visible(b) /\ nextId <= MaxRows
  /\ Begin(w, Op("insert", b, NULL, MaxVer(b) + 1, NULL, Quiet))
  /\ UNCHANGED <<alive, rows, nextId, blobs, snaps, branches, gc, passes>>

\* The INSERT fails on a taken version of a branch and on a workspace that is
\* gone (foreign key), not on a branch that is gone.
InsertRow(w) ==
  /\ op[w].at = "insert"
  /\ IF alive /\ Unique(op[w].br, op[w].ver)
     THEN Insert(op[w].br, op[w].ver, op[w].content, op[w].clean)
     ELSE UNCHANGED <<rows, nextId>>
  /\ End(w)
  /\ UNCHANGED <<alive, blobs, snaps, branches, gc, passes>>
--------------------------------------------------------------------------------
(* Snapshots and branches.                                                 *)
\* What create_snapshot captures on a timeline: its newest version unless it is
\* a tombstone, or what the branch inherited.
Capture(v, b, c, clean) == [ver |-> v, br |-> b, content |-> c, clean |-> clean]

Captured(b) ==
  IF Of(b) # {}
  THEN {Capture(IF Deleted(r) THEN 0 ELSE r.ver, b, r.content, TRUE) : r \in Newest(b)}
  ELSE IF b = NULL THEN {Capture(0, NULL, NULL, TRUE)}
  ELSE LET s == snaps[branches[b].from]
       IN {Capture(s.ver, s.br, s.content, s.clean)}

SnapFree == {s \in SnapIds : snaps[s] = NULL}
BranchFree == {b \in BranchIds : branches[b] = NULL}

SnapCapture(w, b) ==
  /\ Resolves(b) /\ SnapFree # {}
  /\ \E c \in Captured(b) :
       Begin(w, Op("snapshot", c.br, NULL, c.ver, c.content, Quiet /\ c.clean))
  /\ UNCHANGED <<alive, rows, nextId, blobs, snaps, branches, gc, passes>>

SnapInsert(w) ==
  /\ op[w].at = "snapshot"
  /\ IF alive /\ SnapFree # {}
     THEN snaps' = [snaps EXCEPT ![Min(SnapFree)] =
            [ver |-> op[w].ver, br |-> op[w].br,
             content |-> op[w].content, clean |-> op[w].clean]]
     ELSE UNCHANGED snaps
  /\ End(w)
  /\ UNCHANGED <<alive, rows, nextId, blobs, branches, gc, passes>>

BranchCheck(w, s) ==
  /\ LiveSnap(s) /\ BranchFree # {}
  /\ Begin(w, Op("branch", NULL, s, 0, NULL, Quiet))
  /\ UNCHANGED <<alive, rows, nextId, blobs, snaps, branches, gc, passes>>

BranchInsert(w) ==
  /\ op[w].at = "branch"
  /\ IF alive /\ BranchFree # {}
     THEN branches' = [branches EXCEPT ![Min(BranchFree)] =
            [from |-> op[w].snap, merged |-> FALSE, clean |-> op[w].clean]]
     ELSE UNCHANGED branches
  /\ End(w)
  /\ UNCHANGED <<alive, rows, nextId, blobs, snaps, gc, passes>>

DeleteBranch(b) ==
  /\ LiveBranch(b)
  /\ rows' = rows \ Of(b)
  /\ branches' = [branches EXCEPT ![b] = Gone]
  /\ UNCHANGED <<alive, nextId, blobs, snaps, op, gc, passes>>

\* merge_branch tests "merged" on one connection, then reads on another.
MergeCheck(w, b) ==
  /\ LiveBranch(b) /\ ~branches[b].merged
  /\ Begin(w, Op("merge", b, NULL, 0, NULL, Quiet))
  /\ UNCHANGED <<alive, rows, nextId, blobs, snaps, branches, gc, passes>>

MergeRead(w) ==
  /\ op[w].at = "merge"
  /\ \/ /\ Of(op[w].br) = {}
        /\ Continue(w, [op[w] EXCEPT !.at = "mergemark"])
     \/ \E r \in Newest(op[w].br) :
          Continue(w, [op[w] EXCEPT !.at = "mergever", !.content = r.content,
                                    !.clean = @ /\ r.clean])
  /\ UNCHANGED <<alive, rows, nextId, blobs, snaps, branches, gc, passes>>

MergeVersion(w) ==
  /\ op[w].at = "mergever" /\ nextId <= MaxRows
  /\ Continue(w, [op[w] EXCEPT !.at = "mergeput", !.ver = MaxVer(NULL) + 1])
  /\ UNCHANGED <<alive, rows, nextId, blobs, snaps, branches, gc, passes>>

MergeWrite(w) ==
  /\ op[w].at \in {"mergeput", "mergemark"}
  /\ IF op[w].at = "mergeput" /\ alive
     THEN Insert(NULL, op[w].ver, op[w].content, op[w].clean)
     ELSE UNCHANGED <<rows, nextId>>
  /\ branches' = IF LiveBranch(op[w].br)
                 THEN [branches EXCEPT ![op[w].br].merged = TRUE]
                 ELSE branches
  /\ End(w)
  /\ UNCHANGED <<alive, blobs, snaps, gc, passes>>

\* delete_workspace; the blob directory is removed after the transaction, which
\* nobody can tell since no row is left.
DeleteWorkspace ==
  /\ alive
  /\ alive' = FALSE
  /\ rows' = {} /\ blobs' = {}
  /\ snaps' = [s \in SnapIds |-> IF LiveSnap(s) THEN Gone ELSE snaps[s]]
  /\ branches' = [b \in BranchIds |-> IF LiveBranch(b) THEN Gone ELSE branches[b]]
  /\ UNCHANGED <<nextId, op, gc, passes>>

\* Before its first write a lost handler leaves no trace.
LoseOp(w) ==
  /\ op[w].at = "insert"
  /\ End(w)
  /\ UNCHANGED <<alive, rows, nextId, blobs, snaps, branches, gc, passes>>
--------------------------------------------------------------------------------
(***************************************************************************)
(* The collector: GCEngine.run under a policy read before.                 *)
(***************************************************************************)
Unmerged == {b \in BranchIds : LiveBranch(b) /\ ~branches[b].merged}
MutSnapVersions ==   \* mutant: only once no more snapshots can be taken
  {snaps[s].ver : s \in {t \in SnapIds : LiveSnap(t) /\ SnapFree = {}}}
SnapVersions == {snaps[s].ver : s \in {t \in SnapIds : LiveSnap(t)}}

\* What is running now overlaps the pass.
GcStart(policy) ==
  /\ alive /\ Quiet /\ passes < MaxPasses
  /\ passes' = passes + 1
  /\ gc' = [at |-> "rows", policy |-> policy, refs |-> SnapVersions,
            active |-> {branches[b].from : b \in Unmerged}]
  /\ op' = [w \in Writers |-> IF op[w] = Idle THEN Idle
                              ELSE [op[w] EXCEPT !.clean = FALSE]]
  /\ UNCHANGED <<alive, rows, nextId, blobs, snaps, branches>>

\* Versions of a snapshot are protected on every timeline.  Nothing orders rows
\* of one version: the older or the newer may rank first.  Rows from the cutoff
\* on are younger than keep_days.
MutBefore(q, r, asc) == q.ver < r.ver   \* mutant: oldest version first
Before(q, r, asc) ==
  \/ q.ver > r.ver
  \/ q.ver = r.ver /\ IF asc THEN q.id < r.id ELSE q.id > r.id

Rank(r, asc) == Cardinality({q \in Of(r.br) : Before(q, r, asc)})
KeptByRank(p, r, asc) == p.versions # NULL /\ Rank(r, asc) < p.versions
KeptByAge(p, r, cutoff) == p.days /\ r.id >= cutoff

Trimmable(p, refs, asc, cutoff) ==
  IF p.versions = NULL /\ ~p.days THEN {}
  ELSE {r \in rows : /\ r.ver \notin refs
                     /\ ~KeptByRank(p, r, asc) /\ ~KeptByAge(p, r, cutoff)}

GcRows ==
  /\ gc.at = "rows"
  /\ \E asc \in BOOLEAN, cutoff \in 1..nextId :
       LET doomed == Trimmable(gc.policy, gc.refs, asc, cutoff)
       IN gc' = [at |-> "write", policy |-> gc.policy, active |-> gc.active,
                 doomed |-> {r.id : r \in doomed},
                 freed |-> {r.content : r \in doomed} \ {NULL}]
  /\ UNCHANGED <<alive, rows, nextId, blobs, snaps, branches, op, passes>>

\* Snapshots beyond keep_snapshots, oldest first, but for those of branches that
\* were unmerged when the pass began.
SurplusSnaps(p, active) ==
  {s \in SnapIds : /\ p.snapshots # NULL /\ LiveSnap(s) /\ s \notin active
                   /\ Cardinality({t \in SnapIds : LiveSnap(t) /\ t > s})
                        >= p.snapshots}

\* Merged branches, some of them longer than keep_days ago.
Merged(p) == {b \in BranchIds : p.days /\ LiveBranch(b) /\ branches[b].merged}

\* The transaction, and the listing of the blob directory that follows it.
GcWrite ==
  /\ gc.at = "write"
  /\ \E gone \in SUBSET Merged(gc.policy) :
        LET old == SurplusSnaps(gc.policy, gc.active) IN
        /\ rows' = {r \in rows : r.id \notin gc.doomed /\ r.br \notin gone}
        /\ snaps' = [s \in SnapIds |-> IF s \in old THEN Gone ELSE snaps[s]]
        /\ branches' = [b \in BranchIds |-> IF b \in gone THEN Gone ELSE branches[b]]
  /\ gc' = IF HasBlobs /\ gc.policy.blobs
           THEN [at |-> "blobs", suspects |-> gc.freed \cup blobs]
           ELSE Idle
  /\ UNCHANGED <<alive, nextId, blobs, op, passes>>

\* One suspect after the other: is it referenced, and then unlink.
MutReferenced(c) == \E r \in rows : r.content = c /\ r.br = NULL   \* mutant: rows of main only
Referenced(c) == \E r \in rows : r.content = c

GcCheck(c) ==
  /\ gc.at = "blobs" /\ c \in gc.suspects
  /\ LET rest == gc.suspects \ {c}
     IN gc' = IF Referenced(c) THEN [at |-> "blobs", suspects |-> rest]
              ELSE [at |-> "unlink", suspects |-> rest, blob |-> c]
  /\ UNCHANGED <<alive, rows, nextId, blobs, snaps, branches, op, passes>>

GcUnlink ==
  /\ gc.at = "unlink"
  /\ blobs' = blobs \ {gc.blob}
  /\ gc' = [at |-> "blobs", suspects |-> gc.suspects]
  /\ UNCHANGED <<alive, rows, nextId, snaps, branches, op, passes>>

\* The pass is through, or its request is lost (which before the transaction
\* leaves no trace).
GcEnd ==
  /\ gc.at \in {"blobs", "unlink"}
  /\ gc' = Idle
  /\ UNCHANGED <<alive, rows, nextId, blobs, snaps, branches, op, passes>>

WriterStep(w) ==
  \/ PutBlob(w) \/ InsertRow(w) \/ SnapInsert(w) \/ BranchInsert(w)
  \/ MergeRead(w) \/ MergeVersion(w) \/ MergeWrite(w) \/ LoseOp(w)
  \/ \E b \in Lines : \/ DeleteRead(w, b) \/ SnapCapture(w, b)
                      \/ \E c \in Contents : PutRead(w, b, c)
  \/ \E b \in BranchIds : MergeCheck(w, b)
  \/ \E s \in SnapIds : BranchCheck(w, s)

StorageNext ==
  \/ \E w \in Writers : WriterStep(w)
  \/ \E b \in BranchIds : DeleteBranch(b)
  \/ \E p \in Policies : GcStart(p)
  \/ \E c \in Contents : GcCheck(c)
  \/ GcRows \/ GcWrite \/ GcUnlink \/ GcEnd \/ DeleteWorkspace

StorageSpec == StorageInit /\ [][StorageNext]_storageVars
--------------------------------------------------------------------------------
(***************************************************************************)
(* Properties.                                                             *)
(***************************************************************************)
\* A snapshot of main taken while no pass ran can always be read back: however
\* rows are trimmed, deleted, merged and renumbered, main has a row with the
\* version and the content that was captured.
SnapshotSafe ==
  \A s \in SnapIds : LiveSnap(s) /\ snaps[s].clean /\ snaps[s].br = NULL
    => snaps[s].ver = 0 \/ \E r \in AtVer(NULL, snaps[s].ver) :
                             r.content = snaps[s].content

\* A file version written while no pass ran keeps its bytes, also when they are
\* shared with versions that are trimmed or with branches that are deleted.
BlobBacked ==
  HasBlobs => \A r \in rows : r.clean /\ ~Deleted(r) => r.content \in blobs

\* A branch made while no pass ran can be read until it is merged: the collector
\* does not take its snapshot away.
BranchHasSnapshot ==
  alive => \A b \in Unmerged : branches[b].clean => LiveSnap(branches[b].from)

\* What a snapshot or a branch pins stays readable: the rows and the snapshots
\* the collector must not take.
PinsReadable == SnapshotSafe /\ BranchHasSnapshot

\* With keep_versions set, a pass never lowers the newest version of a timeline
\* it leaves standing, whatever was written since it read the rows: numbers are
\* not given out twice and no older value comes back.
GcKeepsNewest ==
  [][GcWrite /\ gc.policy.versions # NULL
       => \A b \in Lines : (b # NULL => LiveBranch(b)')
                             => MaxVer(b)' = MaxVer(b)]_storageVars

\* A branch reads what its snapshot pinned until it writes itself
\* (02-workspace-design.md).
BranchReadsSnapshot ==
  Quiet => \A b \in Unmerged :
    branches[b].clean /\ LiveSnap(branches[b].from) /\ snaps[branches[b].from].clean
      => \A r \in Fallthrough(b) : r.content = snaps[branches[b].from].content
================================================================================
