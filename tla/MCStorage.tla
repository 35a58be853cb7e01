------------------------------- MODULE MCStorage -------------------------------
(* Model checking Storage and Replication: part chooses which of them a      *)
(* behaviour runs, and Storage with which bounds.                            *)
EXTENDS WorkspaceStorage, TLC

VARIABLE part

Keep(versions, days, snapshots) ==
  [versions |-> versions, days |-> days, snapshots |-> snapshots, blobs |-> TRUE]

\* keep_versions alone; keep_days with keep_snapshots.
TwoPolicies == {Keep(1, FALSE, NULL), Keep(NULL, TRUE, 1)}

Symmetry == Permutations(Writers) \cup Permutations(Contents)

\* "deep": one handler at a time, up to four rows, snapshots and branches in
\* all.  "wide": two handlers, up to three rows and one snapshot or one pass.
Busy == Cardinality({w \in Writers : op[w] # Idle})
Taken == Cardinality({s \in SnapIds : snaps[s] # NULL})
Forked == Cardinality({b \in BranchIds : branches[b] # NULL})
WithinBounds ==
  \/ part = "deep" /\ Busy <= 1 /\ nextId - 1 + Taken + Forked <= 4
  \/ part = "wide" /\ nextId <= 4 /\ Taken + passes <= 1

Init == /\ part \in {"deep", "wide", "replication"}
        /\ StorageInit /\ ReplicationInit

Next ==
  /\ UNCHANGED part
  /\ \/ part # "replication" /\ StorageNext /\ WithinBounds' /\ UNCHANGED replVars
     \/ part = "replication" /\ ReplicationNext /\ UNCHANGED storageVars

Spec == Init /\ [][Next]_<<part, storageVars, replVars>>
================================================================================
