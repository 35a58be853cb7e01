--------------------------- MODULE WorkspaceStorage ---------------------------
(***************************************************************************)
(* The versioned storage of the workspace service and the replication log  *)
(* its mutations are copied by, side by side: an entry of the log stands   *)
(* for a mutation, whichever table it was made in.                         *)
(***************************************************************************)
EXTENDS Storage, Replication

WorkspaceStorageSpec == StorageSpec /\ ReplicationSpec

(* Rows, snapshots, branches and passes are what Storage says they are,    *)
(* and so are the regions' logs, where no mutation is twice: retried and   *)
(* overlapping pulls and a region that returns add none a second time.     *)
StorageSound == StorageTypeOK /\ ReplicationTypeOK /\ LoggedOnce
================================================================================
