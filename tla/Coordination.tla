------------------------------ MODULE Coordination ------------------------------
(***************************************************************************)
(* What the processes of a deployment coordinate by, side by side: the     *)
(* resource locks, the leases of the workers and the schema migrations.    *)
(* They share no state; a behaviour of all is one of each.                 *)
(***************************************************************************)
EXTENDS ResourceLocks, WorkerLoop, Migrations

CoordinationSpec == LockSpec /\ WorkerSpec /\ MigrationsSpec

\* Locks, promises and pending calls, workers, slots and leases, and migrations
\* are what the modules say they are, and a step has one handler at a time.
CoordinationSound == LockTypeOK /\ WorkerTypeOK /\ MigrationsTypeOK /\ OneHandler
================================================================================
