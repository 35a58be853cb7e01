----------------------------- MODULE MCCoordination -----------------------------
(* Model checking ResourceLocks, WorkerLoop, Migrations and LeaseStore, with *)
(* the fairness their liveness needs: part chooses which of them a behaviour *)
(* runs.                                                                     *)
EXTENDS Coordination, TLC

CONSTANTS w1   \* the worker that runs worker.py

VARIABLE part

\* LeaseStore, of one step, with one worker, one request and one client that
\* PATCHes the leased step.
VARIABLES wfStatus, stepStatus, stepName, attempt, retryLimit, nextRetry, replayOf,
          letter, letterStep, call, now,
          leaseStatus, leaseWorker, acquiredAt, expiresAt, leaseReq, sweep

Leases == INSTANCE LeaseStore WITH
  Clients <- {"c1"}, Steps <- {"s1"}, Names <- {"n1"}, Letters <- {"d1"},
  RetryLimits <- {2}, Delays <- {0}, PatchStatuses <- {"failed"}, MaxNow <- 4,
  Workers <- {"w1"}, Requests <- {"r1"}, Ttls <- {1}, Horizon <- 3,
  Outcomes <- {"failed"}, req <- leaseReq

leaseVars == <<leaseStatus, leaseWorker, acquiredAt, expiresAt, leaseReq, sweep>>
storeVars == <<wfStatus, stepStatus, stepName, attempt, retryLimit, nextRetry, replayOf,
               letter, letterStep, call, now, leaseVars>>

OneTtl == {1}
PythonWorker == {w1}

\* The third migration adds columns to the second one's table.
Parents == <<0, 0, 2>>

Init ==
  /\ LockInit /\ WorkerInit /\ MigrationsInit /\ Leases!LeaseInit
  /\ \/ part = "locks" /\ timely /\ made = {}
     \/ part \in {"workers", "leases"} /\ clustered /\ made = {}
     \/ part = "migrations" /\ clustered /\ timely
  /\ part = "leases" => timely

\* The registry steers nothing else: a worker is found silent only where the
\* step is never leased.
WithinBounds == \A w \in Workers : registry[w] = "gone" => lease = NoLease

Next ==
  /\ UNCHANGED part
  /\ \/ /\ part = "locks" /\ LockNext
        /\ UNCHANGED <<workVars, migVars, storeVars>>
     \/ /\ part = "workers" /\ WorkerNext /\ WithinBounds'
        /\ UNCHANGED <<lockVars, migVars, storeVars>>
     \/ /\ part = "migrations" /\ MigrationsNext
        /\ UNCHANGED <<lockVars, workVars, storeVars>>
     \/ /\ part = "leases" /\ Leases!Next
        /\ UNCHANGED <<lockVars, workVars, migVars>>

\* A call in flight goes on or is lost, time passes, the reaper loop keeps
\* running, and a worker that was told to stop comes to its end.  Of the lease
\* routes nothing is assumed, and of the reaper's sweeps that not every one is
\* cut short.
Locks(A) == part = "locks" /\ A
Work(A) == part = "workers" /\ A
Store(A) == part = "leases" /\ A

Fairness ==
  /\ WF_lockVars(Locks(LockTick))
  /\ \A q \in Requests : WF_lockVars(Locks(HandlerStep(q)))
  /\ \A r \in Replicas : WF_lockVars(Locks(SweepStep(r)))
  /\ WF_workVars(Work(LeaseTick)) /\ WF_workVars(Work(Sweep))
  /\ \A w \in Workers :
       /\ WF_workVars(Work(Exit(w))) /\ WF_workVars(Work(Drain(w)))
       /\ \A i \in Slots : /\ WF_workVars(Work(SlotEnds(w, i)))
                           /\ WF_workVars(Work(ReleaseLease(w, i)))
  /\ WF_storeVars(Store(Leases!Tick /\ UNCHANGED leaseVars))
  /\ WF_storeVars(Store(Leases!SweepSelect)) /\ SF_storeVars(Store(Leases!SweepWrite))

\* Neither the lock of a holder that vanished stays, nor a step that nobody
\* works on any more, nor a leased step that is 'running'.
NothingIsStuck ==
  LapsedLockGoes /\ AbandonedStepReturns /\ Leases!LeasedStepIsReclaimed

\* An active lease is never taken over, also when a client's PATCH put the step
\* back into the pool under the worker (leases.py:461).
ActiveLeaseNotTaken == [][Leases!ActiveLeaseKept]_storeVars

Spec == Init /\ [][Next]_<<part, lockVars, workVars, migVars, storeVars>> /\ Fairness
================================================================================
