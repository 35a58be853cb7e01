------------------------------- MODULE LeaseStore -------------------------------
(***************************************************************************)
(* Step leases of the workspace service (leases.py) over the workflow log: *)
(* workers acquire, heartbeat and release a lease on a pending step, and a *)
(* reaper returns the steps of dead workers to the pool.                   *)
(*                                                                         *)
(* As in WorkflowStore a handler is a few separate reads and one write;    *)
(* req[r] is a handler working for a worker.  A worker may have several    *)
(* requests under way: it heartbeats while its handler runs, and a request *)
(* it gave up on may still be served.  acquire_lease is the exception: it  *)
(* reads the workflow row first and does the rest in BEGIN IMMEDIATE.      *)
(* No coordination backend is configured here.                             *)
(***************************************************************************)
EXTENDS WorkflowStore

CONSTANTS
  Workers,
  Requests,   \* lease requests in flight at the same time
  Ttls,       \* lease TTLs the workers ask for
  Outcomes,   \* statuses the workers release a step with
  Horizon     \* bound on expires_at

ASSUME LeaseAssumption ==
  /\ NULL \notin Workers
  /\ Ttls \subseteq Nat \ {0}
  /\ Outcomes \subseteq {"completed", "failed", "cancelled", "pending"}
  /\ Horizon \in Nat

VARIABLES
  leaseStatus,  \* workflow_step_leases.status; "none" while there is no row
  leaseWorker,  \* workflow_step_leases.worker_id
  acquiredAt,   \* workflow_step_leases.acquired_at
  expiresAt,    \* workflow_step_leases.expires_at
  req,          \* the lease handlers in flight
  sweep         \* rows the reaper selected and has not written yet

leaseRowVars == <<leaseStatus, leaseWorker, acquiredAt, expiresAt>>
leaseVars == <<leaseRowVars, req, sweep>>
vars == <<workflowVars, leaseVars>>

LeaseStatuses == {"none", "running", "released", "expired"}
RequestPoints == {"idle", "acquireTxn", "heartbeatWrite",
                  "releaseLease", "releaseRow", "releaseWrite"}
Request == [at     : RequestPoints,
            step   : Steps \cup {NULL},
            worker : Workers \cup {NULL},
            status : Outcomes \cup {"none"},
            ttl    : Nat,
            wf     : WfStatuses \cup {"none"},  \* workflow status as read
            att    : Nat,                       \* attempt as read
            ts     : Nat]                       \* now_utc() of the handler

NoRequest == [at |-> "idle", step |-> NULL, worker |-> NULL, status |-> "none",
              ttl |-> 0, wf |-> "none", att |-> 0, ts |-> 0]

(* Types of the lease columns, of the requests in flight and of the sweep. *)
LeaseTypeOK ==
  /\ WorkflowTypeOK
  /\ leaseStatus \in [Steps -> LeaseStatuses]
  /\ leaseWorker \in [Steps -> Workers \cup {NULL}]
  /\ acquiredAt \in [Steps -> Nat]
  /\ expiresAt \in [Steps -> Nat]
  /\ req \in [Requests -> Request]
  /\ sweep \in SUBSET Steps

LeaseInit ==
  /\ WorkflowInit
  /\ leaseStatus = [s \in Steps |-> "none"]
  /\ leaseWorker = [s \in Steps |-> NULL]
  /\ acquiredAt = [s \in Steps |-> 0]
  /\ expiresAt = [s \in Steps |-> 0]
  /\ req = [r \in Requests |-> NoRequest]
  /\ sweep = {}

--------------------------------------------------------------------------------
(* POST .../lease: the workflow row is read before BEGIN IMMEDIATE.        *)
AcquireStart(r) ==
  /\ req[r].at = "idle"
  /\ \E s \in Steps, w \in Workers, ttl \in Ttls :
       /\ Exists(s)
       /\ now + ttl <= Horizon
       /\ req' = [req EXCEPT ![r] = [NoRequest EXCEPT !.at = "acquireTxn",
                    !.step = s, !.worker = w, !.ttl = ttl, !.wf = wfStatus]]
  /\ UNCHANGED <<workflowVars, leaseRowVars, sweep>>

(* An active lease refuses the acquire; any other row is overwritten.      *)
MutLeaseFree(s) == TRUE   \* mutant: the active lease is not looked at
LeaseFree(s) == ~(leaseStatus[s] = "running" /\ expiresAt[s] > now)

AcquireTxn(r) ==
  LET s == req[r].step IN
  /\ req[r].at = "acquireTxn"
  /\ stepStatus[s] = "pending"
  /\ LeaseFree(s)
  /\ now + req[r].ttl <= Horizon
  /\ leaseStatus' = [leaseStatus EXCEPT ![s] = "running"]
  /\ leaseWorker' = [leaseWorker EXCEPT ![s] = req[r].worker]
  /\ acquiredAt' = [acquiredAt EXCEPT ![s] = now]
  /\ expiresAt' = [expiresAt EXCEPT ![s] = now + req[r].ttl]
  /\ stepStatus' = [stepStatus EXCEPT ![s] = "running"]
  /\ wfStatus' = StatusOnStart(req[r].wf)
  /\ req' = [req EXCEPT ![r] = NoRequest]
  /\ UNCHANGED <<stepName, attempt, retryLimit, nextRetry, replayOf, dlqVars, call, now, sweep>>

AcquireRefused(r) ==
  /\ req[r].at = "acquireTxn"
  /\ stepStatus[req[r].step] # "pending" \/ ~LeaseFree(req[r].step)
  /\ req' = [req EXCEPT ![r] = NoRequest]
  /\ UNCHANGED <<workflowVars, leaseRowVars, sweep>>

(* POST .../heartbeat: the lease row is checked when it is read; the new   *)
(* expiry is computed from what was read.  Without a TTL in the request    *)
(* the TTL is the row's expires_at - acquired_at, at least 1.              *)
HeldTtl(s) == IF expiresAt[s] > acquiredAt[s] THEN expiresAt[s] - acquiredAt[s] ELSE 1

HeartbeatRead(r) ==
  /\ req[r].at = "idle"
  /\ \E s \in Steps, w \in Workers :
       /\ leaseStatus[s] = "running"
       /\ leaseWorker[s] = w
       /\ \E ttl \in Ttls \cup {HeldTtl(s)} :
            /\ now + ttl <= Horizon
            /\ req' = [req EXCEPT ![r] = [NoRequest EXCEPT !.at = "heartbeatWrite",
                         !.step = s, !.worker = w, !.ttl = ttl, !.ts = now]]
  /\ UNCHANGED <<workflowVars, leaseRowVars, sweep>>

(* UPDATE ... WHERE step_id: whatever the row has become since.            *)
HeartbeatWrite(r) ==
  /\ req[r].at = "heartbeatWrite"
  /\ expiresAt' = [expiresAt EXCEPT ![req[r].step] = req[r].ts + req[r].ttl]
  /\ req' = [req EXCEPT ![r] = NoRequest]
  /\ UNCHANGED <<workflowVars, leaseStatus, leaseWorker, acquiredAt, sweep>>

(* POST .../release: workflow row, lease row (which must name the worker;  *)
(* its status is not examined), step row, then one transaction.            *)
ReleaseStart(r) ==
  /\ req[r].at = "idle"
  /\ \E s \in Steps, w \in Workers, status \in Outcomes :
       /\ leaseStatus[s] # "none"
       /\ req' = [req EXCEPT ![r] = [NoRequest EXCEPT !.at = "releaseLease",
                    !.step = s, !.worker = w, !.status = status, !.wf = wfStatus]]
  /\ UNCHANGED <<workflowVars, leaseRowVars, sweep>>

ReleaseLease(r) ==
  /\ req[r].at = "releaseLease"
  /\ req' = [req EXCEPT ![r] = IF leaseWorker[req[r].step] = req[r].worker
                               THEN [req[r] EXCEPT !.at = "releaseRow"]
                               ELSE NoRequest]
  /\ UNCHANGED <<workflowVars, leaseRowVars, sweep>>

ReleaseRow(r) ==
  /\ req[r].at = "releaseRow"
  /\ req' = [req EXCEPT ![r].at = "releaseWrite",
                        ![r].att = attempt[req[r].step], ![r].ts = now]
  /\ UNCHANGED <<workflowVars, leaseRowVars, sweep>>

MutMarkReleased(s) ==   \* mutant: a re-queued step keeps its lease
  leaseStatus' = [leaseStatus EXCEPT ![s] = IF stepStatus'[s] = "pending" THEN @ ELSE "released"]
MarkReleased(s) == leaseStatus' = [leaseStatus EXCEPT ![s] = "released"]

Requeue(s) ==
  /\ stepStatus' = [stepStatus EXCEPT ![s] = "pending"]
  /\ UNCHANGED <<stepName, attempt, retryLimit, nextRetry, replayOf, dlqVars>>

ReleaseWrite(r) ==
  LET s == req[r].step IN
  /\ req[r].at = "releaseWrite"
  /\ IF req[r].status = "pending" THEN Requeue(s)
     ELSE WriteOutcome(s, req[r].status, req[r].att, req[r].ts)
  /\ MarkReleased(s)
  /\ MaybeUpdateWorkflowStatus(req[r].wf)
  /\ req' = [req EXCEPT ![r] = NoRequest]
  /\ UNCHANGED <<leaseWorker, acquiredAt, expiresAt, call, now, sweep>>

(* A lease handler is lost between two of its statements.                  *)
AbortRequest(r) ==
  /\ req[r].at # "idle"
  /\ req' = [req EXCEPT ![r] = NoRequest]
  /\ UNCHANGED <<workflowVars, leaseRowVars, sweep>>

--------------------------------------------------------------------------------
(* expire_stale_leases: select the running leases past their expiry, then  *)
(* flip the selected rows, and the steps still running, in one transaction *)
MutStale(s) == leaseStatus[s] = "released" /\ expiresAt[s] < now   \* mutant: wrong status
Stale(s) == leaseStatus[s] = "running" /\ expiresAt[s] < now

MutReverted(s) == stepStatus[s]   \* mutant: the step is not reverted
Reverted(s) == IF stepStatus[s] = "running" THEN "pending" ELSE stepStatus[s]

SweepSelect ==
  /\ sweep = {}
  /\ sweep' = {s \in Steps : Stale(s)}
  /\ sweep' # {}
  /\ UNCHANGED <<workflowVars, leaseRowVars, req>>

SweepWrite ==
  /\ sweep # {}
  /\ leaseStatus' = [s \in Steps |-> IF s \in sweep THEN "expired" ELSE leaseStatus[s]]
  /\ stepStatus' = [s \in Steps |->
       IF s \in sweep THEN Reverted(s) ELSE stepStatus[s]]
  /\ sweep' = {}
  /\ UNCHANGED <<wfStatus, stepName, attempt, retryLimit, nextRetry, replayOf, dlqVars,
                 call, now, leaseWorker, acquiredAt, expiresAt, req>>

(* The sweep fails or the service restarts; the loop starts a new one.     *)
SweepAbort ==
  /\ sweep # {}
  /\ sweep' = {}
  /\ UNCHANGED <<workflowVars, leaseRowVars, req>>

--------------------------------------------------------------------------------
WorkerNext(r) ==
  \/ AcquireStart(r) \/ AcquireTxn(r) \/ AcquireRefused(r)
  \/ HeartbeatRead(r) \/ HeartbeatWrite(r)
  \/ ReleaseStart(r) \/ ReleaseLease(r) \/ ReleaseRow(r) \/ ReleaseWrite(r)
  \/ AbortRequest(r)

Next ==
  \/ WorkflowNext /\ UNCHANGED leaseVars
  \/ Tick /\ UNCHANGED leaseVars
  \/ \E r \in Requests : WorkerNext(r)
  \/ SweepSelect \/ SweepWrite \/ SweepAbort

Spec == LeaseInit /\ [][Next]_vars

--------------------------------------------------------------------------------
(* As long as no caller PATCHes a step to 'running', a running step that   *)
(* was ever leased has a running lease: whatever requests were lost or     *)
(* overlapped, the reaper can still see every abandoned step.              *)
NoOrphanRunning ==
  \A s \in Steps : stepStatus[s] = "running" /\ leaseStatus[s] # "none"
                     => leaseStatus[s] = "running"

(* Without PATCHes of leased steps, the converse: a running lease belongs  *)
(* to a step that is running or was cancelled with its workflow, never to  *)
(* one that is back in the pool or finished.                               *)
HeldStepIsRunning ==
  \A s \in Steps : leaseStatus[s] = "running" =>
                     stepStatus[s] \in {"running", "cancelled"}

(* The service keeps the promises of StepLease about the two rows of a     *)
(* step: every transaction, however its handler was interleaved or cut     *)
(* short, moves the pair in one of the ways listed there, or not at all.   *)
Rows == INSTANCE StepLease WITH step <- stepStatus, lease <- leaseStatus
ImplementsStepLease == Rows!Spec

(* "While the lease is running and its expires_at is in the future, no     *)
(* other worker may take the step" (leases.py:6), even when a PATCH put    *)
(* the step back into the pool under the worker.                           *)
ActiveLeaseKept ==
  \A s \in Steps :
    leaseStatus[s] = "running" /\ expiresAt[s] > now /\ leaseStatus'[s] = "running"
      => leaseWorker'[s] = leaseWorker[s] /\ acquiredAt'[s] = acquiredAt[s]
ActiveLeaseNotTaken == [][ActiveLeaseKept]_vars

(* A leased step never stays 'running' for ever: if its worker is gone the *)
(* reaper puts it back.                                                    *)
LeasedStepIsReclaimed ==
  \A s \in Steps : (stepStatus[s] = "running" /\ leaseStatus[s] # "none")
                     ~> (stepStatus[s] # "running")
================================================================================
