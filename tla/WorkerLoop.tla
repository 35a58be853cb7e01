------------------------------- MODULE WorkerLoop -------------------------------
(***************************************************************************)
(* The workflow workers (worker.py, worker-ts/src/worker.ts) around one    *)
(* step: slots that poll, lease and run, the heartbeat of each leased      *)
(* step, graceful shutdown and crashes, and the worker registry of the     *)
(* workspace service (leases.py).                                          *)
(*                                                                         *)
(* Here a call of the lease API is one action: LeaseStore splits them and  *)
(* LeaseStoreProofs shows that the lease row moves as if they were atomic. *)
(* A slot polls and leases in one action, since a lease it does not get    *)
(* changes nothing.  As in ResourceLocks, times are what is left of a TTL. *)
(*                                                                         *)
(* timely says whether the calls of a living worker get through before its *)
(* lease expires, which heartbeat_interval < lease_ttl intends; a property *)
(* holds in both cases unless it says otherwise.                           *)
(***************************************************************************)
EXTENDS Integers, FiniteSets

CONSTANTS Workers,     \* worker processes
          Python,      \* those that run worker.py; the others run worker.ts
          Slots,       \* concurrency: the slot tasks of a worker
          Ttl,         \* lease_ttl
          MaxAttempts  \* max_attempts of the step

ASSUME WorkerAssumption == /\ Python \subseteq Workers
                           /\ Ttl \in Nat \ {0}
                           /\ MaxAttempts \in Nat \ {0}

VARIABLES timely,    \* do calls get through in time
          step,      \* workflow_steps.status of the step
          tries,     \* workflow_steps.attempt
          lease,     \* its row of workflow_step_leases
          phase,     \* the life of each worker process
          slot,      \* its slot tasks
          beat,      \* its lease heartbeats, one per slot
          registry   \* its row of the workers table

workVars == <<timely, step, tries, lease, phase, slot, beat, registry>>
stepVars == <<step, tries, lease>>
procVars == <<phase, slot, beat>>

NoLease == [status |-> "none"]   \* the step has no lease row yet

WorkerTypeOK ==
  /\ timely \in BOOLEAN
  /\ step \in {"pending", "running", "completed", "failed"}
  /\ tries \in 1..MaxAttempts
  /\ lease \in [worker: Workers, status: {"running", "released", "expired"},
                left: -1..Ttl] \cup {NoLease}
  /\ phase \in [Workers -> {"new", "up", "stopping", "cancelled", "drained",
                            "dead"}]
  /\ slot \in [Workers -> [Slots -> {"idle", "handler", "completed", "failed",
                                     "out"}]]
  /\ beat \in [Workers -> [Slots -> BOOLEAN]]
  /\ registry \in [Workers -> {"none", "active", "draining", "gone"}]

WorkerInit ==
  /\ timely \in BOOLEAN
  /\ step = "pending" /\ tries = 1 /\ lease = NoLease
  /\ phase = [w \in Workers |-> "new"]
  /\ slot = [w \in Workers |-> [i \in Slots |-> "out"]]
  /\ beat = [w \in Workers |-> [i \in Slots |-> FALSE]]
  /\ registry = [w \in Workers |-> "none"]

Row(w, st, t) == [worker |-> w, status |-> st, left |-> t]
LeasedBy(w) == lease # NoLease /\ lease.worker = w
Running(w) == LeasedBy(w) /\ lease.status = "running"
Active == lease.status = "running" /\ lease.left > 0
Stale == lease.status = "running" /\ lease.left < 0
SetSlot(w, i, at) == slot' = [slot EXCEPT ![w][i] = at]
SetBeat(w, i, b) == beat' = [beat EXCEPT ![w][i] = b]
MutAllOut(w) == \E i \in Slots : slot[w][i] = "out"   \* mutant: awaits the first slot only
AllOut(w) == \A i \in Slots : slot[w][i] = "out"
--------------------------------------------------------------------------------
(* Start: register the worker, then start its slots.                       *)
Register(w) ==
  /\ phase[w] = "new"
  /\ phase' = [phase EXCEPT ![w] = "up"]
  /\ slot' = [slot EXCEPT ![w] = [i \in Slots |-> "idle"]]
  /\ registry' = [registry EXCEPT ![w] = "active"]
  /\ UNCHANGED <<timely, stepVars, beat>>

\* A Python slot whose refresh fails after the lease goes back to polling
\* without a handler or a heartbeat; worker.ts goes on with its snapshot.
MutClaimable == step \in {"pending", "running"}   \* mutant: a running step is offered
Claimable == step = "pending" /\ ~Active

Claim(w, i) ==
  /\ phase[w] = "up" /\ slot[w][i] = "idle"
  /\ Claimable
  /\ step' = "running"
  /\ lease' = Row(w, "running", Ttl)
  /\ \/ SetSlot(w, i, "handler") /\ SetBeat(w, i, TRUE)
     \/ w \in Python /\ UNCHANGED <<slot, beat>>
  /\ UNCHANGED <<timely, tries, phase, registry>>

\* worker.py stops and awaits the heartbeat before it releases, worker.ts clears
\* its timer afterwards.
HandlerEnds(w, i, outcome) ==
  /\ slot[w][i] = "handler"
  /\ SetSlot(w, i, outcome)
  /\ SetBeat(w, i, w \notin Python)
  /\ UNCHANGED <<timely, stepVars, phase, registry>>

\* release_lease asks for the worker's id only.
Releasable(w) == LeasedBy(w)

Retried(outcome) == outcome = "failed" /\ tries < MaxAttempts

ReleaseStep(w, outcome) ==
  /\ step' = IF Retried(outcome) THEN "pending" ELSE outcome
  /\ tries' = IF Retried(outcome) THEN tries + 1 ELSE tries
  /\ lease' = Row(w, "released", 0)

\* _safe_release swallows a refusal and a call that did not get through.
ReleaseLease(w, i) ==
  /\ slot[w][i] \in {"completed", "failed"}
  /\ \/ Releasable(w) /\ ReleaseStep(w, slot[w][i])
     \/ (Releasable(w) => ~timely) /\ UNCHANGED stepVars
  /\ SetSlot(w, i, IF phase[w] = "up" THEN "idle" ELSE "out")
  /\ SetBeat(w, i, FALSE)
  /\ UNCHANGED <<timely, phase, registry>>

\* A heartbeat that is refused ends the loop of worker.py and is only logged by
\* worker.ts; so does one that does not get through.
Heartbeat(w, i) ==
  /\ beat[w][i]
  /\ \/ Running(w) /\ lease' = [lease EXCEPT !.left = Ttl] /\ UNCHANGED beat
     \/ /\ Running(w) => ~timely
        /\ SetBeat(w, i, w \notin Python)
        /\ UNCHANGED lease
  /\ UNCHANGED <<timely, step, tries, phase, slot, registry>>
--------------------------------------------------------------------------------
(* Shutdown.  stop() only sets a flag.  worker.py cancels its slot tasks:  *)
(* a cancelled handler is neither awaited nor released, and nobody stops   *)
(* its heartbeat until the process exits.                                  *)
Stop(w) ==
  /\ phase[w] = "up"
  /\ phase' = [phase EXCEPT ![w] = "stopping"]
  /\ UNCHANGED <<timely, stepVars, slot, beat, registry>>

Cancelled(at) == IF at = "handler" THEN "out" ELSE at

CancelSlots(w) ==
  /\ w \in Python /\ phase[w] = "stopping"
  /\ phase' = [phase EXCEPT ![w] = "cancelled"]
  /\ slot' = [slot EXCEPT ![w] = [i \in Slots |-> Cancelled(slot[w][i])]]
  /\ UNCHANGED <<timely, stepVars, beat, registry>>

SlotEnds(w, i) ==
  /\ phase[w] \in {"stopping", "cancelled"} /\ slot[w][i] = "idle"
  /\ SetSlot(w, i, "out")
  /\ UNCHANGED <<timely, stepVars, phase, beat, registry>>

\* The slots are awaited, then the worker is drained; a failing drain call is
\* swallowed.
Drain(w) ==
  /\ phase[w] = IF w \in Python THEN "cancelled" ELSE "stopping"
  /\ AllOut(w)
  /\ phase' = [phase EXCEPT ![w] = "drained"]
  /\ \/ registry' = [registry EXCEPT ![w] = "draining"]
     \/ ~timely /\ UNCHANGED registry
  /\ UNCHANGED <<timely, stepVars, slot, beat>>

\* The process ends, after run() returned or at any moment before.
Die(w) ==
  /\ phase' = [phase EXCEPT ![w] = "dead"]
  /\ slot' = [slot EXCEPT ![w] = [i \in Slots |-> "out"]]
  /\ beat' = [beat EXCEPT ![w] = [i \in Slots |-> FALSE]]
  /\ UNCHANGED <<timely, stepVars, registry>>

Crash(w) == phase[w] \in {"up", "stopping", "cancelled"} /\ Die(w)
Exit(w) == phase[w] = "drained" /\ Die(w)
--------------------------------------------------------------------------------
(* The registry and the reaper loop.  A worker's heartbeat only moves      *)
(* last_heartbeat_at, whose age is left out: an active worker may be found *)
(* silent at any time.                                                     *)
Listed(w) == registry[w] = "active"

MarkInactive(w) ==
  /\ Listed(w)
  /\ registry' = [registry EXCEPT ![w] = "gone"]
  /\ UNCHANGED <<timely, stepVars, procVars>>

MutReclaimed == step   \* mutant: the lease expires alone
Reclaimed == IF step = "running" THEN "pending" ELSE step

Sweep ==
  /\ Stale
  /\ lease' = Row(lease.worker, "expired", 0)
  /\ step' = Reclaimed
  /\ UNCHANGED <<timely, tries, procVars, registry>>

\* With timely calls a lease does not run out while its heartbeat lives or its
\* release is due.
Attended == \E w \in Workers, i \in Slots :
              Running(w) /\ (beat[w][i] \/ slot[w][i] \in {"completed", "failed"})

LeaseTick ==
  /\ lease.status = "running" /\ lease.left >= 0
  /\ timely /\ Attended => lease.left > 1
  /\ lease' = [lease EXCEPT !.left = @ - 1]
  /\ UNCHANGED <<timely, step, tries, procVars, registry>>

SlotStep(w, i) ==
  \/ Claim(w, i) \/ ReleaseLease(w, i) \/ Heartbeat(w, i) \/ SlotEnds(w, i)
  \/ \E o \in {"completed", "failed"} : HandlerEnds(w, i, o)

WorkerStep(w) == Register(w) \/ Stop(w) \/ CancelSlots(w) \/ Drain(w) \/ Exit(w)

WorkerNext ==
  \/ \E w \in Workers :
       \/ WorkerStep(w) \/ Crash(w) \/ MarkInactive(w)
       \/ \E i \in Slots : SlotStep(w, i)
  \/ Sweep \/ LeaseTick

WorkerSpec == WorkerInit /\ [][WorkerNext]_workVars
--------------------------------------------------------------------------------
(***************************************************************************)
(* Properties.                                                             *)
(***************************************************************************)
Settled == step \in {"completed", "failed"}
Working(w, i) == slot[w][i] = "handler"

\* With timely calls a step is never run by two handlers at once, whatever
\* slots, workers, cancellations and crashes do.
OneHandler ==
  timely => Cardinality({p \in Workers \X Slots : Working(p[1], p[2])}) <= 1

\* A worker.ts that drained holds no lease any more: stop() lets every slot
\* finish and release its step.
DrainedHoldsNothing ==
  timely => \A w \in Workers \ Python : phase[w] = "drained" => ~Running(w)

\* A worker that shut down gracefully is listed as draining from then on: the
\* reaper does not turn it into one that was lost.
DrainIsRecorded ==
  timely => \A w \in Workers : phase[w] = "drained" => registry[w] = "draining"

\* A worker that drained left nothing behind: neither a lease that runs nor a
\* registry entry that looks alive.
DrainIsClean == DrainedHoldsNothing /\ DrainIsRecorded

\* A step nobody works on any more (crash, cancellation, a release that got
\* lost) does not stay running: it is settled or offered again.
Abandoned == step = "running"
               /\ \A w \in Workers, i \in Slots : slot[w][i] \in {"idle", "out"}
AbandonedStepReturns == Abandoned ~> ~Abandoned
================================================================================
