-------------------------------- MODULE StepLease --------------------------------
(***************************************************************************)
(* What the workspace service promises about one row of workflow_steps and *)
(* its row of workflow_step_leases: the moves the pair makes, each of them *)
(* in one transaction.  How handlers read, wait and fail is left out.      *)
(***************************************************************************)
EXTENDS TLAPS

CONSTANTS Steps,
          PatchStatuses   \* statuses a caller may PATCH a step to

VARIABLES step,   \* status of the step row, "none" before it exists
          lease   \* status of the lease row, "none" before it exists

Settled == {"completed", "failed", "cancelled"}

Init == step = [s \in Steps |-> "none"] /\ lease = [s \in Steps |-> "none"]

Create(s) ==
  /\ step[s] = "none"
  /\ \E status \in {"pending", "running"} : step' = [step EXCEPT ![s] = status]
  /\ UNCHANGED lease

Acquire(s) ==
  /\ step[s] = "pending"
  /\ step' = [step EXCEPT ![s] = "running"]
  /\ lease' = [lease EXCEPT ![s] = "running"]

(* The worker reports an outcome, or gives the step back.                  *)
Release(s) ==
  /\ lease[s] # "none"
  /\ \E status \in Settled \cup {"pending"} : step' = [step EXCEPT ![s] = status]
  /\ lease' = [lease EXCEPT ![s] = "released"]

(* A client sets the status; a failure with attempts left means 'pending'. *)
Patch(s) ==
  /\ step[s] # "none"
  /\ \E status \in PatchStatuses :
       \/ step' = [step EXCEPT ![s] = status]
       \/ status = "failed" /\ step' = [step EXCEPT ![s] = "pending"]
  /\ UNCHANGED lease

Cancel ==
  /\ step' = [s \in Steps |-> IF step[s] = "running" THEN "cancelled" ELSE step[s]]
  /\ UNCHANGED lease

Reclaim(S) ==
  /\ \A s \in S : lease[s] # "none"
  /\ step' = [s \in Steps |-> IF s \in S /\ step[s] = "running" THEN "pending" ELSE step[s]]
  /\ lease' = [s \in Steps |-> IF s \in S THEN "expired" ELSE lease[s]]

Next ==
  \/ \E s \in Steps : Create(s) \/ Acquire(s) \/ Release(s) \/ Patch(s)
  \/ Cancel
  \/ \E S \in SUBSET Steps : Reclaim(S)

Spec == Init /\ [][Next]_<<step, lease>>

--------------------------------------------------------------------------------
(* A running step that was ever leased has a running lease, so the reaper  *)
(* sees it.                                                                *)
NoOrphan == \A s \in Steps : step[s] = "running" /\ lease[s] # "none" => lease[s] = "running"

(* A running lease is for a step that runs or was cancelled.               *)
HeldRuns == \A s \in Steps : lease[s] = "running" => step[s] \in {"running", "cancelled"}

Typed ==
  /\ step \in [Steps -> Settled \cup {"none", "pending", "running"}]
  /\ lease \in [Steps -> {"none", "running", "released", "expired"}]
LeasedExists == \A s \in Steps : lease[s] # "none" => step[s] # "none"

(* The rows keep their types and no lease row precedes its step row.       *)
THEOREM RowsTyped ==
  ASSUME PatchStatuses \subseteq Settled \cup {"running"}
  PROVE  Spec => [](Typed /\ LeasedExists)
<1> DEFINE Inv == Typed /\ LeasedExists
<1>1. Init => Inv
  BY DEF Init, Typed, LeasedExists, Settled
<1>2. Inv /\ [Next]_<<step, lease>> => Inv'
  <2> SUFFICES ASSUME Inv, [Next]_<<step, lease>> PROVE Inv'
    OBVIOUS
  <2> USE DEF Typed, LeasedExists, Settled
  <2>1. ASSUME NEW s \in Steps, Create(s) PROVE Inv'
    BY <2>1 DEF Create
  <2>2. ASSUME NEW s \in Steps, Acquire(s) PROVE Inv'
    BY <2>2 DEF Acquire
  <2>3. ASSUME NEW s \in Steps, Release(s) PROVE Inv'
    BY <2>3 DEF Release
  <2>4. ASSUME NEW s \in Steps, Patch(s) PROVE Inv'
    BY <2>4 DEF Patch
  <2>5. CASE Cancel
    BY <2>5 DEF Cancel
  <2>6. ASSUME NEW S \in SUBSET Steps, Reclaim(S) PROVE Inv'
    BY <2>6 DEF Reclaim
  <2>7. CASE UNCHANGED <<step, lease>>
    BY <2>7
  <2> QED BY <2>1, <2>2, <2>3, <2>4, <2>5, <2>6, <2>7 DEF Next
<1> QED BY <1>1, <1>2, PTL DEF Spec

(* If no client PATCHes a step to 'running', no leased step runs without a *)
(* running lease.                                                          *)
THEOREM NoOrphanCorrect ==
  ASSUME PatchStatuses \subseteq Settled
  PROVE  Spec => []NoOrphan
<1>1. Init => NoOrphan
  BY DEF Init, NoOrphan
<1>2. Typed /\ LeasedExists /\ NoOrphan /\ [Next]_<<step, lease>> => NoOrphan'
  <2> SUFFICES ASSUME Typed, LeasedExists, NoOrphan, [Next]_<<step, lease>>
               PROVE  NoOrphan'
    OBVIOUS
  <2> USE DEF Typed, LeasedExists, NoOrphan, Settled
  <2>1. ASSUME NEW s \in Steps, Create(s) PROVE NoOrphan'
    BY <2>1 DEF Create
  <2>2. ASSUME NEW s \in Steps, Acquire(s) PROVE NoOrphan'
    BY <2>2 DEF Acquire
  <2>3. ASSUME NEW s \in Steps, Release(s) PROVE NoOrphan'
    BY <2>3 DEF Release
  <2>4. ASSUME NEW s \in Steps, Patch(s) PROVE NoOrphan'
    BY <2>4 DEF Patch
  <2>5. CASE Cancel
    BY <2>5 DEF Cancel
  <2>6. ASSUME NEW S \in SUBSET Steps, Reclaim(S) PROVE NoOrphan'
    BY <2>6 DEF Reclaim
  <2>7. CASE UNCHANGED <<step, lease>>
    BY <2>7
  <2> QED BY <2>1, <2>2, <2>3, <2>4, <2>5, <2>6, <2>7 DEF Next
<1>3. PatchStatuses \subseteq Settled \cup {"running"}
  BY DEF Settled
<1> QED BY <1>1, <1>2, <1>3, RowsTyped, PTL DEF Spec

(* If no client PATCHes leased steps at all, a running lease is for a step *)
(* that runs or was cancelled: never for one back in the pool.             *)
THEOREM HeldRunsCorrect ==
  ASSUME PatchStatuses = {}
  PROVE  Spec => []HeldRuns
<1>1. Init => HeldRuns
  BY DEF Init, HeldRuns
<1>2. Typed /\ LeasedExists /\ HeldRuns /\ [Next]_<<step, lease>> => HeldRuns'
  <2> SUFFICES ASSUME Typed, LeasedExists, HeldRuns, [Next]_<<step, lease>>
               PROVE  HeldRuns'
    OBVIOUS
  <2> USE DEF Typed, LeasedExists, HeldRuns, Settled
  <2>1. ASSUME NEW s \in Steps, Create(s) PROVE HeldRuns'
    BY <2>1 DEF Create
  <2>2. ASSUME NEW s \in Steps, Acquire(s) PROVE HeldRuns'
    BY <2>2 DEF Acquire
  <2>3. ASSUME NEW s \in Steps, Release(s) PROVE HeldRuns'
    BY <2>3 DEF Release
  <2>4. ASSUME NEW s \in Steps, Patch(s) PROVE HeldRuns'
    BY <2>4 DEF Patch
  <2>5. CASE Cancel
    BY <2>5 DEF Cancel
  <2>6. ASSUME NEW S \in SUBSET Steps, Reclaim(S) PROVE HeldRuns'
    BY <2>6 DEF Reclaim
  <2>7. CASE UNCHANGED <<step, lease>>
    BY <2>7
  <2> QED BY <2>1, <2>2, <2>3, <2>4, <2>5, <2>6, <2>7 DEF Next
<1>3. PatchStatuses \subseteq Settled \cup {"running"}
  OBVIOUS
<1> QED BY <1>1, <1>2, <1>3, RowsTyped, PTL DEF Spec
================================================================================
