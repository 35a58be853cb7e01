--------------------------- MODULE LeaseStoreProofs ---------------------------
(***************************************************************************)
(* Proofs about LeaseStore for every set of clients, requests, workers,    *)
(* steps and dead letters, every clock bound and every TTL.                *)
(***************************************************************************)
EXTENDS LeaseStore, TLAPS

(* What a handler in flight has stored by the time it uses it.             *)
CallFits(k) ==
  /\ k.at \in {"updateRow", "updateWrite"} =>
       k.step \in Steps /\ k.status \in PatchStatuses
  /\ k.at \in {"createMax", "createInsert"} =>
       k.status \in {"pending", "running"} /\ k.wf \in WfStatuses
CallShape == \A c \in Clients : CallFits(call[c])

RequestFits(q) ==
  /\ q.at # "idle" => q.step \in Steps /\ q.worker \in Workers
  /\ q.at = "acquireTxn" => q.wf \in WfStatuses
  /\ q.at \in {"releaseLease", "releaseRow", "releaseWrite"} => q.status \in Outcomes
RequestShape == \A r \in Requests : RequestFits(req[r])

LetterShape == \A l \in Letters : letter[l] # "none" => letterStep[l] \in Steps

TypeInv == LeaseTypeOK /\ CallShape /\ RequestShape /\ LetterShape

USE WorkflowAssumption, LeaseAssumption

LEMMA TypeInvInit == LeaseInit => TypeInv
  BY DEF LeaseInit, WorkflowInit, TypeInv, LeaseTypeOK, WorkflowTypeOK, CallShape, CallFits,
         RequestShape, RequestFits, LetterShape, Idle, NoRequest, Call, Request, CallPoints,
         RequestPoints, StepStatuses, WfStatuses, LetterStates, LeaseStatuses

(* One handler moving on leaves the others as they were.                   *)
LEMMA CallTyped ==
  ASSUME TypeInv, NEW c \in Clients, NEW k \in Call, CallFits(k), call' = [call EXCEPT ![c] = k]
  PROVE  call' \in [Clients -> Call] /\ CallShape'
  BY DEF TypeInv, LeaseTypeOK, WorkflowTypeOK, CallShape, CallFits

LEMMA RequestTyped ==
  ASSUME TypeInv, NEW r \in Requests, NEW q \in Request, RequestFits(q),
         req' = [req EXCEPT ![r] = q]
  PROVE  req' \in [Requests -> Request] /\ RequestShape'
  BY DEF TypeInv, LeaseTypeOK, RequestShape, RequestFits

LEMMA IdleTyped == /\ Idle \in Call /\ CallFits(Idle)
                   /\ NoRequest \in Request /\ RequestFits(NoRequest)
  BY DEF Idle, Call, CallPoints, CallFits, NoRequest, Request, RequestPoints, RequestFits

(* The columns the transactions write keep their types.                    *)
LEMMA OutcomeTyped ==
  ASSUME TypeInv, NEW s \in Steps, NEW status \in StepStatuses, NEW att \in Nat,
         NEW ts \in Nat, WriteOutcome(s, status, att, ts)
  PROVE  /\ stepStatus' \in [Steps -> StepStatuses \cup {"none"}]
         /\ attempt' \in [Steps -> Nat]
         /\ nextRetry' \in [Steps -> Nat]
         /\ letter' \in [Letters -> LetterStates]
         /\ letterStep' \in [Letters -> Steps \cup {NULL}]
         /\ LetterShape'
         /\ UNCHANGED <<stepName, retryLimit, replayOf>>
<1>1. CASE ShouldRetry(s, status, att)
  BY <1>1 DEF TypeInv, LeaseTypeOK, WorkflowTypeOK, LetterShape, WriteOutcome, RetryStep,
              StepStatuses, dlqVars
<1>2. CASE ~ShouldRetry(s, status, att) /\ status = "failed"
  BY <1>2 DEF TypeInv, LeaseTypeOK, WorkflowTypeOK, LetterShape, WriteOutcome, SettleStep,
              CopyStepToDlq, StepStatuses, LetterStates
<1>3. CASE ~ShouldRetry(s, status, att) /\ status # "failed"
  BY <1>3 DEF TypeInv, LeaseTypeOK, WorkflowTypeOK, LetterShape, WriteOutcome, SettleStep,
              StepStatuses, dlqVars
<1> QED BY <1>1, <1>2, <1>3

LEMMA WfStatusTyped ==
  ASSUME TypeInv, NEW seen, MaybeUpdateWorkflowStatus(seen)
  PROVE  wfStatus' \in WfStatuses
  BY DEF TypeInv, LeaseTypeOK, WorkflowTypeOK, MaybeUpdateWorkflowStatus, DerivedStatus,
         WfStatuses

(* A step that only moves call[c] to a well-formed record.                 *)
LEMMA CallOnly ==
  ASSUME TypeInv, NEW c \in Clients, NEW k \in Call, CallFits(k), call' = [call EXCEPT ![c] = k],
         UNCHANGED <<wfStatus, stepVars, dlqVars, now, leaseVars>>
  PROVE  TypeInv'
<1>1. call' \in [Clients -> Call] /\ CallShape'
  BY CallTyped
<1> QED
  BY <1>1 DEF TypeInv, LeaseTypeOK, WorkflowTypeOK, LetterShape, RequestShape, RequestFits,
              leaseVars, leaseRowVars, stepVars, dlqVars

LEMMA ClientTyped ==
  ASSUME TypeInv, NEW c \in Clients, ClientNext(c), UNCHANGED leaseVars
  PROVE  TypeInv'
<1>0. /\ call \in [Clients -> Call] /\ call[c] \in Call /\ CallFits(call[c])
      /\ wfStatus \in WfStatuses /\ attempt \in [Steps -> Nat] /\ now \in Nat
  BY DEF TypeInv, LeaseTypeOK, WorkflowTypeOK, CallShape
<1>1. CASE CreateStepStart(c)
  <2>1. PICK n \in Names, initial \in {"pending", "running"}, lim \in RetryLimits :
          call' = [call EXCEPT ![c] = [Idle EXCEPT !.at = "createMax", !.name = n,
                     !.status = initial, !.limit = lim, !.wf = wfStatus]]
    BY <1>1 DEF CreateStepStart
  <2> DEFINE k == [Idle EXCEPT !.at = "createMax", !.name = n,
                     !.status = initial, !.limit = lim, !.wf = wfStatus]
  <2>2. initial \in StepStatuses /\ wfStatus \in WfStatuses /\ "createMax" \in CallPoints
    BY <1>0 DEF CallPoints, StepStatuses
  <2>3. k \in Call
    BY IdleTyped, <2>2 DEF Call
  <2>4. CallFits(k)
    BY <2>2 DEF Idle, CallFits
  <2> QED BY <1>1, <2>1, <2>3, <2>4, CallOnly DEF CreateStepStart
<1>2. CASE CreateStepMax(c)
  <2>1. PICK m \in {0} \cup {attempt[s] : s \in RowsOf(call[c].name)} :
          call' = [call EXCEPT ![c].at = "createInsert", ![c].att = m]
    BY <1>2 DEF CreateStepMax
  <2> DEFINE k == [call[c] EXCEPT !.at = "createInsert", !.att = m]
  <2>2. m \in Nat
    BY <1>0, <2>1 DEF RowsOf
  <2>3. k \in Call /\ CallFits(k)
    BY <1>0, <1>2, <2>2 DEF CreateStepMax, Call, CallPoints, CallFits
  <2>4. call' = [call EXCEPT ![c] = k]
    BY <1>0, <2>1
  <2> QED BY <1>2, <2>3, <2>4, CallOnly DEF CreateStepMax
<1>3. CASE CreateStepInsert(c)
  <2> DEFINE k == IF call[c].letter = NULL THEN Idle
                  ELSE [Idle EXCEPT !.at = "replayDelete", !.letter = call[c].letter]
  <2>1. k \in Call /\ CallFits(k)
    BY <1>0 DEF Idle, Call, CallPoints, CallFits
  <2>2. call' \in [Clients -> Call] /\ CallShape'
    BY <1>3, <2>1, CallTyped DEF CreateStepInsert
  <2>3. wfStatus' \in WfStatuses
    BY <1>0, <1>3 DEF CreateStepInsert, StatusOnStart, WfStatuses
  <2>4. /\ call[c].status \in StepStatuses /\ call[c].name \in Names \cup {NULL}
        /\ call[c].att + 1 \in Nat /\ call[c].limit \in RetryLimits \cup {0}
        /\ call[c].letter \in Letters \cup {NULL}
    BY <1>0, <1>3 DEF CreateStepInsert, Call, CallFits, StepStatuses
  <2>5. /\ stepStatus' \in [Steps -> StepStatuses \cup {"none"}]
        /\ stepName' \in [Steps -> Names \cup {NULL}] /\ attempt' \in [Steps -> Nat]
        /\ retryLimit' \in [Steps -> RetryLimits \cup {0}]
        /\ replayOf' \in [Steps -> Letters \cup {NULL}]
    BY <1>3, <2>4 DEF CreateStepInsert, TypeInv, LeaseTypeOK, WorkflowTypeOK
  <2> QED
    BY <1>3, <2>2, <2>3, <2>5 DEF CreateStepInsert, TypeInv, LeaseTypeOK, WorkflowTypeOK,
       LetterShape, RequestShape, RequestFits, leaseVars, leaseRowVars, dlqVars
<1>4. CASE ReplayStart(c)
  <2>1. PICK l \in Letters :
          /\ letter[l] = "dead"
          /\ call' = [call EXCEPT ![c] = [Idle EXCEPT !.at = "createMax",
                        !.name = stepName[letterStep[l]], !.status = "pending",
                        !.letter = l, !.wf = wfStatus]]
    BY <1>4 DEF ReplayStart
  <2> DEFINE k == [Idle EXCEPT !.at = "createMax", !.name = stepName[letterStep[l]],
                     !.status = "pending", !.letter = l, !.wf = wfStatus]
  <2>2. stepName[letterStep[l]] \in Names \cup {NULL}
    BY <2>1 DEF TypeInv, LetterShape, LeaseTypeOK, WorkflowTypeOK
  <2>3. "pending" \in StepStatuses /\ wfStatus \in WfStatuses /\ "createMax" \in CallPoints
    BY <1>0 DEF CallPoints, StepStatuses
  <2>4. k \in Call
    BY IdleTyped, <2>2, <2>3 DEF Call
  <2>5. CallFits(k)
    BY <2>3 DEF Idle, CallFits
  <2> QED BY <1>4, <2>1, <2>4, <2>5, CallOnly DEF ReplayStart
<1>5. CASE ReplayDelete(c)
  <2>1. call' \in [Clients -> Call] /\ CallShape'
    BY <1>5, IdleTyped, CallTyped DEF ReplayDelete
  <2> QED
    BY <1>5, <2>1 DEF ReplayDelete, TypeInv, LeaseTypeOK, WorkflowTypeOK, LetterStates,
       LetterShape, RequestShape, RequestFits, leaseVars, leaseRowVars, stepVars
<1>6. CASE UpdateStepStart(c)
  <2>1. PICK s \in Steps, status \in PatchStatuses :
          call' = [call EXCEPT ![c] = [Idle EXCEPT !.at = "updateRow", !.step = s,
                     !.status = status, !.wf = wfStatus]]
    BY <1>6 DEF UpdateStepStart
  <2> DEFINE k == [Idle EXCEPT !.at = "updateRow", !.step = s, !.status = status,
                     !.wf = wfStatus]
  <2>2. status \in StepStatuses /\ wfStatus \in WfStatuses /\ "updateRow" \in CallPoints
    BY <1>0 DEF CallPoints, StepStatuses
  <2>3. k \in Call
    BY IdleTyped, <2>2 DEF Call
  <2>4. CallFits(k)
    BY DEF Idle, CallFits
  <2> QED BY <1>6, <2>1, <2>3, <2>4, CallOnly DEF UpdateStepStart
<1>7. CASE UpdateStepRow(c)
  <2> DEFINE k == [call[c] EXCEPT !.at = "updateWrite", !.att = attempt[call[c].step],
                                  !.ts = now]
  <2>1. attempt[call[c].step] \in Nat
    BY <1>0, <1>7 DEF UpdateStepRow, CallFits
  <2>2. k \in Call /\ CallFits(k)
    BY <1>0, <1>7, <2>1 DEF UpdateStepRow, Call, CallPoints, CallFits
  <2>3. call' = [call EXCEPT ![c] = k]
    BY <1>0, <1>7 DEF UpdateStepRow
  <2> QED BY <1>7, <2>2, <2>3, CallOnly DEF UpdateStepRow
<1>8. CASE UpdateStepWrite(c)
  <2>1. call' \in [Clients -> Call] /\ CallShape'
    BY <1>8, IdleTyped, CallTyped DEF UpdateStepWrite
  <2>2. /\ call[c].step \in Steps /\ call[c].status \in StepStatuses
        /\ call[c].att \in Nat /\ call[c].ts \in Nat
    BY <1>0, <1>8 DEF UpdateStepWrite, Call, CallFits
  <2>3. wfStatus' \in WfStatuses
    BY <1>8, WfStatusTyped DEF UpdateStepWrite
  <2> QED
    BY <1>8, <2>1, <2>2, <2>3, OutcomeTyped DEF UpdateStepWrite, TypeInv, LeaseTypeOK,
       WorkflowTypeOK, RequestShape, RequestFits, leaseVars, leaseRowVars
<1>9. CASE AbortCall(c)
  BY <1>9, IdleTyped, CallOnly DEF AbortCall
<1> QED BY <1>1, <1>2, <1>3, <1>4, <1>5, <1>6, <1>7, <1>8, <1>9 DEF ClientNext

(* A step that only moves req[r] to a well-formed record.                  *)
LEMMA RequestOnly ==
  ASSUME TypeInv, NEW r \in Requests, NEW q \in Request, RequestFits(q),
         req' = [req EXCEPT ![r] = q], UNCHANGED <<workflowVars, leaseRowVars, sweep>>
  PROVE  TypeInv'
<1>1. req' \in [Requests -> Request] /\ RequestShape'
  BY RequestTyped
<1> QED
  BY <1>1 DEF TypeInv, LeaseTypeOK, WorkflowTypeOK, LetterShape, CallShape, CallFits,
              workflowVars, leaseRowVars, stepVars, dlqVars

LEMMA RequestStepTyped ==
  ASSUME TypeInv, NEW r \in Requests, WorkerNext(r)
  PROVE  TypeInv'
<1>0. /\ req \in [Requests -> Request] /\ req[r] \in Request /\ RequestFits(req[r])
      /\ wfStatus \in WfStatuses /\ attempt \in [Steps -> Nat] /\ now \in Nat
      /\ acquiredAt \in [Steps -> Nat] /\ expiresAt \in [Steps -> Nat]
  BY DEF TypeInv, LeaseTypeOK, WorkflowTypeOK, RequestShape
<1>1. CASE AcquireStart(r)
  <2>1. PICK s \in Steps, w \in Workers, ttl \in Ttls :
          req' = [req EXCEPT ![r] = [NoRequest EXCEPT !.at = "acquireTxn",
                    !.step = s, !.worker = w, !.ttl = ttl, !.wf = wfStatus]]
    BY <1>1 DEF AcquireStart
  <2> DEFINE q == [NoRequest EXCEPT !.at = "acquireTxn", !.step = s, !.worker = w,
                     !.ttl = ttl, !.wf = wfStatus]
  <2>2. q \in Request /\ RequestFits(q)
    BY <1>0 DEF NoRequest, Request, RequestPoints, RequestFits
  <2> QED BY <1>1, <2>1, <2>2, RequestOnly DEF AcquireStart
<1>2. CASE AcquireTxn(r)
  <2>1. req' \in [Requests -> Request] /\ RequestShape'
    BY <1>2, IdleTyped, RequestTyped DEF AcquireTxn
  <2>2. /\ req[r].step \in Steps /\ req[r].worker \in Workers /\ now + req[r].ttl \in Nat
    BY <1>0, <1>2 DEF AcquireTxn, Request, RequestFits
  <2>3. wfStatus' \in WfStatuses
    BY <1>0, <1>2 DEF AcquireTxn, StatusOnStart, WfStatuses
  <2>4. /\ leaseStatus' \in [Steps -> LeaseStatuses]
        /\ leaseWorker' \in [Steps -> Workers \cup {NULL}]
        /\ acquiredAt' \in [Steps -> Nat] /\ expiresAt' \in [Steps -> Nat]
        /\ stepStatus' \in [Steps -> StepStatuses \cup {"none"}]
    BY <1>0, <1>2, <2>2 DEF AcquireTxn, TypeInv, LeaseTypeOK, WorkflowTypeOK, LeaseStatuses,
       StepStatuses
  <2> QED
    BY <1>2, <2>1, <2>3, <2>4 DEF AcquireTxn, TypeInv, LeaseTypeOK, WorkflowTypeOK,
       LetterShape, CallShape, CallFits, dlqVars
<1>3. CASE AcquireRefused(r)
  BY <1>3, IdleTyped, RequestOnly DEF AcquireRefused
<1>4. CASE HeartbeatRead(r)
  <2>1. PICK s \in Steps, w \in Workers : \E ttl \in Ttls \cup {HeldTtl(s)} :
          req' = [req EXCEPT ![r] = [NoRequest EXCEPT !.at = "heartbeatWrite",
                    !.step = s, !.worker = w, !.ttl = ttl, !.ts = now]]
    BY <1>4 DEF HeartbeatRead
  <2>2. PICK ttl \in Ttls \cup {HeldTtl(s)} :
          req' = [req EXCEPT ![r] = [NoRequest EXCEPT !.at = "heartbeatWrite",
                    !.step = s, !.worker = w, !.ttl = ttl, !.ts = now]]
    BY <2>1
  <2> DEFINE q == [NoRequest EXCEPT !.at = "heartbeatWrite", !.step = s, !.worker = w,
                     !.ttl = ttl, !.ts = now]
  <2>3. HeldTtl(s) \in Nat
    BY <1>0 DEF HeldTtl
  <2>4. q \in Request
    BY <1>0, <2>3, IdleTyped DEF Request, RequestPoints
  <2>5. RequestFits(q)
    BY DEF NoRequest, RequestFits
  <2> QED BY <1>4, <2>2, <2>4, <2>5, RequestOnly DEF HeartbeatRead
<1>5. CASE HeartbeatWrite(r)
  <2>1. req' \in [Requests -> Request] /\ RequestShape'
    BY <1>5, IdleTyped, RequestTyped DEF HeartbeatWrite
  <2>2. req[r].ts + req[r].ttl \in Nat
    BY <1>0 DEF Request
  <2>3. expiresAt' \in [Steps -> Nat]
    BY <1>0, <1>5, <2>2 DEF HeartbeatWrite
  <2> QED
    BY <1>5, <2>1, <2>3 DEF HeartbeatWrite, TypeInv, LeaseTypeOK, WorkflowTypeOK,
       LetterShape, CallShape, CallFits, workflowVars, stepVars, dlqVars
<1>6. CASE ReleaseStart(r)
  <2>1. PICK s \in Steps, w \in Workers, status \in Outcomes :
          req' = [req EXCEPT ![r] = [NoRequest EXCEPT !.at = "releaseLease",
                    !.step = s, !.worker = w, !.status = status, !.wf = wfStatus]]
    BY <1>6 DEF ReleaseStart
  <2> DEFINE q == [NoRequest EXCEPT !.at = "releaseLease", !.step = s, !.worker = w,
                     !.status = status, !.wf = wfStatus]
  <2>2. q \in Request
    BY <1>0, IdleTyped DEF Request, RequestPoints
  <2>3. RequestFits(q)
    BY DEF NoRequest, RequestFits
  <2> QED BY <1>6, <2>1, <2>2, <2>3, RequestOnly DEF ReleaseStart
<1>7. CASE ReleaseLease(r)
  <2> DEFINE q == IF leaseWorker[req[r].step] = req[r].worker
                  THEN [req[r] EXCEPT !.at = "releaseRow"] ELSE NoRequest
  <2>1. q \in Request /\ RequestFits(q)
    BY <1>0, <1>7, IdleTyped DEF ReleaseLease, Request, RequestPoints, RequestFits
  <2> QED BY <1>7, <2>1, RequestOnly DEF ReleaseLease
<1>8. CASE ReleaseRow(r)
  <2> DEFINE q == [req[r] EXCEPT !.at = "releaseWrite", !.att = attempt[req[r].step],
                                 !.ts = now]
  <2>1. attempt[req[r].step] \in Nat
    BY <1>0, <1>8 DEF ReleaseRow, RequestFits
  <2>2. q \in Request /\ RequestFits(q)
    BY <1>0, <1>8, <2>1 DEF ReleaseRow, Request, RequestPoints, RequestFits
  <2>3. req' = [req EXCEPT ![r] = q]
    BY <1>0, <1>8 DEF ReleaseRow
  <2> QED BY <1>8, <2>2, <2>3, RequestOnly DEF ReleaseRow
<1>9. CASE ReleaseWrite(r)
  <2> DEFINE s == req[r].step
  <2>1. req' \in [Requests -> Request] /\ RequestShape'
    BY <1>9, IdleTyped, RequestTyped DEF ReleaseWrite
  <2>2. /\ s \in Steps /\ req[r].status \in StepStatuses
        /\ req[r].att \in Nat /\ req[r].ts \in Nat
    BY <1>0, <1>9 DEF ReleaseWrite, Request, RequestFits, StepStatuses
  <2>3. wfStatus' \in WfStatuses
    BY <1>9, WfStatusTyped DEF ReleaseWrite
  <2>4. leaseStatus' \in [Steps -> LeaseStatuses]
    BY <1>9 DEF ReleaseWrite, MarkReleased, TypeInv, LeaseTypeOK, LeaseStatuses
  <2>5. CASE req[r].status = "pending"
    BY <1>9, <2>1, <2>2, <2>3, <2>4, <2>5 DEF ReleaseWrite, Requeue, StepStatuses, TypeInv,
       LeaseTypeOK, WorkflowTypeOK, LetterShape, CallShape, CallFits, dlqVars
  <2>6. CASE req[r].status # "pending"
    BY <1>9, <2>1, <2>2, <2>3, <2>4, <2>6, OutcomeTyped DEF ReleaseWrite, TypeInv,
       LeaseTypeOK, WorkflowTypeOK, CallShape, CallFits
  <2> QED BY <2>5, <2>6
<1>10. CASE AbortRequest(r)
  BY <1>10, IdleTyped, RequestOnly DEF AbortRequest
<1> QED
  BY <1>1, <1>2, <1>3, <1>4, <1>5, <1>6, <1>7, <1>8, <1>9, <1>10 DEF WorkerNext

LEMMA TypeInvNext == TypeInv /\ [Next]_vars => TypeInv'
<1> SUFFICES ASSUME TypeInv, [Next]_vars PROVE TypeInv'
  OBVIOUS
<1> USE DEF TypeInv, LeaseTypeOK, WorkflowTypeOK, CallShape, CallFits, RequestShape,
            RequestFits, LetterShape
<1>1. CASE WorkflowNext /\ UNCHANGED leaseVars
  <2>1. CASE \E c \in Clients : ClientNext(c)
    BY <1>1, <2>1, ClientTyped
  <2>2. CASE \E l \in Letters : DeleteDlq(l)
    BY <1>1, <2>2 DEF DeleteDlq, LetterStates, leaseVars, leaseRowVars, stepVars
  <2>3. CASE CancelWorkflow
    BY <1>1, <2>3 DEF CancelWorkflow, StepStatuses, WfStatuses, leaseVars, leaseRowVars, dlqVars
  <2> QED BY <1>1, <2>1, <2>2, <2>3 DEF WorkflowNext
<1>2. CASE Tick /\ UNCHANGED leaseVars
  BY <1>2 DEF Tick, leaseVars, leaseRowVars, stepVars, dlqVars
<1>3. CASE \E r \in Requests : WorkerNext(r)
  BY <1>3, RequestStepTyped
<1>4. CASE SweepSelect
  BY <1>4 DEF SweepSelect, workflowVars, stepVars, dlqVars, leaseRowVars
<1>5. CASE SweepWrite
  BY <1>5 DEF SweepWrite, Reverted, StepStatuses, LeaseStatuses, dlqVars
<1>6. CASE SweepAbort
  BY <1>6 DEF SweepAbort, workflowVars, stepVars, dlqVars, leaseRowVars
<1>7. CASE UNCHANGED vars
  BY <1>7 DEF vars, workflowVars, leaseVars, stepVars, dlqVars, leaseRowVars
<1> QED BY <1>1, <1>2, <1>3, <1>4, <1>5, <1>6, <1>7 DEF Next

THEOREM TypeInvariant == Spec => []TypeInv
  BY TypeInvInit, TypeInvNext, PTL DEF Spec

(* Every row and every handler in flight keeps its type, in every          *)
(* execution of the workflow log with its leases.                          *)
THEOREM TypeCorrect == Spec => []LeaseTypeOK
<1>1. TypeInv => LeaseTypeOK
  BY DEF TypeInv
<1> QED BY <1>1, TypeInvariant, PTL

--------------------------------------------------------------------------------
(* What the log promises about failures and replays.                       *)

(* A final failure is copied to the dead-letter table by the transaction   *)
(* that writes it, and no letter is taken back or given to another step.   *)
LEMMA OutcomeHasLetter ==
  ASSUME TypeInv, FailedStepHasLetter, NEW s \in Steps, NEW status \in StepStatuses,
         NEW att, NEW ts, WriteOutcome(s, status, att, ts)
  PROVE  FailedStepHasLetter'
<1> USE DEF TypeInv, LeaseTypeOK, WorkflowTypeOK, FailedStepHasLetter
<1>1. CASE ShouldRetry(s, status, att)
  BY <1>1 DEF WriteOutcome, RetryStep, dlqVars
<1>2. CASE ~ShouldRetry(s, status, att) /\ status = "failed"
  <2>1. PICK l \in Letters : /\ letter[l] = "none"
                             /\ letter' = [letter EXCEPT ![l] = "dead"]
                             /\ letterStep' = [letterStep EXCEPT ![l] = s]
    BY <1>2 DEF WriteOutcome, SettleStep, CopyStepToDlq
  <2>2. stepStatus' = [stepStatus EXCEPT ![s] = "failed"]
    BY <1>2 DEF WriteOutcome, SettleStep
  <2>3. letter'[l] # "none" /\ letterStep'[l] = s
    BY <2>1
  <2>4. ASSUME NEW t \in Steps, t # s, stepStatus'[t] = "failed"
        PROVE  \E m \in Letters : letter'[m] # "none" /\ letterStep'[m] = t
    <3>1. PICK m \in Letters : letter[m] # "none" /\ letterStep[m] = t
      BY <2>2, <2>4
    <3> QED BY <2>1, <3>1
  <2> QED BY <2>3, <2>4
<1>3. CASE ~ShouldRetry(s, status, att) /\ status # "failed"
  BY <1>3 DEF WriteOutcome, SettleStep, dlqVars
<1> QED BY <1>1, <1>2, <1>3

LEMMA LetterInvNext == TypeInv /\ FailedStepHasLetter /\ [Next]_vars => FailedStepHasLetter'
<1> SUFFICES ASSUME TypeInv, FailedStepHasLetter, [Next]_vars PROVE FailedStepHasLetter'
  OBVIOUS
<1> USE DEF TypeInv, LeaseTypeOK, WorkflowTypeOK, FailedStepHasLetter
<1>1. ASSUME NEW c \in Clients, ClientNext(c) PROVE FailedStepHasLetter'
  <2>0. CallFits(call[c]) /\ call[c] \in Call
    BY DEF CallShape
  <2>1. CASE CreateStepInsert(c)
    BY <2>0, <2>1 DEF CreateStepInsert, CallFits, Exists, dlqVars
  <2>2. CASE UpdateStepWrite(c)
    <3>1. call[c].step \in Steps /\ call[c].status \in StepStatuses
      BY <2>0, <2>2 DEF UpdateStepWrite, CallFits
    <3> QED BY <2>2, <3>1, OutcomeHasLetter DEF UpdateStepWrite
  <2>3. CASE ReplayDelete(c)
    BY <2>3 DEF ReplayDelete, stepVars
  <2>4. CASE UNCHANGED <<stepVars, dlqVars>>
    BY <2>4 DEF stepVars, dlqVars
  <2> QED BY <1>1, <2>1, <2>2, <2>3, <2>4 DEF ClientNext, CreateStepStart, CreateStepMax,
     ReplayStart, UpdateStepStart, UpdateStepRow, AbortCall
<1>2. ASSUME NEW l \in Letters, DeleteDlq(l) PROVE FailedStepHasLetter'
  BY <1>2 DEF DeleteDlq, stepVars
<1>3. CASE CancelWorkflow
  BY <1>3 DEF CancelWorkflow, dlqVars
<1>4. ASSUME NEW r \in Requests, WorkerNext(r) PROVE FailedStepHasLetter'
  <2>0. RequestFits(req[r])
    BY DEF RequestShape
  <2>1. CASE AcquireTxn(r)
    BY <2>1 DEF AcquireTxn, dlqVars
  <2>2. CASE ReleaseWrite(r) /\ req[r].status = "pending"
    BY <2>2 DEF ReleaseWrite, Requeue, dlqVars
  <2>3. CASE ReleaseWrite(r) /\ req[r].status # "pending"
    <3>1. req[r].step \in Steps /\ req[r].status \in StepStatuses
      BY <2>0, <2>3 DEF ReleaseWrite, RequestFits, StepStatuses
    <3> QED BY <2>3, <3>1, OutcomeHasLetter DEF ReleaseWrite
  <2>4. CASE UNCHANGED <<stepVars, dlqVars>>
    BY <2>4 DEF stepVars, dlqVars
  <2> QED BY <1>4, <2>1, <2>2, <2>3, <2>4 DEF WorkerNext, AcquireStart, AcquireRefused,
     HeartbeatRead, HeartbeatWrite, ReleaseStart, ReleaseLease, ReleaseRow, AbortRequest,
     workflowVars
<1>5. CASE SweepWrite
  BY <1>5 DEF SweepWrite, Reverted, dlqVars
<1>6. CASE UNCHANGED <<stepVars, dlqVars>>
  BY <1>6 DEF stepVars, dlqVars
<1> QED BY <1>1, <1>2, <1>3, <1>4, <1>5, <1>6 DEF Next, WorkflowNext, Tick, SweepSelect,
   SweepAbort, vars, workflowVars

(* Every step that failed for good has its dead letter, or had it.         *)
THEOREM FailuresReachTheOperator == Spec => []FailedStepHasLetter
<1>1. LeaseInit => FailedStepHasLetter
  BY DEF LeaseInit, WorkflowInit, FailedStepHasLetter
<1> QED BY <1>1, TypeInvariant, LetterInvNext, PTL DEF Spec

(* A replay in flight that is about to delete its letter has created the   *)
(* successor row, and the row it names is never written over: a row that   *)
(* does not exist yet inherits from no letter.                             *)
ReplayInv ==
  /\ ReplayLosesNoLetter
  /\ \A s \in Steps : stepStatus[s] = "none" => replayOf[s] = NULL
  /\ \A c \in Clients : call[c].at = "replayDelete" =>
       call[c].letter \in Letters /\ \E s \in Steps : replayOf[s] = call[c].letter

(* A step of the model that inserts no row and deletes no letter.          *)
LEMMA ReplayInvKept ==
  ASSUME TypeInv, ReplayInv, UNCHANGED replayOf,
         \A s \in Steps : stepStatus'[s] = "none" => stepStatus[s] = "none",
         \A l \in Letters : letter'[l] = "replayed" => letter[l] = "replayed",
         \A c \in Clients : call'[c] = call[c] \/ call'[c].at # "replayDelete"
  PROVE  ReplayInv'
  BY DEF ReplayInv, ReplayLosesNoLetter

LEMMA OutcomeKeepsRows ==
  ASSUME TypeInv, NEW s \in Steps, NEW status \in StepStatuses, NEW att, NEW ts,
         WriteOutcome(s, status, att, ts)
  PROVE  /\ UNCHANGED replayOf
         /\ \A t \in Steps : stepStatus'[t] = "none" => stepStatus[t] = "none"
         /\ \A l \in Letters : letter'[l] = "replayed" => letter[l] = "replayed"
<1> USE DEF TypeInv, LeaseTypeOK, WorkflowTypeOK, WriteOutcome, StepStatuses
<1>1. CASE ShouldRetry(s, status, att)
  BY <1>1 DEF RetryStep, dlqVars
<1>2. CASE ~ShouldRetry(s, status, att)
  BY <1>2 DEF SettleStep, CopyStepToDlq, dlqVars
<1> QED BY <1>1, <1>2

LEMMA ReplayInvNext == TypeInv /\ ReplayInv /\ [Next]_vars => ReplayInv'
<1> SUFFICES ASSUME TypeInv, ReplayInv, [Next]_vars PROVE ReplayInv'
  OBVIOUS
<1> USE DEF TypeInv, LeaseTypeOK, WorkflowTypeOK
<1>1. ASSUME NEW c \in Clients, ClientNext(c) PROVE ReplayInv'
  <2>0. CallFits(call[c]) /\ call[c] \in Call
    BY DEF CallShape
  <2>1. CASE CreateStepInsert(c)
    <3>1. PICK s \in Steps :
            /\ stepStatus[s] = "none"
            /\ stepStatus' = [stepStatus EXCEPT ![s] = call[c].status]
            /\ replayOf' = [replayOf EXCEPT ![s] = call[c].letter]
      BY <2>1 DEF CreateStepInsert, Exists
    <3>2. call[c].status # "none" /\ call[c].letter \in Letters \cup {NULL}
      BY <2>0, <2>1 DEF CreateStepInsert, CallFits, Call
    <3>3. \A t \in Steps : replayOf[t] # NULL => replayOf'[t] = replayOf[t]
      BY <3>1 DEF ReplayInv
    <3>4. \A l \in Letters : (\E t \in Steps : replayOf[t] = l)
                               => \E t \in Steps : replayOf'[t] = l
      BY <3>3
    <3>5. ReplayLosesNoLetter'
      BY <2>1, <3>4 DEF CreateStepInsert, ReplayInv, ReplayLosesNoLetter, dlqVars
    <3>6. \A t \in Steps : stepStatus'[t] = "none" => replayOf'[t] = NULL
      BY <3>1, <3>2 DEF ReplayInv
    <3>7. ASSUME NEW d \in Clients, call'[d].at = "replayDelete"
          PROVE  call'[d].letter \in Letters /\ \E t \in Steps : replayOf'[t] = call'[d].letter
      <4>1. CASE d # c
        <5>1. call'[d] = call[d]
          BY <2>1, <4>1 DEF CreateStepInsert
        <5> QED BY <3>4, <3>7, <5>1 DEF ReplayInv
      <4>2. CASE d = c
        <5>1. call'[c] = IF call[c].letter = NULL THEN Idle
                         ELSE [Idle EXCEPT !.at = "replayDelete", !.letter = call[c].letter]
          BY <2>1 DEF CreateStepInsert
        <5>2. call[c].letter \in Letters /\ call'[c].letter = call[c].letter
          BY <3>2, <3>7, <4>2, <5>1 DEF Idle
        <5>3. replayOf'[s] = call[c].letter
          BY <3>1
        <5> QED BY <4>2, <5>2, <5>3
      <4> QED BY <4>1, <4>2
    <3> QED BY <3>5, <3>6, <3>7 DEF ReplayInv
  <2>2. CASE ReplayDelete(c)
    <3>1. \A d \in Clients : call'[d] = call[d] \/ call'[d].at # "replayDelete"
      BY <2>2 DEF ReplayDelete, Idle
    <3>2. \A l \in Letters : letter'[l] = "replayed" =>
                               letter[l] = "replayed" \/ l = call[c].letter
      BY <2>2 DEF ReplayDelete
    <3> QED BY <2>2, <3>1, <3>2 DEF ReplayDelete, ReplayInv, ReplayLosesNoLetter, stepVars
  <2>3. CASE UpdateStepWrite(c)
    <3>1. call[c].step \in Steps /\ call[c].status \in StepStatuses
      BY <2>0, <2>3 DEF UpdateStepWrite, CallFits
    <3>2. \A d \in Clients : call'[d] = call[d] \/ call'[d].at # "replayDelete"
      BY <2>3 DEF UpdateStepWrite, Idle
    <3> QED BY <2>3, <3>1, <3>2, OutcomeKeepsRows, ReplayInvKept DEF UpdateStepWrite
  <2>4. CASE ~CreateStepInsert(c) /\ ~ReplayDelete(c) /\ ~UpdateStepWrite(c)
    <3>1. UNCHANGED <<stepVars, dlqVars>>
      BY <1>1, <2>4 DEF ClientNext, CreateStepStart, CreateStepMax, ReplayStart,
         UpdateStepStart, UpdateStepRow, AbortCall
    <3>2. \A d \in Clients : call'[d] = call[d] \/ call'[d].at # "replayDelete"
      <4>1. CASE CreateStepStart(c)
        BY <4>1 DEF CreateStepStart, Idle
      <4>2. CASE UpdateStepStart(c)
        BY <4>2 DEF UpdateStepStart, Idle
      <4>3. CASE ReplayStart(c)
        <5>1. PICK l \in Letters :
                call' = [call EXCEPT ![c] = [Idle EXCEPT !.at = "createMax",
                           !.name = stepName[letterStep[l]], !.status = "pending",
                           !.letter = l, !.wf = wfStatus]]
          BY <4>3 DEF ReplayStart
        <5> QED BY <5>1 DEF Idle
      <4>4. CASE CreateStepMax(c)
        BY <2>0, <4>4 DEF CreateStepMax, Call
      <4>5. CASE UpdateStepRow(c)
        BY <2>0, <4>5 DEF UpdateStepRow, Call
      <4>6. CASE AbortCall(c)
        BY <4>6 DEF AbortCall, Idle
      <4> QED BY <1>1, <2>4, <4>1, <4>2, <4>3, <4>4, <4>5, <4>6 DEF ClientNext
    <3> QED BY <3>1, <3>2, ReplayInvKept DEF stepVars, dlqVars
  <2> QED BY <2>1, <2>2, <2>3, <2>4
<1>2. ASSUME NEW l \in Letters, DeleteDlq(l) PROVE ReplayInv'
  <2>1. \A m \in Letters : letter'[m] = "replayed" => letter[m] = "replayed"
    BY <1>2 DEF DeleteDlq
  <2> QED BY <1>2, <2>1, ReplayInvKept DEF DeleteDlq, stepVars
<1>3. CASE CancelWorkflow
  BY <1>3, ReplayInvKept DEF CancelWorkflow, dlqVars
<1>4. ASSUME NEW r \in Requests, WorkerNext(r) PROVE ReplayInv'
  <2>0. RequestFits(req[r])
    BY DEF RequestShape
  <2>1. CASE AcquireTxn(r)
    BY <2>1, ReplayInvKept DEF AcquireTxn, dlqVars
  <2>2. CASE ReleaseWrite(r) /\ req[r].status = "pending"
    BY <2>2, ReplayInvKept DEF ReleaseWrite, Requeue, dlqVars
  <2>3. CASE ReleaseWrite(r) /\ req[r].status # "pending"
    <3>1. req[r].step \in Steps /\ req[r].status \in StepStatuses
      BY <2>0, <2>3 DEF ReleaseWrite, RequestFits, StepStatuses
    <3> QED BY <2>3, <3>1, OutcomeKeepsRows, ReplayInvKept DEF ReleaseWrite
  <2>4. CASE UNCHANGED workflowVars
    BY <2>4, ReplayInvKept DEF workflowVars, stepVars, dlqVars
  <2> QED BY <1>4, <2>1, <2>2, <2>3, <2>4 DEF WorkerNext, AcquireStart, AcquireRefused,
     HeartbeatRead, HeartbeatWrite, ReleaseStart, ReleaseLease, ReleaseRow, AbortRequest
<1>5. CASE SweepWrite
  BY <1>5, ReplayInvKept DEF SweepWrite, Reverted, dlqVars
<1>6. CASE UNCHANGED <<stepVars, dlqVars, call>>
  BY <1>6, ReplayInvKept DEF stepVars, dlqVars
<1> QED BY <1>1, <1>2, <1>3, <1>4, <1>5, <1>6 DEF Next, WorkflowNext, Tick, SweepSelect,
   SweepAbort, vars, workflowVars

(* A letter that left the table by a replay has a successor row.           *)
THEOREM ReplaysLoseNothing == Spec => []ReplayLosesNoLetter
<1>1. LeaseInit => ReplayInv
  BY DEF LeaseInit, WorkflowInit, Idle, ReplayInv, ReplayLosesNoLetter
<1>2. ReplayInv => ReplayLosesNoLetter
  BY DEF ReplayInv
<1> QED BY <1>1, <1>2, TypeInvariant, ReplayInvNext, PTL DEF Spec

--------------------------------------------------------------------------------
(* A status a handler remembers is a past one: read as something else than *)
(* 'pending', the workflow is still something else.  Lease requests        *)
(* remember it as well, and the steps they start run.                      *)
StartInv ==
  /\ PendingWorkflowRunsNothing
  /\ SeenStatusIsPast
  /\ \A r \in Requests : req[r].wf \notin {"none", "pending"} => wfStatus # "pending"

LEMMA StartInvKept ==
  ASSUME TypeInv, StartInv,
         wfStatus' = "pending" => wfStatus = "pending",
         \A s \in Steps : stepStatus'[s] = "running" =>
                            stepStatus[s] = "running" \/ wfStatus' # "pending",
         \A c \in Clients : call'[c].wf \in {"none", wfStatus, call[c].wf},
         \A r \in Requests : req'[r].wf \in {"none", wfStatus, req[r].wf}
  PROVE  StartInv'
  BY DEF StartInv, PendingWorkflowRunsNothing, SeenStatusIsPast

LEMMA StatusNotPending ==
  ASSUME TypeInv, NEW seen, MaybeUpdateWorkflowStatus(seen)
  PROVE  wfStatus' = "pending" => wfStatus = "pending"
  BY DEF MaybeUpdateWorkflowStatus, DerivedStatus

LEMMA OutcomeStartsNothing ==
  ASSUME TypeInv, NEW s \in Steps, NEW status \in StepStatuses \ {"running"},
         NEW att, NEW ts, WriteOutcome(s, status, att, ts)
  PROVE  \A t \in Steps : stepStatus'[t] = "running" => stepStatus[t] = "running"
  BY DEF TypeInv, LeaseTypeOK, WorkflowTypeOK, WriteOutcome, RetryStep, SettleStep

LEMMA StartInvNext ==
  ASSUME "running" \notin PatchStatuses, TypeInv, StartInv, [Next]_vars
  PROVE  StartInv'
<1> USE DEF TypeInv, LeaseTypeOK, WorkflowTypeOK
<1>1. ASSUME NEW c \in Clients, ClientNext(c), UNCHANGED leaseVars PROVE StartInv'
  <2>0. CallFits(call[c]) /\ call[c] \in Call /\ UNCHANGED req
    BY <1>1 DEF CallShape, leaseVars
  <2>1. CASE CreateStepInsert(c)
    <3>1. \A d \in Clients : call'[d].wf \in {"none", call[d].wf}
      BY <2>1 DEF CreateStepInsert, Idle
    <3>2. PICK s \in Steps : stepStatus' = [stepStatus EXCEPT ![s] = call[c].status]
      BY <2>1 DEF CreateStepInsert
    <3>3. call[c].wf \in WfStatuses
      BY <2>0, <2>1 DEF CreateStepInsert, CallFits
    <3>4. call[c].wf # "pending" => wfStatus # "pending"
      BY <3>3 DEF StartInv, SeenStatusIsPast, WfStatuses
    <3>5. wfStatus' = IF call[c].status = "running" THEN StatusOnStart(call[c].wf) ELSE wfStatus
      BY <2>1 DEF CreateStepInsert
    <3>6. wfStatus' = "pending" => wfStatus = "pending" /\ call[c].status # "running"
      BY <3>4, <3>5 DEF StatusOnStart
    <3>7. \A t \in Steps : stepStatus'[t] = "running" =>
                             stepStatus[t] = "running" \/ wfStatus' # "pending"
      BY <3>2, <3>6
    <3> QED BY <2>0, <3>1, <3>6, <3>7, StartInvKept
  <2>2. CASE UpdateStepWrite(c)
    <3>1. call[c].step \in Steps /\ call[c].status \in StepStatuses \ {"running"}
      BY <2>0, <2>2 DEF UpdateStepWrite, CallFits
    <3>2. \A d \in Clients : call'[d].wf \in {"none", call[d].wf}
      BY <2>2 DEF UpdateStepWrite, Idle
    <3>3. wfStatus' = "pending" => wfStatus = "pending"
      BY <2>2, StatusNotPending DEF UpdateStepWrite
    <3>4. \A t \in Steps : stepStatus'[t] = "running" => stepStatus[t] = "running"
      BY <2>2, <3>1, OutcomeStartsNothing DEF UpdateStepWrite
    <3> QED BY <2>0, <3>2, <3>3, <3>4, StartInvKept
  <2>3. CASE ~CreateStepInsert(c) /\ ~UpdateStepWrite(c)
    <3>1. UNCHANGED <<wfStatus, stepStatus>>
      BY <1>1, <2>3 DEF ClientNext, CreateStepStart, CreateStepMax, ReplayStart,
         ReplayDelete, UpdateStepStart, UpdateStepRow, AbortCall, stepVars
    <3>2. \A d \in Clients : call'[d].wf \in {"none", wfStatus, call[d].wf}
      <4>1. CASE CreateStepStart(c)
        BY <4>1 DEF CreateStepStart, Idle
      <4>2. CASE UpdateStepStart(c)
        BY <4>2 DEF UpdateStepStart, Idle
      <4>3. CASE ReplayStart(c)
        <5>1. PICK l \in Letters :
                call' = [call EXCEPT ![c] = [Idle EXCEPT !.at = "createMax",
                           !.name = stepName[letterStep[l]], !.status = "pending",
                           !.letter = l, !.wf = wfStatus]]
          BY <4>3 DEF ReplayStart
        <5> QED BY <5>1 DEF Idle
      <4>4. CASE CreateStepMax(c)
        BY <2>0, <4>4 DEF CreateStepMax, Call
      <4>5. CASE UpdateStepRow(c)
        BY <2>0, <4>5 DEF UpdateStepRow, Call
      <4>6. CASE AbortCall(c) \/ ReplayDelete(c)
        BY <4>6 DEF AbortCall, ReplayDelete, Idle
      <4> QED BY <1>1, <2>3, <4>1, <4>2, <4>3, <4>4, <4>5, <4>6 DEF ClientNext
    <3> QED BY <2>0, <3>1, <3>2, StartInvKept
  <2> QED BY <2>1, <2>2, <2>3
<1>2. CASE CancelWorkflow /\ UNCHANGED leaseVars
  BY <1>2, StartInvKept DEF CancelWorkflow, leaseVars
<1>3. ASSUME NEW r \in Requests, WorkerNext(r) PROVE StartInv'
  <2>0. /\ RequestFits(req[r]) /\ req[r] \in Request /\ UNCHANGED call
    BY <1>3 DEF RequestShape, WorkerNext, AcquireStart, AcquireTxn, AcquireRefused,
       HeartbeatRead, HeartbeatWrite, ReleaseStart, ReleaseLease, ReleaseRow, ReleaseWrite,
       AbortRequest, workflowVars
  <2>1. CASE AcquireTxn(r)
    <3>1. \A q \in Requests : req'[q].wf \in {"none", req[q].wf}
      BY <2>1 DEF AcquireTxn, NoRequest
    <3>2. req[r].wf # "pending" => wfStatus # "pending"
      BY <2>0, <2>1 DEF AcquireTxn, RequestFits, StartInv, WfStatuses
    <3>3. wfStatus' # "pending"
      BY <2>1, <3>2 DEF AcquireTxn, StatusOnStart
    <3> QED BY <2>0, <3>1, <3>3, StartInvKept
  <2>2. CASE ReleaseWrite(r)
    <3>1. req[r].step \in Steps /\ req[r].status \in Outcomes
      BY <2>0, <2>2 DEF ReleaseWrite, RequestFits
    <3>2. \A q \in Requests : req'[q].wf \in {"none", req[q].wf}
      BY <2>2 DEF ReleaseWrite, NoRequest
    <3>3. wfStatus' = "pending" => wfStatus = "pending"
      BY <2>2, StatusNotPending DEF ReleaseWrite
    <3>4. \A t \in Steps : stepStatus'[t] = "running" => stepStatus[t] = "running"
      <4>1. CASE req[r].status = "pending"
        BY <2>2, <4>1 DEF ReleaseWrite, Requeue
      <4>2. CASE req[r].status # "pending"
        <5>1. req[r].status \in StepStatuses \ {"running"}
          BY <3>1 DEF StepStatuses
        <5> QED BY <2>2, <3>1, <4>2, <5>1, OutcomeStartsNothing DEF ReleaseWrite
      <4> QED BY <4>1, <4>2
    <3> QED BY <2>0, <3>2, <3>3, <3>4, StartInvKept
  <2>3. CASE ~AcquireTxn(r) /\ ~ReleaseWrite(r)
    <3>1. UNCHANGED <<wfStatus, stepStatus>>
      BY <1>3, <2>3 DEF WorkerNext, AcquireStart, AcquireRefused, HeartbeatRead,
         HeartbeatWrite, ReleaseStart, ReleaseLease, ReleaseRow, AbortRequest,
         workflowVars, stepVars
    <3>2. \A q \in Requests : req'[q].wf \in {"none", wfStatus, req[q].wf}
      <4>1. CASE AcquireStart(r)
        BY <4>1 DEF AcquireStart, NoRequest
      <4>2. CASE HeartbeatRead(r)
        BY <4>2 DEF HeartbeatRead, NoRequest
      <4>3. CASE ReleaseStart(r)
        BY <4>3 DEF ReleaseStart, NoRequest
      <4>4. CASE ReleaseLease(r) \/ ReleaseRow(r)
        BY <2>0, <4>4 DEF ReleaseLease, ReleaseRow, NoRequest, Request
      <4>5. CASE AcquireRefused(r) \/ HeartbeatWrite(r) \/ AbortRequest(r)
        BY <4>5 DEF AcquireRefused, HeartbeatWrite, AbortRequest, NoRequest
      <4> QED BY <1>3, <2>3, <4>1, <4>2, <4>3, <4>4, <4>5 DEF WorkerNext
    <3> QED BY <2>0, <3>1, <3>2, StartInvKept
  <2> QED BY <2>1, <2>2, <2>3
<1>4. CASE SweepWrite
  BY <1>4, StartInvKept DEF SweepWrite, Reverted
<1>5. CASE UNCHANGED <<wfStatus, stepStatus, call, req>>
  BY <1>5, StartInvKept
<1> QED BY <1>1, <1>2, <1>3, <1>4, <1>5 DEF Next, WorkflowNext, DeleteDlq, Tick, SweepSelect,
   SweepAbort, vars, workflowVars, leaseVars, stepVars

(* As long as no caller PATCHes a step to 'running', a workflow that is    *)
(* still 'pending' runs no step, although the handlers that start steps    *)
(* decide on a workflow row they read earlier.                             *)
THEOREM PendingMeansNotStarted ==
  ASSUME "running" \notin PatchStatuses
  PROVE  Spec => [](PendingWorkflowRunsNothing /\ SeenStatusIsPast)
<1>1. LeaseInit => StartInv
  BY DEF LeaseInit, WorkflowInit, Idle, NoRequest, StartInv, PendingWorkflowRunsNothing,
     SeenStatusIsPast
<1>2. TypeInv /\ StartInv /\ [Next]_vars => StartInv'
  BY StartInvNext
<1>3. StartInv => PendingWorkflowRunsNothing /\ SeenStatusIsPast
  BY DEF StartInv
<1> QED BY <1>1, <1>2, <1>3, TypeInvariant, PTL DEF Spec

--------------------------------------------------------------------------------
(* While a lease is running and has not expired, nobody else gets it: the  *)
(* only transaction that names a worker refuses an active lease, whatever  *)
(* became of the step row under it.                                        *)
THEOREM ActiveLeaseHolds == Spec => ActiveLeaseNotTaken
<1>1. TypeInv /\ [Next]_vars => ActiveLeaseKept
  <2> SUFFICES ASSUME TypeInv, [Next]_vars PROVE ActiveLeaseKept
    OBVIOUS
  <2> USE DEF TypeInv, LeaseTypeOK, WorkflowTypeOK, ActiveLeaseKept
  <2>1. ASSUME NEW r \in Requests, AcquireTxn(r) PROVE ActiveLeaseKept
    BY <2>1 DEF AcquireTxn, LeaseFree
  <2>2. CASE UNCHANGED <<leaseWorker, acquiredAt>>
    BY <2>2
  <2> QED BY <2>1, <2>2 DEF Next, WorkerNext, AcquireStart, AcquireRefused,
     HeartbeatRead, HeartbeatWrite, ReleaseStart, ReleaseLease, ReleaseRow, ReleaseWrite,
     AbortRequest, SweepSelect, SweepWrite, SweepAbort, vars, leaseVars, leaseRowVars
<1> QED BY <1>1, TypeInvariant, PTL DEF Spec, ActiveLeaseNotTaken

--------------------------------------------------------------------------------
(***************************************************************************)
(* LeaseStore implements StepLease, for every set of clients, requests,    *)
(* workers, steps and dead letters; its theorems carry over.               *)
(***************************************************************************)

(* Rows are never deleted, so what a handler found when it started is      *)
(* still there when it writes.                                             *)
RowsStillThere ==
  /\ \A c \in Clients : call[c].at \in {"updateRow", "updateWrite"} =>
                          stepStatus[call[c].step] # "none"
  /\ \A r \in Requests : req[r].at \in {"releaseLease", "releaseRow", "releaseWrite"} =>
                           leaseStatus[req[r].step] # "none"
  /\ \A s \in sweep : leaseStatus[s] # "none"

rowVars == <<stepStatus, leaseStatus>>

(* The status a release or a PATCH leaves the step with.                   *)
LEMMA OutcomeStatus ==
  ASSUME TypeInv, NEW s \in Steps, NEW status \in StepStatuses, NEW att, NEW ts,
         WriteOutcome(s, status, att, ts)
  PROVE  \/ stepStatus' = [stepStatus EXCEPT ![s] = status]
         \/ status = "failed" /\ stepStatus' = [stepStatus EXCEPT ![s] = "pending"]
  BY DEF WriteOutcome, ShouldRetry, RetryStep, SettleStep

(* One step of a client handler is a move of the rows or leaves them alone *)
LEMMA ClientMove ==
  ASSUME TypeInv, RowsStillThere, NEW c \in Clients, ClientNext(c), UNCHANGED leaseVars
  PROVE  \/ UNCHANGED rowVars
         \/ \E s \in Steps : Rows!Create(s) \/ Rows!Patch(s)
<1>0. CallFits(call[c])
  BY DEF TypeInv, CallShape
<1>1. CASE CreateStepInsert(c)
  BY <1>0, <1>1 DEF CreateStepInsert, CallFits, Exists, Rows!Create, leaseVars, leaseRowVars
<1>2. CASE UpdateStepWrite(c)
  <2>1. /\ call[c].step \in Steps /\ call[c].status \in PatchStatuses
        /\ stepStatus[call[c].step] # "none"
    BY <1>0, <1>2 DEF UpdateStepWrite, CallFits, RowsStillThere
  <2> DEFINE s == call[c].step
             status == call[c].status
  <2>2. status \in StepStatuses
    BY <2>1 DEF WorkflowAssumption
  <2>3. \/ stepStatus' = [stepStatus EXCEPT ![s] = status]
        \/ status = "failed" /\ stepStatus' = [stepStatus EXCEPT ![s] = "pending"]
    BY <1>2, <2>1, <2>2, OutcomeStatus DEF UpdateStepWrite
  <2>4. Rows!Patch(s)
    BY <2>1, <2>3 DEF Rows!Patch, leaseVars, leaseRowVars
  <2> QED BY <2>1, <2>4
<1>3. CASE ~CreateStepInsert(c) /\ ~UpdateStepWrite(c)
  BY <1>3 DEF ClientNext, CreateStepStart, CreateStepMax, ReplayStart, ReplayDelete,
     UpdateStepStart, UpdateStepRow, AbortCall, stepVars, leaseVars, leaseRowVars, rowVars
<1> QED BY <1>1, <1>2, <1>3

(* So is one step of a lease handler.                                      *)
LEMMA RequestMove ==
  ASSUME TypeInv, RowsStillThere, NEW r \in Requests, WorkerNext(r)
  PROVE  \/ UNCHANGED rowVars
         \/ \E s \in Steps : Rows!Acquire(s) \/ Rows!Release(s)
<1>0. RequestFits(req[r])
  BY DEF TypeInv, RequestShape
<1>1. CASE AcquireTxn(r)
  BY <1>0, <1>1 DEF AcquireTxn, RequestFits, Rows!Acquire
<1>2. CASE ReleaseWrite(r)
  <2> DEFINE s == req[r].step
             status == req[r].status
  <2>1. s \in Steps /\ status \in Outcomes /\ leaseStatus[s] # "none"
    BY <1>0, <1>2 DEF ReleaseWrite, RequestFits, RowsStillThere
  <2>2. leaseStatus' = [leaseStatus EXCEPT ![s] = "released"]
    BY <1>2 DEF ReleaseWrite, MarkReleased
  <2>3. CASE status = "pending"
    <3>1. stepStatus' = [stepStatus EXCEPT ![s] = "pending"]
      BY <1>2, <2>3 DEF ReleaseWrite, Requeue
    <3> QED BY <2>1, <2>2, <3>1 DEF Rows!Release
  <2>4. CASE status # "pending"
    <3>1. status \in StepStatuses /\ status \in Rows!Settled
      BY <2>1, <2>4 DEF LeaseAssumption, StepStatuses, Rows!Settled
    <3>2. \/ stepStatus' = [stepStatus EXCEPT ![s] = status]
          \/ status = "failed" /\ stepStatus' = [stepStatus EXCEPT ![s] = "pending"]
      BY <1>2, <2>1, <2>4, <3>1, OutcomeStatus DEF ReleaseWrite
    <3> QED BY <2>1, <2>2, <3>1, <3>2 DEF Rows!Release
  <2> QED BY <2>3, <2>4
<1>3. CASE ~AcquireTxn(r) /\ ~ReleaseWrite(r)
  BY <1>3 DEF WorkerNext, AcquireStart, AcquireRefused, HeartbeatRead, HeartbeatWrite,
     ReleaseStart, ReleaseLease, ReleaseRow, AbortRequest, workflowVars, stepVars,
     leaseRowVars, rowVars
<1> QED BY <1>1, <1>2, <1>3

(* Every step of the service is a step of StepLease or leaves both rows.   *)
LEMMA StepMove == TypeInv /\ RowsStillThere /\ [Next]_vars => [Rows!Next]_rowVars
<1> SUFFICES ASSUME TypeInv, RowsStillThere, [Next]_vars PROVE [Rows!Next]_rowVars
  OBVIOUS
<1>1. CASE WorkflowNext /\ UNCHANGED leaseVars
  <2>1. CASE \E c \in Clients : ClientNext(c)
    BY <1>1, <2>1, ClientMove DEF Rows!Next
  <2>2. CASE \E l \in Letters : DeleteDlq(l)
    BY <1>1, <2>2 DEF DeleteDlq, stepVars, leaseVars, leaseRowVars, rowVars
  <2>3. CASE CancelWorkflow
    BY <1>1, <2>3 DEF CancelWorkflow, leaseVars, leaseRowVars, Rows!Cancel, Rows!Next
  <2> QED BY <1>1, <2>1, <2>2, <2>3 DEF WorkflowNext
<1>2. CASE Tick /\ UNCHANGED leaseVars
  BY <1>2 DEF Tick, stepVars, leaseVars, leaseRowVars, rowVars
<1>3. CASE \E r \in Requests : WorkerNext(r)
  BY <1>3, RequestMove DEF Rows!Next
<1>4. CASE SweepWrite
  <2>1. sweep \in SUBSET Steps
    BY DEF TypeInv, LeaseTypeOK
  <2>2. Rows!Reclaim(sweep)
    BY <1>4, <2>1 DEF SweepWrite, Reverted, RowsStillThere, Rows!Reclaim
  <2> QED BY <2>1, <2>2 DEF Rows!Next
<1>5. CASE SweepSelect \/ SweepAbort
  BY <1>5 DEF SweepSelect, SweepAbort, workflowVars, stepVars, leaseRowVars, rowVars
<1>6. CASE UNCHANGED vars
  BY <1>6 DEF vars, workflowVars, leaseVars, stepVars, leaseRowVars, rowVars
<1> QED BY <1>1, <1>2, <1>3, <1>4, <1>5, <1>6 DEF Next

LEMMA RowsInit == LeaseInit => Rows!Init /\ RowsStillThere
  BY DEF LeaseInit, WorkflowInit, Idle, NoRequest, Rows!Init, RowsStillThere

(* A row that exists goes on existing.                                     *)
LEMMA RowsStay ==
  ASSUME TypeInv, [Rows!Next]_rowVars, NEW s \in Steps
  PROVE  /\ stepStatus[s] # "none" => stepStatus'[s] # "none"
         /\ leaseStatus[s] # "none" => leaseStatus'[s] # "none"
<1> USE DEF TypeInv, LeaseTypeOK, WorkflowTypeOK, WorkflowAssumption, StepStatuses, rowVars
<1>1. CASE \E t \in Steps : Rows!Create(t)
  BY <1>1 DEF Rows!Create
<1>2. CASE \E t \in Steps : Rows!Acquire(t)
  BY <1>2 DEF Rows!Acquire
<1>3. CASE \E t \in Steps : Rows!Release(t)
  BY <1>3 DEF Rows!Release, Rows!Settled
<1>4. CASE \E t \in Steps : Rows!Patch(t)
  BY <1>4 DEF Rows!Patch
<1>5. CASE Rows!Cancel
  BY <1>5 DEF Rows!Cancel
<1>6. CASE \E S \in SUBSET Steps : Rows!Reclaim(S)
  BY <1>6 DEF Rows!Reclaim
<1>7. CASE UNCHANGED rowVars
  BY <1>7
<1> QED BY <1>1, <1>2, <1>3, <1>4, <1>5, <1>6, <1>7 DEF Rows!Next

(* A handler that is about to write a row found it, now or earlier.        *)
LEMMA CallFound ==
  ASSUME TypeInv, RowsStillThere, [Next]_vars, NEW c \in Clients,
         call'[c].at \in {"updateRow", "updateWrite"}
  PROVE  call'[c].step \in Steps /\ stepStatus[call'[c].step] # "none"
<1> USE DEF TypeInv, LeaseTypeOK, WorkflowTypeOK, CallShape, CallFits, RowsStillThere
<1>1. CASE call'[c] = call[c]
  BY <1>1
<1>2. CASE ClientNext(c)
  <2>1. CASE UpdateStepStart(c)
    BY <2>1 DEF UpdateStepStart, Idle, Exists
  <2>2. CASE UpdateStepRow(c)
    BY <2>2 DEF UpdateStepRow, Call
  <2>3. CASE ~UpdateStepStart(c) /\ ~UpdateStepRow(c)
    <3>1. CASE CreateStepStart(c)
      BY <3>1 DEF CreateStepStart, Idle
    <3>2. CASE ReplayStart(c)
      <4>1. PICK l \in Letters :
              call' = [call EXCEPT ![c] = [Idle EXCEPT !.at = "createMax",
                         !.name = stepName[letterStep[l]], !.status = "pending",
                         !.letter = l, !.wf = wfStatus]]
        BY <3>2 DEF ReplayStart
      <4> QED BY <4>1 DEF Idle
    <3>3. CASE CreateStepMax(c)
      BY <3>3 DEF CreateStepMax, Call
    <3>4. CASE CreateStepInsert(c)
      BY <3>4 DEF CreateStepInsert, Idle
    <3>5. CASE ReplayDelete(c) \/ UpdateStepWrite(c) \/ AbortCall(c)
      BY <3>5 DEF ReplayDelete, UpdateStepWrite, AbortCall, Idle
    <3> QED BY <1>2, <2>3, <3>1, <3>2, <3>3, <3>4, <3>5 DEF ClientNext
  <2> QED BY <2>1, <2>2, <2>3
<1>3. CASE call'[c] # call[c] /\ ~ClientNext(c)
  <2>1. ASSUME NEW d \in Clients, ClientNext(d) PROVE d = c
    <3>1. \A e \in Clients \ {d} : call'[e] = call[e]
      <4>1. CASE CreateStepStart(d) \/ UpdateStepStart(d) \/ ReplayStart(d)
        BY <4>1 DEF CreateStepStart, UpdateStepStart, ReplayStart
      <4>2. CASE CreateStepMax(d) \/ UpdateStepRow(d)
        BY <4>2 DEF CreateStepMax, UpdateStepRow
      <4>3. CASE CreateStepInsert(d) \/ UpdateStepWrite(d) \/ ReplayDelete(d) \/ AbortCall(d)
        BY <4>3 DEF CreateStepInsert, UpdateStepWrite, ReplayDelete, AbortCall
      <4> QED BY <2>1, <4>1, <4>2, <4>3 DEF ClientNext
    <3> QED BY <1>3, <3>1
  <2> QED BY <1>3, <2>1 DEF Next, WorkflowNext, DeleteDlq, CancelWorkflow, Tick, WorkerNext,
     AcquireStart, AcquireTxn, AcquireRefused, HeartbeatRead, HeartbeatWrite, ReleaseStart,
     ReleaseLease, ReleaseRow, ReleaseWrite, AbortRequest, SweepSelect, SweepWrite,
     SweepAbort, vars, workflowVars
<1> QED BY <1>1, <1>2, <1>3

LEMMA RequestFound ==
  ASSUME TypeInv, RowsStillThere, [Next]_vars, NEW r \in Requests,
         req'[r].at \in {"releaseLease", "releaseRow", "releaseWrite"}
  PROVE  req'[r].step \in Steps /\ leaseStatus[req'[r].step] # "none"
<1> USE DEF TypeInv, LeaseTypeOK, WorkflowTypeOK, RequestShape, RequestFits, RowsStillThere
<1>1. CASE req'[r] = req[r]
  BY <1>1
<1>2. CASE WorkerNext(r)
  <2>1. CASE ReleaseStart(r)
    BY <2>1 DEF ReleaseStart, NoRequest
  <2>2. CASE ReleaseLease(r)
    BY <2>2 DEF ReleaseLease, NoRequest, Request
  <2>3. CASE ReleaseRow(r)
    BY <2>3 DEF ReleaseRow, Request
  <2>4. CASE ~ReleaseStart(r) /\ ~ReleaseLease(r) /\ ~ReleaseRow(r)
    <3>1. CASE AcquireStart(r)
      BY <3>1 DEF AcquireStart, NoRequest
    <3>2. CASE HeartbeatRead(r)
      BY <3>2 DEF HeartbeatRead, NoRequest
    <3>3. CASE req' = [req EXCEPT ![r] = NoRequest]
      BY <3>3 DEF NoRequest
    <3> QED BY <1>2, <2>4, <3>1, <3>2, <3>3 DEF WorkerNext, AcquireTxn, AcquireRefused,
       HeartbeatWrite, ReleaseWrite, AbortRequest
  <2> QED BY <2>1, <2>2, <2>3, <2>4
<1>3. CASE req'[r] # req[r] /\ ~WorkerNext(r)
  <2>1. ASSUME NEW q \in Requests, WorkerNext(q) PROVE q = r
    <3>1. \A p \in Requests \ {q} : req'[p] = req[p]
      <4>1. CASE AcquireStart(q) \/ HeartbeatRead(q) \/ ReleaseStart(q)
        <5>1. CASE AcquireStart(q)
          BY <5>1 DEF AcquireStart
        <5>2. CASE HeartbeatRead(q)
          BY <5>2 DEF HeartbeatRead
        <5>3. CASE ReleaseStart(q)
          BY <5>3 DEF ReleaseStart
        <5> QED BY <4>1, <5>1, <5>2, <5>3
      <4>2. CASE ReleaseLease(q) \/ ReleaseRow(q)
        BY <4>2 DEF ReleaseLease, ReleaseRow
      <4>3. CASE \/ AcquireTxn(q) \/ AcquireRefused(q) \/ HeartbeatWrite(q)
                 \/ ReleaseWrite(q) \/ AbortRequest(q)
        <5>1. req' = [req EXCEPT ![q] = NoRequest]
          BY <4>3 DEF AcquireTxn, AcquireRefused, HeartbeatWrite, ReleaseWrite, AbortRequest
        <5> QED BY <5>1
      <4> QED BY <2>1, <4>1, <4>2, <4>3 DEF WorkerNext
    <3> QED BY <1>3, <3>1
  <2> QED BY <1>3, <2>1 DEF Next, SweepSelect, SweepWrite, SweepAbort, vars, leaseVars
<1> QED BY <1>1, <1>2, <1>3

LEMMA SweepFound ==
  ASSUME TypeInv, RowsStillThere, [Next]_vars, NEW s \in sweep'
  PROVE  s \in Steps /\ leaseStatus[s] # "none"
  BY DEF TypeInv, LeaseTypeOK, RowsStillThere, Next, SweepSelect, SweepWrite, SweepAbort, Stale,
     vars, leaseVars, WorkerNext, AcquireStart, AcquireTxn, AcquireRefused, HeartbeatRead,
     HeartbeatWrite, ReleaseStart, ReleaseLease, ReleaseRow, ReleaseWrite, AbortRequest

LEMMA RowsStillThereNext == TypeInv /\ RowsStillThere /\ [Next]_vars => RowsStillThere'
<1> SUFFICES ASSUME TypeInv, RowsStillThere, [Next]_vars PROVE RowsStillThere'
  OBVIOUS
<1>1. [Rows!Next]_rowVars
  BY StepMove
<1> QED BY <1>1, RowsStay, CallFound, RequestFound, SweepFound DEF RowsStillThere

(* The workspace service keeps the promises of StepLease: whatever calls   *)
(* overlap or are cut short, the two rows of a step only make its moves.   *)
THEOREM Refinement == Spec => ImplementsStepLease
<1>1. Spec => [](TypeInv /\ RowsStillThere)
  BY TypeInvariant, RowsInit, RowsStillThereNext, PTL DEF Spec
<1>2. TypeInv /\ RowsStillThere /\ [Next]_vars => [Rows!Next]_<<stepStatus, leaseStatus>>
  BY StepMove DEF rowVars
<1> QED BY <1>1, <1>2, RowsInit, PTL DEF Spec, ImplementsStepLease, Rows!Spec

(* As long as nobody PATCHes a step to 'running', no leased step runs      *)
(* without a running lease, so the reaper can see it.                      *)
THEOREM NoOrphan ==
  ASSUME PatchStatuses \subseteq {"completed", "failed", "cancelled"}
  PROVE  Spec => []NoOrphanRunning
<1>1. Rows!Spec => []Rows!NoOrphan
  BY Rows!NoOrphanCorrect DEF Rows!Settled
<1>2. Rows!NoOrphan <=> NoOrphanRunning
  BY DEF Rows!NoOrphan, NoOrphanRunning
<1> QED BY <1>1, <1>2, Refinement, PTL DEF ImplementsStepLease

(* When nobody PATCHes leased steps, a running lease is for a step that    *)
(* runs or was cancelled.                                                  *)
THEOREM HeldRuns ==
  ASSUME PatchStatuses = {}
  PROVE  Spec => []HeldStepIsRunning
<1>1. Rows!Spec => []Rows!HeldRuns
  BY Rows!HeldRunsCorrect
<1>2. Rows!HeldRuns <=> HeldStepIsRunning
  BY DEF Rows!HeldRuns, HeldStepIsRunning
<1> QED BY <1>1, <1>2, Refinement, PTL DEF ImplementsStepLease
================================================================================
