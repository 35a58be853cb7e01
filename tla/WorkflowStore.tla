----------------------------- MODULE WorkflowStore -----------------------------
(***************************************************************************)
(* The workflow log of the workspace service (workflows.py): one workflow, *)
(* its step rows and its dead-letter rows, under concurrent API calls.     *)
(*                                                                         *)
(* A handler opens its own SQLite connection.  Its SELECTs run in          *)
(* autocommit mode and its first DML statement takes the write lock until  *)
(* COMMIT, so a handler is a sequence of separate reads followed by one    *)
(* atomic write: `call[c]' holds how far the handler of client c has come  *)
(* and what it read on the way.  Workflows share no rows, so one workflow  *)
(* (row `wfStatus', manifest Names) stands for each of them.               *)
(***************************************************************************)
EXTENDS Naturals

CONSTANTS
  Clients,        \* API calls in flight at the same time
  Steps,          \* step rows that may be created
  Names,          \* the manifest
  Letters,        \* dead-letter rows that may be created
  RetryLimits,    \* max_attempts of a step; 0 stands for retry_policy 'none'
  Delays,         \* what compute_retry_delay may return, in clock ticks
  PatchStatuses,  \* statuses the API's callers PATCH a step to
  MaxNow,         \* bound of the clock
  NULL

StepStatuses == {"pending", "running", "completed", "failed", "cancelled"}
WfStatuses == {"pending", "running", "completed", "failed", "cancelled"}

ASSUME WorkflowAssumption ==
  /\ NULL \notin Steps \cup Names \cup Letters
  /\ Names # {}
  /\ RetryLimits \subseteq Nat
  /\ Delays \subseteq Nat
  /\ PatchStatuses \subseteq StepStatuses \ {"pending"}
  /\ MaxNow \in Nat \ {0}

VARIABLES
  wfStatus,    \* workflows.status
  stepStatus,  \* workflow_steps.status; "none" while the row does not exist
  stepName,    \* workflow_steps.name
  attempt,     \* workflow_steps.attempt
  retryLimit,  \* workflow_steps.max_attempts and retry_policy
  nextRetry,   \* workflow_steps.next_retry_at; 0 is NULL
  replayOf,    \* the dead letter whose input the row inherited, if any
  letter,      \* workflow_dlq: what became of each row
  letterStep,  \* workflow_dlq.step_id
  call,        \* the handlers in flight
  now          \* wall clock

stepVars == <<stepStatus, stepName, attempt, retryLimit, nextRetry, replayOf>>
dlqVars == <<letter, letterStep>>
workflowVars == <<wfStatus, stepVars, dlqVars, call, now>>

LetterStates == {"none", "dead", "replayed", "dismissed"}
CallPoints ==
  {"idle", "createMax", "createInsert", "replayDelete", "updateRow", "updateWrite"}
Call == [at     : CallPoints,
         name   : Names \cup {NULL},     \* step name to create
         step   : Steps \cup {NULL},     \* step row to update
         status : StepStatuses \cup {"none"},
         limit  : RetryLimits \cup {0},
         letter : Letters \cup {NULL},   \* dead letter being replayed
         wf     : WfStatuses \cup {"none"}, \* workflow status as read
         att    : Nat,                   \* attempt as read
         ts     : Nat]                   \* now_utc() of the handler

Idle == [at |-> "idle", name |-> NULL, step |-> NULL, status |-> "none",
         limit |-> 0, letter |-> NULL, wf |-> "none", att |-> 0, ts |-> 0]

(* Every column of every table has a value of its declared type, and a     *)
(* handler in flight remembers values it may have read.                    *)
WorkflowTypeOK ==
  /\ wfStatus \in WfStatuses
  /\ stepStatus \in [Steps -> StepStatuses \cup {"none"}]
  /\ stepName \in [Steps -> Names \cup {NULL}]
  /\ attempt \in [Steps -> Nat]
  /\ retryLimit \in [Steps -> RetryLimits \cup {0}]
  /\ nextRetry \in [Steps -> Nat]
  /\ replayOf \in [Steps -> Letters \cup {NULL}]
  /\ letter \in [Letters -> LetterStates]
  /\ letterStep \in [Letters -> Steps \cup {NULL}]
  /\ call \in [Clients -> Call]
  /\ now \in 1..MaxNow

WorkflowInit ==
  /\ wfStatus = "pending"
  /\ stepStatus = [s \in Steps |-> "none"]
  /\ stepName = [s \in Steps |-> NULL]
  /\ attempt = [s \in Steps |-> 0]
  /\ retryLimit = [s \in Steps |-> 0]
  /\ nextRetry = [s \in Steps |-> 0]
  /\ replayOf = [s \in Steps |-> NULL]
  /\ letter = [l \in Letters |-> "none"]
  /\ letterStep = [l \in Letters |-> NULL]
  /\ call = [c \in Clients |-> Idle]
  /\ now = 1

--------------------------------------------------------------------------------
Exists(s) == stepStatus[s] # "none"
RowsOf(n) == {s \in Steps : Exists(s) /\ stepName[s] = n}

(* `_maybe_update_workflow_status': the status derived from the step rows  *)
(* `status', left alone when no rule applies.                              *)
HasStatus(n, v, status) == \E s \in Steps : stepName[s] = n /\ status[s] = v
DerivedStatus(status) ==
  IF \A n \in Names : HasStatus(n, "completed", status)
  THEN "completed"
  ELSE IF \E n \in Names : /\ HasStatus(n, "failed", status)
                           /\ ~HasStatus(n, "completed", status)
  THEN "failed"
  ELSE wfStatus

(* The derivation is skipped when the workflow row read at the start of    *)
(* the handler was cancelled; it sees the handler's own write.             *)
MaybeUpdateWorkflowStatus(seen) ==
  wfStatus' = IF seen = "cancelled" THEN wfStatus ELSE DerivedStatus(stepStatus')

CopyStepToDlq(s) ==
  \E l \in Letters :
    /\ letter[l] = "none"
    /\ letter' = [letter EXCEPT ![l] = "dead"]
    /\ letterStep' = [letterStep EXCEPT ![l] = s]

ShouldRetry(s, status, att) == status = "failed" /\ att < retryLimit[s]

(* A failed attempt with attempts left goes back to the pool.              *)
RetryStep(s, att, ts) ==
  /\ stepStatus' = [stepStatus EXCEPT ![s] = "pending"]
  /\ attempt' = [attempt EXCEPT ![s] = att + 1]
  /\ \E d \in Delays : nextRetry' = [nextRetry EXCEPT ![s] = ts + d]
  /\ UNCHANGED dlqVars

MutSettleStep(s, status) ==   \* mutant: the dead letter is forgotten
  /\ stepStatus' = [stepStatus EXCEPT ![s] = status]
  /\ nextRetry' = [nextRetry EXCEPT ![s] = 0]
  /\ UNCHANGED <<attempt, dlqVars>>
(* Any other new status is written as it is; a final failure is also       *)
(* copied to the dead-letter table, in the same transaction.               *)
SettleStep(s, status) ==
  /\ stepStatus' = [stepStatus EXCEPT ![s] = status]
  /\ nextRetry' = [nextRetry EXCEPT ![s] = 0]
  /\ IF status = "failed" THEN CopyStepToDlq(s) ELSE UNCHANGED dlqVars
  /\ UNCHANGED attempt

WriteOutcome(s, status, att, ts) ==
  /\ IF ShouldRetry(s, status, att) THEN RetryStep(s, att, ts)
                                    ELSE SettleStep(s, status)
  /\ UNCHANGED <<stepName, retryLimit, replayOf>>

--------------------------------------------------------------------------------
(* The first step to start takes the workflow out of 'pending', as judged  *)
(* by the workflow row read at the start of the handler.                   *)
MutStatusOnStart(seen) == wfStatus   \* mutant: the bump is forgotten
StatusOnStart(seen) == IF seen = "pending" THEN "running" ELSE wfStatus

(* Bound: no call starts that would need more rows than Steps has.         *)
RowsLeft == \E s \in Steps : ~Exists(s)

(* POST .../steps: the handler reads the workflow row, then the largest    *)
(* attempt of that name, then inserts the row.                             *)
CreateStepStart(c) ==
  /\ call[c].at = "idle"
  /\ RowsLeft
  /\ \E n \in Names, initial \in {"pending", "running"}, lim \in RetryLimits :
       call' = [call EXCEPT ![c] = [Idle EXCEPT !.at = "createMax", !.name = n,
                  !.status = initial, !.limit = lim, !.wf = wfStatus]]
  /\ UNCHANGED <<wfStatus, stepVars, dlqVars, now>>

MutCreateStepMax(c) ==   \* mutant: a replay deletes its letter without a new step
  /\ call[c].at = "createMax"
  /\ call' = [call EXCEPT ![c].at = IF @ = "createMax" /\ call[c].letter # NULL
                                    THEN "replayDelete" ELSE "createInsert"]
  /\ UNCHANGED <<wfStatus, stepVars, dlqVars, now>>
CreateStepMax(c) ==
  /\ call[c].at = "createMax"
  /\ \E m \in {0} \cup {attempt[s] : s \in RowsOf(call[c].name)} :
       /\ \A s \in RowsOf(call[c].name) : attempt[s] <= m
       /\ call' = [call EXCEPT ![c].at = "createInsert", ![c].att = m]
  /\ UNCHANGED <<wfStatus, stepVars, dlqVars, now>>

CreateStepInsert(c) ==
  /\ call[c].at = "createInsert"
  /\ \E s \in Steps :
       /\ ~Exists(s)
       /\ stepStatus' = [stepStatus EXCEPT ![s] = call[c].status]
       /\ stepName' = [stepName EXCEPT ![s] = call[c].name]
       /\ attempt' = [attempt EXCEPT ![s] = call[c].att + 1]
       /\ retryLimit' = [retryLimit EXCEPT ![s] = call[c].limit]
       /\ replayOf' = [replayOf EXCEPT ![s] = call[c].letter]
  /\ wfStatus' = IF call[c].status = "running" THEN StatusOnStart(call[c].wf) ELSE wfStatus
  /\ call' = [call EXCEPT ![c] =
                IF call[c].letter = NULL THEN Idle
                ELSE [Idle EXCEPT !.at = "replayDelete", !.letter = call[c].letter]]
  /\ UNCHANGED <<nextRetry, dlqVars, now>>

(* POST .../dlq/{id}/replay: read the dead letter, create a pending step   *)
(* without retries through create_step, then delete the letter in a        *)
(* transaction of its own.                                                 *)
ReplayStart(c) ==
  /\ call[c].at = "idle"
  /\ RowsLeft
  /\ \E l \in Letters :
       /\ letter[l] = "dead"
       /\ call' = [call EXCEPT ![c] = [Idle EXCEPT !.at = "createMax",
                     !.name = stepName[letterStep[l]], !.status = "pending",
                     !.letter = l, !.wf = wfStatus]]
  /\ UNCHANGED <<wfStatus, stepVars, dlqVars, now>>

ReplayDelete(c) ==
  /\ call[c].at = "replayDelete"
  /\ letter' = [letter EXCEPT ![call[c].letter] = IF @ = "dead" THEN "replayed" ELSE @]
  /\ call' = [call EXCEPT ![c] = Idle]
  /\ UNCHANGED <<wfStatus, stepVars, letterStep, now>>

(* DELETE .../dlq/{id}: an operator dismisses a dead letter.               *)
DeleteDlq(l) ==
  /\ letter[l] = "dead"
  /\ letter' = [letter EXCEPT ![l] = "dismissed"]
  /\ UNCHANGED <<wfStatus, stepVars, letterStep, call, now>>

(* PATCH .../steps/{id}: read the workflow row, then the step row, then    *)
(* write.  The status of the step and any lease on it are not examined.    *)
UpdateStepStart(c) ==
  /\ call[c].at = "idle"
  /\ \E s \in Steps, status \in PatchStatuses :
       /\ Exists(s)
       /\ call' = [call EXCEPT ![c] = [Idle EXCEPT !.at = "updateRow", !.step = s,
                     !.status = status, !.wf = wfStatus]]
  /\ UNCHANGED <<wfStatus, stepVars, dlqVars, now>>

UpdateStepRow(c) ==
  /\ call[c].at = "updateRow"
  /\ call' = [call EXCEPT ![c].at = "updateWrite",
                          ![c].att = attempt[call[c].step], ![c].ts = now]
  /\ UNCHANGED <<wfStatus, stepVars, dlqVars, now>>

UpdateStepWrite(c) ==
  /\ call[c].at = "updateWrite"
  /\ WriteOutcome(call[c].step, call[c].status, call[c].att, call[c].ts)
  /\ MaybeUpdateWorkflowStatus(call[c].wf)
  /\ call' = [call EXCEPT ![c] = Idle]
  /\ UNCHANGED now

(* POST .../cancel: running steps and the workflow, in one transaction;    *)
(* pending steps are left pending.                                         *)
CancelWorkflow ==
  /\ stepStatus' = [s \in Steps |-> IF stepStatus[s] = "running" THEN "cancelled"
                                                               ELSE stepStatus[s]]
  /\ wfStatus' = "cancelled"
  /\ UNCHANGED <<stepName, attempt, retryLimit, nextRetry, replayOf, dlqVars, call, now>>

(* A handler is lost between two of its statements: the process stops, the *)
(* client disconnects, or SQLite stays busy beyond its timeout.            *)
AbortCall(c) ==
  /\ call[c].at # "idle"
  /\ call' = [call EXCEPT ![c] = Idle]
  /\ UNCHANGED <<wfStatus, stepVars, dlqVars, now>>

Tick ==
  /\ now < MaxNow
  /\ now' = now + 1
  /\ UNCHANGED <<wfStatus, stepVars, dlqVars, call>>

ClientNext(c) ==
  \/ CreateStepStart(c) \/ CreateStepMax(c) \/ CreateStepInsert(c)
  \/ ReplayStart(c) \/ ReplayDelete(c)
  \/ UpdateStepStart(c) \/ UpdateStepRow(c) \/ UpdateStepWrite(c)
  \/ AbortCall(c)

(* What happens to the workflow tables; time passes in every module that   *)
(* extends this one, so Tick is left to their next-state relations.        *)
WorkflowNext ==
  \/ \E c \in Clients : ClientNext(c)
  \/ \E l \in Letters : DeleteDlq(l)
  \/ CancelWorkflow

WorkflowSpec == WorkflowInit /\ [][WorkflowNext \/ Tick]_workflowVars

--------------------------------------------------------------------------------
(* A step that failed for good has a dead letter (or had one an operator   *)
(* dealt with): update_step and release_lease copy the row to workflow_dlq *)
(* in the transaction that fails it.                                       *)
FailedStepHasLetter ==
  \A s \in Steps : stepStatus[s] = "failed" =>
    \E l \in Letters : letter[l] # "none" /\ letterStep[l] = s

(* A dead letter leaves the table by a replay only after its successor row *)
(* was created: a replay cut short loses no work.                          *)
ReplayLosesNoLetter ==
  \A l \in Letters : letter[l] = "replayed" => \E s \in Steps : replayOf[s] = l

(* "pending -> no step has been started": as long as no caller PATCHes a   *)
(* step to 'running', a pending workflow has no running step, although     *)
(* every handler decides on the workflow status it read at its start.      *)
PendingWorkflowRunsNothing ==
  wfStatus = "pending" => \A s \in Steps : stepStatus[s] # "running"

(* What a handler in flight read of the workflow status was true once, and *)
(* no write takes a workflow back to 'pending': a status read as something *)
(* else is still something else.                                           *)
SeenStatusIsPast ==
  \A c \in Clients : call[c].wf \notin {"none", "pending"} => wfStatus # "pending"
================================================================================
