--------------------------------- MODULE Erasure ---------------------------------
(***************************************************************************)
(* The erasure of one tenant (not "default"): identity takes a confirm     *)
(* token, records a job and asks the workspace service, the gateway and    *)
(* itself, in this order, to delete what they store (compliance.py of the  *)
(* three).  Each service's call is a handler of its own, which goes on     *)
(* when identity no longer waits for it.  A service that identity has no   *)
(* URL of, as in the defaults, is skipped; the settings do not change.     *)
(* A row <<owner, kind>> stands for the tenant's rows of a kind, in one of *)
(* its workspaces or in a service's own tables.  The tenant may go on      *)
(* writing.  Left out: blob files (best effort), the tenant's own          *)
(* deletions, the building of exports (an export that is ready is a row).  *)
(***************************************************************************)

CONSTANTS
  Workspaces,
  GatewayTables,   \* _TABLE_SPECS
  Jobs             \* calls of DELETE .../data

VARIABLES
  rows,      \* what is stored of the tenant
  urls,      \* identity's settings: the services it has a URL of
  confirmed, \* is there a confirm token
  job,       \* the calls, with their rows of delete_jobs
  wsCall,    \* the workspace's handler of each job
  gwCall,    \* the gateway's
  owed       \* ghost: what was stored when the job was recorded, and still is

erasureVars == <<rows, urls, confirmed, job, wsCall, gwCall, owed>>

\* What a row needs when it is written.  Rows of the first three refer to their
\* parent by a foreign key; leases and dead letters do not.
Parent == [content |-> "workspace", workflow |-> "workspace", step |-> "workflow",
           lease |-> "step", letter |-> "step"]
Children == DOMAIN Parent
Keyed == {"content", "workflow", "step"}

\* A service is no workspace, and the gateway's tables have names of their own.
ASSUME ErasureAssumption ==
  /\ {"gateway", "identity"} \cap Workspaces = {}
  /\ GatewayTables \cap ({"workspace", "transactions"} \cup Children) = {}

Tenant == <<"identity", "tenants">>
Rows == (Workspaces \X ({"workspace"} \cup Children))
          \cup ({"gateway"} \X (GatewayTables \cup {"transactions"}))
          \cup ({"identity"} \X {"tenants", "issued_tokens", "export_jobs"})

Service(x) == IF x[1] \in Workspaces THEN "workspace" ELSE x[1]

NoCall == [at |-> "none", spaces |-> {}, flows |-> {}, steps |-> {}]
NoJob == [at |-> "none", status |-> "none", errors |-> {}]

\* The rows may hold anything a tenant can have stored.
KeysHold(stored) ==
  \A x \in stored : x[2] \in Keyed => <<x[1], Parent[x[2]]>> \in stored
ErasureInit ==
  /\ rows \in SUBSET Rows /\ KeysHold(rows)
  /\ urls \in SUBSET {"workspace", "gateway"}
  /\ confirmed = FALSE
  /\ job = [j \in Jobs |-> NoJob]
  /\ wsCall = [j \in Jobs |-> NoCall]
  /\ gwCall = [j \in Jobs |-> [at |-> "none", tables |-> {}]]
  /\ owed = [j \in Jobs |-> {}]

JobPoints == {"none", "token", "consume", "create", "start", "workspace",
              "gateway", "identity", "record", "end"}
CallPoints == {"none", "sent", "workflows", "steps", "delete", "done", "failed"}
JobRecords == [at : JobPoints,
               status : {"none", "pending", "in_progress", "completed", "failed"},
               errors : SUBSET {"workspace", "gateway"}]
WsCalls == [at : CallPoints, spaces : SUBSET Workspaces,
            flows : SUBSET Workspaces, steps : SUBSET Workspaces]
GwCalls == [at : {"none", "sent", "done", "failed"}, tables : SUBSET GatewayTables]
ErasureTypeOK ==
  /\ rows \subseteq Rows /\ KeysHold(rows) /\ urls \subseteq {"workspace", "gateway"}
  /\ confirmed \in BOOLEAN
  /\ job \in [Jobs -> JobRecords]
  /\ wsCall \in [Jobs -> WsCalls] /\ gwCall \in [Jobs -> GwCalls]
  /\ owed \in [Jobs -> SUBSET Rows]
--------------------------------------------------------------------------------
(* The tenant's agents, whose services do not know of the erasure.  A      *)
(* tenant that was erased is not created again.                            *)
StoreRow(x) ==
  /\ x \notin rows /\ x # Tenant
  /\ x[2] \in Children => <<x[1], Parent[x[2]]>> \in rows
  /\ rows' = rows \cup {x}
  /\ UNCHANGED <<confirmed, job, wsCall, gwCall, owed>>

Erase(gone) ==
  /\ rows' = rows \ gone
  /\ owed' = [j \in Jobs |-> owed[j] \ gone]
--------------------------------------------------------------------------------
(* Identity: POST .../delete-data-confirm and DELETE .../data.             *)
Confirm ==
  /\ Tenant \in rows /\ ~confirmed
  /\ confirmed' = TRUE
  /\ UNCHANGED <<rows, job, wsCall, gwCall, owed>>

ConfirmExpires ==
  /\ confirmed /\ confirmed' = FALSE
  /\ UNCHANGED <<rows, job, wsCall, gwCall, owed>>

Moves(j, to) == job' = [job EXCEPT ![j].at = to]

AskErasure(j) ==
  /\ job[j].at = "none" /\ Tenant \in rows
  /\ Moves(j, "token")
  /\ UNCHANGED <<rows, confirmed, wsCall, gwCall, owed>>

ReadToken(j) ==
  /\ job[j].at = "token"
  /\ Moves(j, IF confirmed THEN "consume" ELSE "none")
  /\ UNCHANGED <<rows, confirmed, wsCall, gwCall, owed>>

\* DELETE ... WHERE confirm_token, whether or not it is still there.
ConsumeToken(j) ==
  /\ job[j].at = "consume"
  /\ confirmed' = FALSE
  /\ Moves(j, "create")
  /\ UNCHANGED <<rows, wsCall, gwCall, owed>>

\* Is another job's cascade under way in the workspace service?
CascadeRuns == \E j \in Jobs : wsCall[j].at \notin {"none", "done", "failed"}

\* A lease is found by its step, and not if another cascade takes the step.
Owed == {x \in rows : x[2] = "lease" =>
                        <<x[1], "step">> \in rows /\ ~CascadeRuns}

CreateJob(j) ==
  /\ job[j].at = "create"
  /\ job' = [job EXCEPT ![j].at = "start", ![j].status = "pending"]
  /\ owed' = [owed EXCEPT ![j] = Owed]
  /\ UNCHANGED <<rows, confirmed, wsCall, gwCall>>

\* if gateway_url
AskGateway(j, errors) ==
  /\ "gateway" \in urls
  /\ job' = [job EXCEPT ![j] =
       [at |-> "gateway", status |-> "in_progress", errors |-> errors]]
  /\ gwCall' = [gwCall EXCEPT ![j] = [at |-> "sent", tables |-> GatewayTables]]

SkipGateway(j, errors) ==
  /\ "gateway" \notin urls
  /\ job' = [job EXCEPT ![j] =
       [at |-> "identity", status |-> "in_progress", errors |-> errors]]
  /\ UNCHANGED gwCall

PastWorkspace(j, errors) ==
  /\ AskGateway(j, errors) \/ SkipGateway(j, errors)
  /\ UNCHANGED <<rows, confirmed, wsCall, owed>>

StartJob(j) ==
  /\ job[j].at = "start" /\ "workspace" \in urls
  /\ job' = [job EXCEPT ![j].at = "workspace", ![j].status = "in_progress"]
  /\ wsCall' = [wsCall EXCEPT ![j].at = "sent"]
  /\ UNCHANGED <<rows, confirmed, gwCall, owed>>

\* if workspace_url
SkipWorkspace(j) ==
  /\ job[j].at = "start" /\ "workspace" \notin urls
  /\ PastWorkspace(j, {})

WorkspaceAnswers(j) ==
  /\ job[j].at = "workspace" /\ wsCall[j].at = "done"
  /\ PastWorkspace(j, {})

\* Refused, an error, or no answer in time: noted in deleted_counts.
MutWorkspaceFails(j) ==   \* mutant: not noted
  job[j].at = "workspace" /\ PastWorkspace(j, {})
WorkspaceFails(j) ==
  job[j].at = "workspace" /\ PastWorkspace(j, {"workspace"})

GatewayAnswers(j) ==
  /\ job[j].at = "gateway" /\ gwCall[j].at = "done"
  /\ Moves(j, "identity")
  /\ UNCHANGED <<rows, confirmed, wsCall, gwCall, owed>>

GatewayFails(j) ==
  /\ job[j].at = "gateway"
  /\ job' = [job EXCEPT ![j].at = "identity", ![j].errors = @ \cup {"gateway"}]
  /\ UNCHANGED <<rows, confirmed, wsCall, gwCall, owed>>

DeleteIdentityData(j) ==
  /\ job[j].at = "identity"
  /\ Erase({Tenant, <<"identity", "issued_tokens">>})
  /\ Moves(j, "record")
  /\ UNCHANGED <<confirmed, wsCall, gwCall>>

CompleteJob(j) ==
  /\ job[j].at = "record"
  /\ job' = [job EXCEPT ![j].at = "end", ![j].status = "completed"]
  /\ UNCHANGED <<rows, confirmed, wsCall, gwCall, owed>>

\* Identity's own database fails, or an answer that is no JSON.
FailJob(j) ==
  /\ job[j].at \in {"start", "workspace", "gateway", "identity", "record"}
  /\ job' = [job EXCEPT ![j].at = "end", ![j].status = "failed"]
  /\ UNCHANGED <<rows, confirmed, wsCall, gwCall, owed>>

\* Its calls and background tasks are gone; the rows of delete_jobs stay.
IdentityStops ==
  /\ \E j \in Jobs : job[j].at \notin {"none", "end"}
  /\ job' = [j \in Jobs |-> IF job[j].at = "none" THEN job[j]
                            ELSE [job[j] EXCEPT !.at = "end"]]
  /\ UNCHANGED <<rows, confirmed, wsCall, gwCall, owed>>
--------------------------------------------------------------------------------
(* The workspace's DELETE /v1/admin/tenant/{id}/data: three reads, then    *)
(* one transaction.                                                        *)
Storing(spaces, kind) == {w \in spaces : <<w, kind>> \in rows}

ReadWorkspaces(j) ==
  /\ wsCall[j].at = "sent"
  /\ wsCall' = [wsCall EXCEPT ![j].at = "workflows",
                              ![j].spaces = Storing(Workspaces, "workspace")]
  /\ UNCHANGED <<rows, confirmed, job, gwCall, owed>>

ReadWorkflows(j) ==
  /\ wsCall[j].at = "workflows"
  /\ wsCall' = [wsCall EXCEPT ![j].at = "steps",
                              ![j].flows = Storing(wsCall[j].spaces, "workflow")]
  /\ UNCHANGED <<rows, confirmed, job, gwCall, owed>>

ReadSteps(j) ==
  /\ wsCall[j].at = "steps"
  /\ wsCall' = [wsCall EXCEPT ![j].at = "delete",
                              ![j].steps = Storing(wsCall[j].flows, "step")]
  /\ UNCHANGED <<rows, confirmed, job, gwCall, owed>>

Deleted(j) ==
  (wsCall[j].steps \X {"lease"}) \cup (wsCall[j].flows \X {"step"})
    \cup (wsCall[j].spaces \X {"content", "workflow"}) \cup (Workspaces \X {"workspace"})

Cascade(j) ==
  /\ wsCall[j].at = "delete" /\ KeysHold(rows \ Deleted(j))
  /\ Erase(Deleted(j))
  /\ wsCall' = [wsCall EXCEPT ![j].at = "done"]
  /\ UNCHANGED <<confirmed, job, gwCall>>

\* What was written since the reads keeps its parent; or the call is lost.
CascadeFails(j) ==
  /\ wsCall[j].at \notin {"none", "done", "failed"}
  /\ wsCall' = [wsCall EXCEPT ![j].at = "failed"]
  /\ UNCHANGED <<rows, confirmed, job, gwCall, owed>>

(* The gateway's: each table in a transaction of its own, then the cache.  *)
ClearTable(j, t) ==
  /\ gwCall[j].at = "sent" /\ t \in gwCall[j].tables
  /\ Erase({<<"gateway", t>>})
  /\ gwCall' = [gwCall EXCEPT ![j].tables = @ \ {t}]
  /\ UNCHANGED <<confirmed, job, wsCall>>

ClearCache(j) ==
  /\ gwCall[j].at = "sent" /\ gwCall[j].tables = {}
  /\ gwCall' = [gwCall EXCEPT ![j].at = "done"]
  /\ UNCHANGED <<rows, confirmed, job, wsCall, owed>>

ClearFails(j) ==
  /\ gwCall[j].at = "sent"
  /\ gwCall' = [gwCall EXCEPT ![j].at = "failed"]
  /\ UNCHANGED <<rows, confirmed, job, wsCall, owed>>

ErasureNext ==
  /\ UNCHANGED urls
  /\ \/ \E x \in Rows : StoreRow(x)
     \/ Confirm \/ ConfirmExpires \/ IdentityStops
     \/ \E j \in Jobs :
          \/ AskErasure(j) \/ ReadToken(j) \/ ConsumeToken(j) \/ CreateJob(j)
          \/ StartJob(j) \/ SkipWorkspace(j) \/ WorkspaceAnswers(j) \/ WorkspaceFails(j)
          \/ GatewayAnswers(j) \/ GatewayFails(j)
          \/ DeleteIdentityData(j) \/ CompleteJob(j) \/ FailJob(j)
          \/ ReadWorkspaces(j) \/ ReadWorkflows(j) \/ ReadSteps(j)
          \/ Cascade(j) \/ CascadeFails(j)
          \/ (\E t \in GatewayTables : ClearTable(j, t)) \/ ClearCache(j) \/ ClearFails(j)

ErasureSpec == ErasureInit /\ [][ErasureNext]_erasureVars
--------------------------------------------------------------------------------
\* What no step of the cascade looks for.
Overlooked == {"letter", "transactions", "export_jobs"}

\* Stored in a service that identity never asks.
Skipped(x) == Service(x) \in {"workspace", "gateway"} \ urls

(* "Partial failure still completes downstream steps and surfaces the      *)
(* error" (docs/compliance.md): whatever the tenant writes meanwhile, and  *)
(* whichever calls are late, lost or overlap, when a job is completed      *)
(* nothing that the cascade deletes and was stored when the job was        *)
(* recorded is left, except in a service it notes an error for and in one  *)
(* it has no URL of, which it skips without a note.                        *)
CompletedErased ==
  \A j \in Jobs : job[j].status = "completed" =>
    \A x \in owed[j] :
      x[2] \in Overlooked \/ Service(x) \in job[j].errors \/ Skipped(x)

(* "Hard-delete every tenant-scoped row" (compliance.py): a job that is    *)
(* completed with no error leaves nothing that was stored when it was      *)
(* recorded.                                                               *)
ErasedIsGone ==
  \A j \in Jobs : job[j].status = "completed" /\ job[j].errors = {} => owed[j] = {}
================================================================================
