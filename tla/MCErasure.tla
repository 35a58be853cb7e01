-------------------------------- MODULE MCErasure --------------------------------
(* Erasure for TLC: a tenant whose one workspace holds everything, or        *)
(* nothing, and who writes to it, or to a second one, while it is erased     *)
(* once ("erasing"), or whose one workspace is erased twice at the same time *)
(* by both services ("overlapping").                                         *)
EXTENDS Erasure

CONSTANTS k1, k2, j1, j2

Full == {x \in Rows : x[1] # k2}
Empty == {Tenant, <<k1, "workspace">>}
BegunErasure == rows \in {Full, Empty} /\ ErasureInit

Written(new) == rows' \ rows \subseteq new

\* One job.
ErasingNext ==
  /\ ErasureNext
  /\ Written(({k1} \X {"workflow", "step", "lease"}) \cup ({k2} \X {"workspace", "content"}))
  /\ job'[j2] = NoJob

\* Everything is stored, and only the workspace's URL is set.
HalfSpec == BegunErasure /\ rows = Full /\ urls = {"workspace"} /\ [][ErasingNext]_erasureVars

\* Two jobs of one token, or of two, the second asking after the first; only
\* the workspace may not answer in time.
Succeeds(j) ==
  \/ AskErasure(j) \/ ReadToken(j) \/ ConsumeToken(j) \/ CreateJob(j) \/ StartJob(j)
  \/ WorkspaceAnswers(j) \/ WorkspaceFails(j) \/ GatewayAnswers(j)
  \/ DeleteIdentityData(j) \/ CompleteJob(j)
  \/ ReadWorkspaces(j) \/ ReadWorkflows(j) \/ ReadSteps(j) \/ Cascade(j)
  \/ (\E t \in GatewayTables : ClearTable(j, t)) \/ ClearCache(j)

OverlappingNext ==
  /\ UNCHANGED urls
  /\ (\E x \in Rows : StoreRow(x)) \/ Confirm \/ (\E j \in Jobs : Succeeds(j))
  /\ Written({<<k1, "workflow">>})
  /\ job'[j1] = NoJob => job'[j2] = NoJob
================================================================================
