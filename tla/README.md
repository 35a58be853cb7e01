# TLA+ specifications of Plinth

Plinth is a set of services that gives AI agents a durable place to work: a
*workspace* service (key-value and file storage, snapshots, channels, workflows
with step leases, locks), a *gateway* that invokes tools (cache, limits, audit,
saga transactions, OAuth), an *identity* service (tokens, revocation, keys), an
LLM *proxy*, a *dashboard*, *workers* that execute workflow steps, and SDKs,
CLIs and MCP servers around them. The specifications here are about the parts
in which several callers, processes and failures meet: the workflow log, its
leases and workers, the channels, locks, storage with its collector and its
replication, the migrations, the gateway's invoke path, its audit chain, OAuth
broker and saga transactions, the identity service's keys, revocations, quotas
and erasures, and the customer accounts with the proxy in front of them. Paths
below are relative to `services/<service>/src/<package>/` unless they say
otherwise.

`PROJECT.json` holds the machine-readable side: components, runs, mutants, the
line-by-line map from definitions to source, findings, hazards and theorems.

## 1. Inventory

### How the services execute

Facts about the host environment which every model rests on:

* **Workspace service.** Each store method opens its own SQLite connection
  (`db.py`, WAL, `foreign_keys=ON`). SELECTs run in autocommit mode; the first
  INSERT/UPDATE/DELETE takes the single write lock and holds it until
  `commit()`. So a handler is *some separate reads, then one atomic write*, and
  whatever it read may be stale by the time it writes. Only
  `LeaseStore._acquire_lease_local` and the acquisition of a resource lock say
  `BEGIN IMMEDIATE`, which puts their reads under the lock too. A handler may
  end between any two statements: the process stops, the client goes away and
  the task is cancelled, or `SQLITE_BUSY` outlasts the busy timeout.
* **Gateway.** One aiosqlite connection is shared; `Database.execute` is one
  statement and its commit. Between any two statements, and while a tool runs,
  other handlers run.
* **Identity.** As the workspace service, with in-memory caches on top; several
  processes may serve one database.
* **Dashboard.** Each statement of the account store commits alone; several
  processes may take Stripe's webhooks.
* **LLM proxy.** One process; handlers interleave at their awaits and share the
  event list, the key cache and the tool cache in memory.
* **Background loops.** The workspace service starts `lease_reaper_loop` (expiry
  sweep every few seconds) and the collector; identity its key rotation loop;
  gateway and workspace poll the revocation list. The replication puller and
  the failover are scripts and a playbook (`docs/multi-region.md`).

### Components

| component | state | operations | interacts with | hard because |
|---|---|---|---|---|
| workflow log, dead letters (`workflows.py`) | `workflows`, `workflow_steps`, `workflow_dlq` | create step, PATCH step, cancel, replay / dismiss a dead letter | leases write the same rows | status derived from stale reads; two-transaction replay |
| step leases, reaper (`leases.py`) | `workflow_step_leases`, `workers` | acquire, heartbeat, release, sweep | workers over HTTP; workflow log; cluster lock | timeouts, dead workers, late answers |
| channels (`channels.py`, `channel_schemas.py`) | `channels`, `channel_messages`, `channel_consumers`, schemas | send, receive, ack, replay, purge, delete | agents | numbering and cursors under concurrent senders and deletions |
| saga transactions (`transactions.py`, `transactions_api.py`) | `transactions`, `transaction_calls`, and the outside world | add call, commit, rollback, delete | tools over HTTP | effects cannot be rolled back by the database; crashes in the middle |
| resource locks, coordination (`resource_locks.py`, `coordination.py`) | `resource_locks`, Redis keys | acquire, heartbeat, release, sweep | lease store, every node | two locks with two clocks |
| storage, replication (`storage.py`, `replication.py`) | `kv_entries`, `file_entries`, blob files, log | put, get, delete, fetch, apply | collector, branches, peers | version = MAX+1; files outside the transaction |
| snapshots, branches, GC (`snapshots.py`, `gc.py`) | `snapshots`, `branches`, retention policies | snapshot, restore, merge, collect | storage | merge and unlink race writers |
| migrations (`migration_runner.py`) | `schema_migrations`, the schema | start, apply, roll back | every service at start | several processes of several versions |
| invocation, cache, limits, cost caps, tenant quotas (gateway) | `agent_limits`, buckets, windows, cache entries, audit sums | invoke, PUT limits, register, delete tool | audit, identity, tools | check before, record after |
| audit chain, anomalies (gateway `audit.py`) | `audit_events` | record, verify, purge | every invocation | read-latest-then-insert |
| OAuth broker (gateway `oauth.py`, `oauth_api.py`) | states, connections, encrypted tokens | authorise, callback, refresh, delete | providers, invocation | refresh races, lost answers |
| signing keys (identity `keys.py`, `jwt_io.py`) | `signing_keys`, the verifiers' caches | rotate, expire, sign, publish | every verifier | several loops on one table, cached sets |
| tokens, revocation (identity `store.py`) | `issued_tokens`, caches, Redis set, cursors | issue, revoke, verify, list | pollers in gateway and workspace | second-granular cursors, several caches |
| quotas (identity and workspace `quotas.py`) | `tenant_quotas`, cached limits | patch, reset, check | every creation | check and creation apart, stale limits |
| erasure (`compliance.py` of three services) | `delete_jobs`, all of a tenant's rows | confirm, delete | three services in a row | partial failure, writers meanwhile |
| accounts, billing (`dashboard`) | accounts, plans, keys | checkout, webhook, rotate key | Stripe, proxy | events late, repeated, out of order |
| LLM proxy | event list, usage, key and tool caches | chat, tool, shape | dashboard, models, tools | one list metered by many requests |
| workers (`worker/`, `worker-ts/`) | slots, heartbeat tasks, `workers` | register, poll, lease, run, heartbeat, release, drain | lease store | shutdown in the middle of a step |
| SDKs, CLIs, embedded service, MCP servers | little of their own | per-request work | all of the above | not concurrency |

What makes each correct, in one line: a step is executed by one worker at a
time and never forgotten; a failed step reaches an operator; a message is
delivered once to a consumer unless receives of its name overlap, in the order
its sender sent it, and none is lost by a replay; the effects of a transaction are all there, or undone, or visible;
a lock is promised to one holder; what a snapshot pins stays readable and a
referenced blob on disk; a replica has a prefix of its primary's log; the
recorded migrations have no gap; limits are overshot by what overlaps and no
more; the audit chain verifies; a connection can be refreshed; one key signs,
and outlives its tokens; a revoked token is refused; a paid plan is paid for and
every token metered; an erased tenant is gone from
every service that was asked.

`hazards` in `PROJECT.json` lists, line by line, what can go wrong and which
property would show it.

## 2. The modules

```
WorkflowStore <-- LeaseStore ......> StepLease (INSTANCE: the abstract lease)
                      ^----- LeaseStoreProofs

Channels <-- ChannelsProofs

ResourceLocks --+
WorkerLoop -----+--> Coordination <-- CoordinationProofs
Migrations -----+

Storage --------+--> WorkspaceStorage <-- StorageProofs
Replication ----+

ToolCalls ------+
AuditChain -----+--> Gateway <-- GatewayProofs (also extends Transactions)
OAuth ----------+

Accounts <-- Proxy --+
Keys ----------------+
Revocation ----------+--> Identity <-- IdentityProofs
Quotas --------------+
Erasure -------------+

NatExtrema (least and greatest of sets of naturals) is under ChannelsProofs,
CoordinationProofs, StorageProofs, GatewayProofs and IdentityProofs.
```

An arrow is EXTENDS. `Coordination`, `WorkspaceStorage`, `Gateway` and
`Identity` state a specification of several modules that share no state (the
conjunction of theirs) and what all of it promises (`CoordinationSound`,
`StorageSound`, `GatewaySound`, `IdentitySound`). The `MC*` modules choose the
behaviours that TLC explores (section 3).

All modules share one convention. A handler in flight is a record (`call[c]`,
`req[r]`, `h[x]`): its field `at` says which of its statements comes next, the
other fields hold what it read on the way. Every database transaction is one
action, every read outside one an action of its own. A handler that is lost
(`AbortCall`, `AbortRequest`, `Lose`) goes back to `Idle` and writes nothing
more. A variable marked ghost or history records what happened, for a property
or a bound, and decides nothing else. What is compared only for equality (ids,
payloads, outputs) is a model value or absent.

### WorkflowStore — `workflows.py`

One workflow with its manifest `Names`, its step rows `Steps` (created on
demand) and its dead letters.

| definition | code |
|---|---|
| `CreateStepStart`, `CreateStepMax`, `CreateStepInsert` | `create_step`: workflow row, `MAX(attempt)`, insert and status bump |
| `UpdateStepStart`, `UpdateStepRow`, `UpdateStepWrite` | `update_step`: workflow row, step row, one write transaction |
| `WriteOutcome` (`RetryStep`, `SettleStep`, `CopyStepToDlq`) | retry with backoff, or settle and copy to the dead-letter table |
| `MaybeUpdateWorkflowStatus`, `DerivedStatus` | `_maybe_update_workflow_status`, which tests the *stale* workflow row |
| `ReplayStart`, `ReplayDelete` | the replay route: `replay_dlq` then `delete_replayed_dlq` |
| `DeleteDlq`, `CancelWorkflow` | dismissal; cancel of running steps and workflow |

Abstracted: inputs, outputs and error texts; listing; the oldest letters being
evicted when the table is at its cap (`Letters` is large enough). `next_retry_at`
is written, but no handler modelled here reads it.

### LeaseStore — `leases.py`

Extends WorkflowStore with the lease columns, the lease requests `req[r]` of
workers, and the reaper (`sweep`: the rows its SELECT returned and its UPDATE
has not yet written). A worker may have several requests in flight at once,
because it heartbeats while its handler runs and because a request whose client
gave up may still be served.

| definition | code |
|---|---|
| `AcquireStart`, `AcquireTxn`, `AcquireRefused` | `acquire_lease`: workflow row before, the rest in `BEGIN IMMEDIATE` |
| `HeartbeatRead`, `HeartbeatWrite` | `heartbeat_lease`: check the row, then `UPDATE ... WHERE step_id` |
| `ReleaseStart`, `ReleaseLease`, `ReleaseRow`, `ReleaseWrite` | `release_lease`: workflow, lease and step row, then one transaction |
| `SweepSelect`, `SweepWrite`, `SweepAbort` | `expire_stale_leases` within `lease_reaper_loop` |
| `HeldTtl`, `LeaseFree`, `Stale`, `Reverted` | the TTL a heartbeat inherits, the test of an existing lease, the sweep's predicate and its effect on a step |

The cluster lock in front of `acquire_lease` (a configured coordination backend)
has the protocol of ResourceLocks; the worker registry is in WorkerLoop.

### StepLease

The promise about the two rows of a step, without handlers: six moves
(`Create`, `Acquire`, `Release`, `Patch`, `Cancel`, `Reclaim`).
`ImplementsStepLease` in LeaseStore is its specification under the mapping
`step <- stepStatus, lease <- leaseStatus`. It is deliberately permissive where
the code is: `Release` does not look at the status of the step or of the lease,
and `Reclaim` may take a lease that is no longer stale. It says that no
interleaving, crash or late answer moves the pair in any *other* way, for
instance the lease without its step.

### Channels — `channels.py`, `channel_schemas.py`

One channel and its dead-letter channel. `place[m]` is the table
row's channel, or how the row left the table; `copied` and `seen` are history.

| definition | code |
|---|---|
| `SendStart`, `SendRow`, `SendCreate`, `SendMax`, `SendInsert`, `SendFailed` | `send` and `_send_raw`: schema, channel row, `MAX(seq)`, insert (or creation of the channel and insert in one transaction); foreign-key and primary-key failures |
| `ReceiveStart`, `ReceiveRows`, `ReceiveWrite` | `receive`: cursor, rows, delivered marks and cursor |
| `ReplayStart`, `ReplayDelete` | `replay_deadletter` around `_send_raw` |
| `BulkStart`, `BulkNext`, `BulkEnd` | `replay_all_deadletter` |
| `DeleteMessages` | acknowledgement, `drop_deadletter`, `purge_deadletter` |
| `DeleteChannelStart`, `DeleteChannel` | deletion of a channel |

`Consumers` are the names that receives pass; nothing in the code keeps two
receives of one name apart, so they may overlap in any number, and each reads
the cursor, then the rows, and writes both later. The last write wins: a receive
that is late moves the cursor back and its successor returns the same messages
again. `raced` is history: the pairs of a consumer and a message that was
returned while another receive of that name was under way.

The schema is a row of its own that any call may set or remove at any moment,
and what it accepts is up to its author. It is therefore not a variable: a
handler that reads it may find any payload valid or not, so a send may go to
either channel, and a replay may stop before it sends (`AbortCall`).

### Transactions — `transactions.py`, `transactions_api.py`

One transaction, its call rows and the outside world: `ran[c]` and `undone[c]`
count how often a tool and its compensation took effect. Every statement of the
gateway commits by itself, so commit is a sequence `CommitStart`, `CommitCalls`,
`CommitMark`, then per call `RunNext`, `Invoke`, `RecordCommitted` or
`RecordFailed`, then `CommitEnd`, or the cascade `UndoMark`, `UndoNext`,
`UndoInvoke`, `UndoRecord`, `UndoEnd`, which rollback shares. `AddSeq` and
`AddInsert` are `next_seq` and `add_call` with the constraint
`UNIQUE (tx_id, seq)`; `DeleteCalls` and `DeleteTx` are the two statements of
`delete`. What a tool does and what its answer says are two things: it may take
effect and be answered, take effect and be recorded 'failed' (a timeout, a lost
connection, an answer that is not JSON), fail without an effect, or take effect
for a handler that is lost (`Lose` after `Invoke`). Or the cache answers: nothing
runs, yet the call is recorded 'committed' and, if the saga is undone,
compensated. `hits` and `undoHits` are history: the calls, and compensations,
that the cache answered. A call is *made* when its tool took effect or the cache
answered (`Made`, `MadeUndone`). `alone` is history too: no two handlers were
ever in flight together.

### ResourceLocks — `resource_locks.py`, `coordination.py`

One lock name on several replicas: `row[r]` is the row of each replica's
database, `key` the Redis key they share, `req[q]` a call in flight, `sweeper`
the reaper loop. `StartAcquire`, `SetNx`, `GetKey`, `Expire`, `Poll`,
`AcquireRow`, `AcquireRefused`, `AcquireUndo` are acquire with its wait loop and
its way back; `HeartbeatRead`, `HeartbeatUpdate`, `HeartbeatAnswer`;
`ReleaseLock`, `ReleaseDrop`; `SweepSelect`, `SweepDelete`, `SweepRelease`;
`LoseCall` ends a call anywhere. Times are what is left of a TTL. `grant` is
history: what a holder was promised and for how long.

### WorkerLoop — `worker.py`, `worker.ts`, the registry in `leases.py`

Workers of both languages around one step. A call of the lease API is one
action, which LeaseStoreProofs justifies. `Claim`, `HandlerEnds`,
`ReleaseLease`, `Heartbeat`, `SlotEnds` are a slot's loop and its heartbeat
task; `Register`, `Stop`, `CancelSlots` (Python only, after the grace period),
`Drain`, `Exit`, `Crash` the worker; `Sweep`, `MarkInactive` the reaper.
`timely` says whether calls of a living worker get through before its lease
expires: what needs it says so.

### Migrations — `migration_runner.py`, the admin routes

Processes of several versions on one database: `Boot`, `BootOne`, `BootEnds`;
`ApplyPending`, `ApplyTo`, `ApplyLocked`, `ApplySingle`; `RollbackTo`,
`RollbackLocked`, `RollbackOne`; `Ends` is a process that dies or fails, with
its lock. `outdated` is history: a rollback began from a plan made before
another runner moved the schema, because the plan is read before the lock.

### Storage — `storage.py`, `snapshots.py`, `gc.py`

One key or one file (`HasBlobs`) of one workspace: `rows` (the versions), `blobs`,
`snaps`, `branches`, the calls `op[w]`, and the collector's pass `gc`. `PutRead`,
`PutBlob`, `InsertRow`, `DeleteRead`; `SnapCapture`, `SnapInsert`; `BranchCheck`,
`BranchInsert`, `DeleteBranch`; `MergeCheck`, `MergeRead`, `MergeVersion`,
`MergeWrite`; `GcStart`, `GcRows`, `GcWrite` (one transaction), then `GcCheck`
and `GcUnlink` for each blob; `DeleteWorkspace`. Rows, snapshots and branches
made while no pass ran are `clean`; only they are promised anything, because the
collector's reads and its transaction are apart.

### Replication — `replication.py`, the middleware of `api.py`

`log[r]` is a region's table. `Mutate` commits a mutation and `AppendEntry` or
`AppendFails` logs it afterwards; `PullStatus`, `PullLog`, `PullApply`,
`PullFails` are a run of the pull script (two requests, then the apply route);
`Crash`, `Promote`, `Return` the playbook of `docs/multi-region.md`. The script
and the playbook are outside `src/` and marked external in `map`.

### ToolCalls — the invoke path of the gateway

`api.py`, `proxy.py`, `limits.py`, `rate_limit.py`, `cost_caps.py`,
`tenant_quotas.py`, `cache.py` and `registry.py`, for one tool and one tenant.
`inv[i]` walks through the invoke path: `ReadLimits`,
`TakeToken`, `CheckHour`, `CheckDay`, `CheckTenantRpm`, `CheckTenantCost`,
`RecordInvoke`, `GetTool`, `Lookup`, `CallTool`, `StoreResult`, `AuditCall`,
each of which may refuse, with `InvokeLost` anywhere. `SetLimitsRead`,
`LimitsWrite`, `ResetBucket`, `DeleteLimits` change limits under it,
`RegisterTool`, `DeleteTool`, `ClearCache`, `DropEntry` the tool and its cache,
`RecordLlm` adds costs that nobody checks, `GatewayRestart` empties what is only
in memory. A limit of 0 is none, as in the code.

### AuditChain — `audit.py`, and OAuth — `oauth.py`, `oauth_api.py`

AuditChain: `DrawId`, `ReadLatest`, `InsertEvent` are `record` around its two
awaits; `PurgeTenant` the deletion of a tenant's rows; `Verifies` is
`verify_chain`. OAuth: `Authorize`; `CallbackRead`, `CallbackMark`, `Exchange`,
`CreateConnection`; `RefreshRead` (the route) or `ProxyRead` (before a call),
`Grant`, `UpdateCheck`, `UpdateTokens`; `DeleteConnection`. The provider is
external: it takes a code once and, if `Rotating`, a refresh token once.

### Keys — `keys.py`, `jwt_io.py`, `JWKSCache`

`keys` is the table, `wake[s]` when the rotation loop of a server looks next,
`op` the calls in flight (`LoopRotates`, `ForceRotate`, `Store`; `ExpireGet`,
`Expire`; `IssueRead`, `Sign`), `Start` a server's start-up with its own
rotation, and `FetchSend`, `FetchRead`, `FetchDone`, `FetchFails` a verifier's
cache. `KeysAssumption` has MaxTtl + Interval + CallTime < Rotation, which the
defaults (30 days against a day, an hour and the time of a call) meet by far; a
deployment with shorter rotations would have to check it.

### Revocation — `store.py`, `coordination.py`, `revocation_cache.py`

`IssueToken`; `RevokeGet`, `RevokeCommit`, `RevokeCache`, `RevokeShare`,
`RevokeExpire`, `RevokeShareFails` are a revoke request through the row, the
process's cache and the Redis set; `VerifyShared` a verification that asks the
set; `Restart`; `PollSend`, `PollRead`, `PollApply`, `PollFails`,
`RestartPoller` the pollers with their cursor. Times are whole seconds, as
`revoked_at` is. `stamps` is history: every value a row's `revoked_at` had.

### Accounts and Proxy — the dashboard's customers and the LLM proxy

Accounts (`accounts.py`, `billing_stripe.py`): `Pay` and `SubscriptionIs` are
Stripe's doing; `WebhookStart`,
`AttachStripe`, `EmailForCustomer`, `UnknownCustomer`, `SetPlan`, `HookLost` the
webhook, an event being delivered until it is answered; `RotateKey`,
`SimulatedCheckout`. Proxy (`api.py`, `savings.py`, `tier_gate.py`,
`accounts_client.py`, `policy_overrides.py`) extends it: `AskKey`,
`KeyAnswered`, `CacheKey`,
`DashboardFails`; `ChatStart`, `ToolFromCache`, `ToolRuns`, `ToolAnswers`,
`ToolFails`, `FinalAnswer`, `UpstreamFails`; `ShapeOnce`, `InvokeStart`,
`InvokeEnds`; `SetOverride`. The event list is a number of events of one token
each; what a chat is charged is what lies behind its position in it.

### Quotas and Erasure — `quotas.py`, `compliance.py` of several services

Quotas: `PatchReads`, `PatchWrites`, `ResetQuotas` on the row; `UseCached`,
`AskIdentity`, `IdentityAnswers`, `Received`, `Degraded` get the limits; `Admit`
or `QuotaExceeded`, and later `Create` or `NotCreated`. Counts also grow with no
check: `GrowUnasked` is the channel row that a message to a missing dead-letter
channel creates (`channels.py:240-245`) and the files that a merge writes
(`snapshots.py:347-379`), for the kinds in `Unasked`; `RemoveOne` lets them
shrink. The code checks nothing at all where `quotas_enabled` is off; the model
is of a service that has it on. `told`, `ruledAt` and `unasked` (what came
unasked since a creation was last admitted) are history. Erasure: `AskErasure`, `ReadToken`, `ConsumeToken`, `CreateJob`,
`StartJob`, then the workspace (`ReadWorkspaces`, `ReadWorkflows`, `ReadSteps`,
`Cascade`), the gateway (`AskGateway`, `ClearTable`, `ClearCache`) and identity
itself (`DeleteIdentityData`, `CompleteJob`), each answered, failed or too late,
while the tenant goes on writing (`StoreRow`). `urls` says of which of the two
services identity has a URL; it is chosen initially and never changes. The
others are skipped (`SkipWorkspace`, `SkipGateway`), without an error, and the
job completes all the same: the default of `settings.py:114-115` and of both
compose files is to have neither. `owed` is history: what was stored when
the job was recorded and still is.

## 3. Runs

An MC module runs several *parts*: its initial state picks one, which then is
all that moves, so that one run of TLC answers for several modules without
multiplying their states. A part is a next-state relation of the module, often
narrowed so that a hard case gets deep instead of everything shallow; the parts
of a module together take every action of it.

| run | parts and instance | what it shows |
|---|---|---|
| `WorkflowLog` | *log*: 2 calls, 2 step rows of one name, 1 letter, retry once. *leases*: 1 step, 2 workers, 2 lease requests, the reaper, clock to 3 | failures reach the dead-letter table, a replay cut short loses no letter, a pending workflow runs nothing; no orphaned running step, no lease on a step that does not run; refinement of StepLease |
| `ChannelLog` | 2 clients, 3 messages, 1 consumer name for overlapping receives, limits 1 and 2 | replay loses nothing, no message without its channel, none delivered twice to a consumer unless its receives overlap, each sender's order kept |
| `CoordinationLog` | *locks*: 1 replica with and without Redis, 2 holders, 2 calls, TTL 1. *workers*: a Python and a TypeScript worker, 2 slots each, 2 attempts, timely or not. *migrations*: 2 runners, versions with 2 and 3 files (the third adds columns to the second's table), 4 calls. *leases*: 1 step, 1 worker, PATCHes of the leased step, clock to 4 | types and one handler per step (`CoordinationSound`), promises of locks (`PromisesHold`), clean drains (`DrainIsClean`), no gap in the schema (`SchemaHasNoGap`), an active lease is not taken over (`ActiveLeaseNotTaken`); under fairness, no lapsed lock, abandoned step or leased step stays (`NothingIsStuck`) |
| `StorageLog` | *deep*: 1 handler, up to 4 rows, snapshots and branches in all. *wide*: 2 handlers, 3 rows, one snapshot or one pass; 2 policies. *replication*: 3 regions, 2 pulls, 3 mutations, 2 failovers | types and ids (`StorageSound`), what is pinned stays readable, clean versions keep their blobs, a pass spares the newest version, replicas have a prefix of their primary's log |
| `IdentityLog` | *signing*, *trusting*: 2 servers, 2 calls, 1 verifier, clock to 6. *sharing*, *polling*: 2 processes, 2 tokens, 2 requests, 1 poller, clock to 3. *billing*, *lookups*, *metering*, *shaping*: 2 customers, 2 webhooks, 2 tenants, 2 chats, 2 lookups, one policy change. *counting*, *aging*: 2 creations, 1 replica, 1 patch, growth with and without a check. *erasing*, *overlapping*: 2 workspaces, 1 or 2 jobs, any URLs in the first | rotation, revocation and types (`IdentitySound`), live tokens verify, an answered revoke holds, plans are paid for, every token is metered, what the proxy knows is recent, quotas are overshot only by what overlaps or is not checked, a completed erasure left nothing it looks for in a service it has a URL of; under fairness, the newest revocation arrives |
| `GatewayLog` | *tokens*, *spending*, *caching*: 2 requests, 1 agent and anonymous callers, 3 calls. *audit*: 2 recorders, 3 events, 1 purge. *oauth*: 2 requests, 2 connections, rotating provider. *saga*: 2 handlers with 2 calls, or 1 with 3, with losses, late answers and one call answered from the cache | types and token buckets (`GatewaySound`), limits are overshot by what overlaps, old results need a race, quiet logs verify, refresh tokens stay alive, a state's second use needs a race; sagas run in order, undo only what was made and in reverse, and their status tells what may remain |
| `ChannelSkip` | 1 client, 2 messages | **violated**: a message is stored at a cursor that will pass it |
| `StorageBranch` | 1 handler, 2 snapshots, 2 branches, no collector | **violated**: a branch of a branch's snapshot reads another value of main |
| `RevocationGap` | 1 process, 1 poller, 2 tokens, clock to 2 | **violated**: a poll misses a token revoked later in the cursor's second |
| `ProxyMetering` | 2 tenants, 2 chats | **violated**: a chat is charged another one's events |
| `QuotaPatch` | 2 patches, 2 fields | **violated**: a patch drops the other one's field |
| `ErasureRows` | 1 job over a full tenant, with the URL of the workspace and none of the gateway | **violated**: dead letters and exports are left, and everything in the gateway |

Every property of a passing run has a mutant: a plausible slip in one mapped
definition (`Mut...`, before the definition it changes) under which TLC finds
the property violated.

**Bounds.** The slots for calls in flight (`Clients`, `Requests`, `Handlers`,
`Writers`, `Ops`, `Invokers`, `Chats`, `Makers`, ...) are two wherever a race
needs a stale read and the write that passes it; the reaper, the collector, an
operator or a clock is the third actor and needs no slot. Two step rows of one
name let a retry row and a first row disagree in the derived status. Three
messages are one below, at and above a cursor, or a letter, its copy and a
competitor; one consumer name has two receives that overlap, since consumers of
different names share no row that a receive writes but the delivered mark (with
two names the same run takes 4 million states and passes); three calls a first, a middle and a last, of which
the cache answers at most one; three migrations a table,
another and its columns; three regions a primary, its successor and one that
follows both. Clocks run so far that whatever was granted first expires and is
granted again: with a TTL of 1, three ticks contain an acquire, its expiry, the
sweep and a second acquire; with a rotation every 4 ticks and tokens of 1, six
contain two generations of keys. What grows unasked is bounded by `MaxThings`. `MaxRows`, `MaxStarts`, `MaxCalls`,
`MaxEvents` and the like bound counters that grow in the code; they stand in the
guards of the actions that count. No theorem needs the instance to be this
small: all but the liveness properties are proved for any (section 5).

`CHECK_DEADLOCK FALSE` stands where the system may stop: a deleted transaction
refuses every call, a deleted workspace too, and where the bounds on clocks and
events are reached nothing is left to do. `WorkflowLog` and `ChannelLog` are
checked for deadlock.

**Fairness** is stated in the two runs that check liveness, and only for what
the processes do by themselves.

* `CoordinationLog`: calls in flight go on or are lost, time passes, the reaper
  loops start their sweeps (a loop sleeps a fixed interval and catches every
  exception, `leases.py:1097`): weak fairness. Of the lease sweeps that have
  something to write not all are cut short: strong fairness of the sweep's
  write, since an aborted sweep is repeated at the next interval. A living
  worker's slot ends and releases or its process exits: weak fairness. Clients,
  holders and workers may stop anywhere. Because the clock may run beyond
  `Horizon` (4 > 3), every lease of the part does expire.
* `IdentityLog`: a poller's loop goes on (weak fairness of `PollSend`), and of
  its polls not all fail (strong fairness of `PollRead` and `PollApply`).

## 4. Findings

Where the code does something else than its documentation or comments say. Seven
show in a run that ends in a short trace:

1. `CursorSkipsNothing` — `channels.py:254`: deleting the newest message frees
   its number while cursors stay, so the next message is never received; the
   design document calls the seq monotonic and the cursor the resume point.
2. `BranchReadsSnapshot` — `storage.py:450`: a snapshot of a branch records the
   branch's version numbers, and a branch made from it looks them up on main.
3. `PollMissesNothing` — identity `store.py:505`: polls ask for
   `revoked_at > since` at a granularity of one second.
4. `WindowIsOwn` — proxy `api.py:1683`: a chat is charged every event that was
   appended to the shared list while it ran.
5. `PatchKeepsFields` — identity `quotas.py:208`: the row is read outside the
   transaction that is said to keep simultaneous patches from dropping fields.
6. `ErasedIsGone` — workspace `compliance.py:196`: the cascade knows neither
   `workflow_dlq` nor the gateway's transactions nor ready exports.
7. `ErasedIsGone` again — identity `compliance.py:479` and `:494`: a service
   without a URL, which is the default, is skipped, and the job is "completed"
   with no error although nothing was deleted there.

Others were met while modelling and have no run of their own; the models
contain the behaviour, and the properties that hold say what holds in spite of
it (often under a condition such as `alone`, `timely`, `~outdated`):

* Workflows and leases: a cancel is overwritten by a PATCH that read the status
  before it (`workflows.py:923`, "cancelled is final"); a heartbeat's inherited
  TTL grows with the age of the lease (`leases.py:593`); the sweep expires by
  `step_id` a lease renewed since its select (`leases.py:967`); a release
  rewrites a settled step (`leases.py:685`); acquire ignores `next_retry_at`;
  two `create_step` may read the same `MAX(attempt)`.
* Channels: two senders may read one `MAX(seq)` before either writes
  (`channels.py:247`); of two receives of one consumer the later write wins, so
  the cursor may move back and messages come again (`channels.py:420-428`; the
  design document concedes it, `07-channels-design.md:189`).
* Saga transactions: the documented status `failed` is never set, so
  'rolled_back' may stand for an effect that is left (`transactions.py:867`); a
  tool that takes effect and answers too late or badly is recorded 'failed' and
  never compensated (`proxy.py:156-186`, `transactions.py:670-689`); a call that
  the cache answered is recorded 'committed' and compensated although the
  transaction ran nothing (`transactions.py:933-953`).
* Locks and workers: with a backend configured two replicas may both hold a row
  for a time, and a heartbeat may succeed locally for one who lost the key; a
  drain with late calls leaves a step running.
* Replication: a former primary that is promoted again leads by entries its
  successor did not have; nothing tells that two logs of one length differ.
* Migrations: a rollback's plan is read before the lock; after a race the
  record may have a gap, though "apply + rollback can't interleave".
* Gateway: two callbacks may use one OAuth state (`oauth.py:540`); concurrent
  records make an untampered log fail verification (`audit.py:154`).
* Identity: more rotations in a token's life than `jwks_max_keys` push a live
  token's key off the list; a second revoke that raced the first may move
  `revoked_at` back behind a poller's cursor; a confirm token can be used by two
  erasures that overlap although it is one-shot; failed parts of an erasure end
  as "completed"; an erasure interrupted by a stop stays pending; the erased
  tenant's tokens stay valid; a lease written between the erasure's reads and
  its transaction is left behind.
* Quotas: dead-letter channels and merged files count without having been
  checked, so a tenant may be over its limit with no creation admitted.
* Accounts and proxy: an unreachable dashboard lets an expired key through,
  although a rotation "locks the old key out within a minute"; Stripe's plan is
  taken from the checkout's metadata and never mapped from the price again;
  merging overrides drops the base policy's `drop_empty_fields`.

## 5. What is proved

tlapm checks the theorems of eight modules for every value of the constants:
any number of handlers, workers, regions, tokens, tenants and rows, and any
value of the bounds. Every safety invariant and action property of the passing
runs is one of them. The pattern is the same throughout: the property is not
inductive by itself, because a handler in flight may rely on something it read;
the proof states what it may rely on (one named part per kind of handler),
shows that conjunction inductive, one step per action, and concludes.

**Assumptions.** Each module's `ASSUME` on its constants (disjointness of
`NULL`, naturals where the code has them, what the API accepts); TLC evaluates
them in the runs. Some theorems restrict the constants further, in their
statement, where the property needs it: `PatchStatuses` without 'running' for
`PendingMeansNotStarted` and `NoOrphan`, and no PATCHes at all for `HeldRuns`;
`Sinces = {}`, no rewinds, for `RepeatsAreRaced`; `AgentsCapped` and
`TenantLimited` for `OvershootsBounded`, because 0 stands for "no cap" in the
code and there is no bound for an agent without one; and finite sets of request
slots, bodies, quotas and lifetimes (`AgentsFinite` is that alone) where a
property counts them or takes their maximum.

### Workflow log and leases (LeaseStoreProofs, StepLease)

* **`TypeCorrect`** (LeaseStoreProofs): `Spec => []LeaseTypeOK`. The type
  invariant is not inductive: a handler's record has the right type and yet may
  name no step at the point where it writes one. `TypeInv` adds, per point of a
  handler, which fields are set (`CallFits`, `RequestFits`), and that a letter
  in the table names a step (`LetterShape`). One lemma per kind of handler.
* **`FailuresReachTheOperator`, `ReplaysLoseNothing`,
  `PendingMeansNotStarted`**: `FailedStepHasLetter` from `LetterInv` (the
  transaction that fails a step takes a letter that was free);
  `ReplayLosesNoLetter` from `ReplayInv` (a replay about to delete a letter has
  created its successor, and a row that does not exist yet inherits from no
  letter); `PendingWorkflowRunsNothing` from `StartInv` (a status that a handler
  remembers is a past one: what it read as not pending still is not).
* **`ActiveLeaseHolds`**: `ActiveLeaseNotTaken` of LeaseStore; the run checks
  the same formula of an instance of it.
* **`NoOrphanCorrect`, `HeldRunsCorrect`** (StepLease): the two lease
  invariants, in the abstract specification, from its type invariant and "no
  lease row precedes its step row". Their hypotheses on `PatchStatuses` are
  needed: a PATCH to 'running' of a step whose lease was released is an orphan.
* **`Refinement`** (LeaseStoreProofs): `Spec => ImplementsStepLease`. Between a
  handler's reads and its write everything may change, so the proof needs
  something a handler may rely on: rows are never deleted. `RowsStillThere`
  says that what a PATCH, a release or a sweep found when it started still
  exists; with `TypeInv` it is inductive, and then every step of every handler
  is a move of StepLease or leaves the two rows alone (`StepMove`).
* **`NoOrphan`, `HeldRuns`** (LeaseStoreProofs): the abstract invariants carried
  back: `NoOrphanRunning` and `HeldStepIsRunning` of LeaseStore hold for any
  number of workers, requests, clients and steps. This is the reason for the
  detour: in the detailed specification they would need an invariant about each
  handler's stale reads, in the abstract one they are two lines.

### Channels (ChannelsProofs)

* **`TypeCorrect`** (ChannelsProofs): `Spec => []ChannelTypeOK`. That a seq is a
  natural number depends on `MAX(seq)` having one, and the messages need not be
  a finite set: `Bounded` says that in every reachable state some number bounds
  all seqs, and `Greatest` (NatExtrema) that a bounded set of naturals has a
  largest element.
* **`ReplaySafe`, `NoStrayMessage`**: `ReplayLosesNothing` and
  `MessageHasChannel`. The strengthening is `LetterCopied`: a handler about to
  delete a letter has stored its copy, which nothing takes back.
* **`RepeatsAreRaced`**: `RepeatNeedsOverlap`, provided that no consumer rewinds
  (`Sinces = {}`), for any number of overlapping receives. The cursor may move
  back, so nothing can be said of it alone: `Clean` is about the messages that
  were returned while their receive was the only one of its name, `Reading` says
  what a receive in flight may rely on (where it started, and that its new cursor
  is at or above every row it returns that is still stored, whatever was deleted
  and numbered anew since), `Delivered` what its write leaves.
* **`SendersInOrder`**: the action property `SenderOrder`, from `Ordered`: the
  maximum a sender has read stays at or above its own messages, because nobody
  else stores under its name.

### Locks, workers, migrations (CoordinationProofs)

* **`PromisesAreKept`**: `PromisesHold` from `LockInv`: a promise is backed by
  the row it was made from and ends no later. Two promises at once would be
  backed by one row with two holders. The comparisons at the instant of expiry,
  which differ between acquire and sweep, are where it could fail.
* **`StepHasOneHandler`, `DrainLeavesNothing`**: `OneHandler` and `DrainIsClean`
  from `WorkerInv`: one slot at a time works (`OneAtWork`); with timely calls
  who works holds the lease (`WorkIsLeased`), and a lease that runs is worked on
  by a slot that will release it (`LeaseIsWorked`); a worker that is new,
  drained or dead has no slot left (`OffIsOut`).
* **`NoGapWithoutRace`**: `SchemaHasNoGap` from `SchemaInv`, which adds what each
  runner may rely on while it holds the lock (`RunnerInv`): what it is about to
  apply follows what is recorded, what it is about to undo is the end of it,
  unless its plan is out of date.
* **`CoordinationIsSound`**: `CoordinationSpec => []CoordinationSound`.

### Storage and replication (StorageProofs)

* **`StorageTypes`, `PinsStayReadable`, `BlobsStayBacked`, `GcSparesNewest`**,
  all from `StoreInv`: ids are old and used once; what a clean call captured is
  held as long as no pass runs (`OpsSound`); a pass spares the versions,
  snapshots and branches it read as pinned (`SnapsSpared`, `BranchesSpared`,
  `BlobsSpared`); the rows it dooms are old and never all of the newest
  (`DoomedOld`, `TopSpared`). That a pass has read everything a clean object
  needs follows because clean objects were finished before it began.
* **`FollowersFollow`**: `FollowerIsPrefix` from `ReplInv` and `Followers`: the
  logs of regions that never led are prefixes of each other and of the
  primary's, and a batch in flight is a piece of the primary's log (`RunFits`),
  so that overlapping, repeated and overtaken pulls write what was there anyway.
* **`EntriesAreUnique`**: `LoggedOnce` from `OnePlace`: in all logs that have a
  mutation it stands at the place where its region appended it.
* **`WorkspaceStorageIsSound`**: `WorkspaceStorageSpec => []StorageSound`. The
  types of the logs bound their length by the number of mutations, which takes
  the pigeonhole principle on sequences (`LogIsShort`): entries are of the
  mutations, and none is twice.

### The gateway (GatewayProofs)

* **`QuietLogsVerify`** from `ChainInv`: as long as records do not overlap and
  nothing is purged, each row names the row before it.
* **`RefreshTokensLive`, `StatesAreUsedOnce`** from `OAuthInv`: the token the
  provider accepts is in the row or on its way there (`TokenOnWay`); a state is
  unused,
  or one request holds it, or it made its connection, unless it was read twice
  before it was marked (`StateOnce`).
* **`OldResultsNeedRaces`** from `CallsInv` and `Fresh`: a call in flight and the
  cache are of the registration there is, or its deletion raced a call.
* **`OvershootsBounded`** with `TenantRatesBounded` (`RateInv`) and
  `CallsAreAccounted`: what the log holds of the last hour plus what is ahead of
  it stays below cap + requests + unchecked costs (`CapInv`). The log is a set,
  so that a new row is new has to be shown: rows are numbered per caller and
  minute (`LogInv`).
* **`TokensAreBounded`** from `TokenInv`: the full buckets handed out so far plus
  those that still may be (`Handed`: two for each outdated request, one for each
  pending drop, one if the bucket is missing or does not fit the limits) never
  exceed 1 + changes * (2 + 2 * requests).
* **`GatewayIsSound`**: `GatewaySpec => []GatewaySound`; the types of the tool
  calls need `RegistryInv` (what a call or the cache names was registered).
* **`TypeCorrect`** (GatewayProofs): `Spec => []SagaTypeOK`; `CallNamed`
  adds that a handler at a tool or its record names a call.
* **`NothingUndoneInVain`**: `OnlyMadeUndone`, from `Effects`: a row that is
  'committed', and every call a handler remembers as done or is about to
  compensate, was made (`Founded`): its tool took effect or the cache answered.
* **`OrderOfRuns`**: `RunsInOrder`. Commits may overlap each other and the
  addition of calls, so "the calls before mine ran" must hold of rows a commit
  has never read. The reason it does is `Dense`: the seqs in the table are
  0, 1, 2, ... without a gap, so a handler that read `MAX(seq) + 1` a while ago
  either meets `UNIQUE (tx_id, seq)` or still adds at the end. What a commit has
  read is then a prefix for ever, and `InTurn` says that it ran whatever of the
  prefix it does not have still to do.

* **`StatusTellsWhatRemains`, `ReverseOrder`**: `StatusTellsEffects` and
  `UndoneInReverse` from `SoloInv`, which says phase by phase what the rows and
  the only handler know of each other, wherever an earlier handler was lost. The
  status tells what *may* remain: a row that is 'running', 'failed' or
  'compensating' in a transaction rolled back may stand for an effect.

### Identity, accounts and proxy (IdentityProofs)

* **`OneKeySigns`, `TokensLiveOut`, `AlwaysASigner`, `PulledKeysAreForgotten`,
  `LiveTokensVerify`** from `KeyInv`: a key's span is fixed when it is stored
  (`RowSpan`); stores and signatures in flight are dated (`OpsFresh`); a loop
  never sleeps past a due rotation by more than an interval (`LoopsLook`), so
  the active key is younger than Rotation + Interval + CallTime; caches and
  fetches are dated as well (`FetchesFresh`, `CachesFresh`). **`RotationIsSound`**
  adds the types: what bounds the clock bounds every expiry (`KeyBounds`).
* **`AnsweredMeansRejected`** from `RevokeInv`: a request past its commit has its
  token's row revoked, and what a process was told stays in its cache or in the
  row it reads when it starts. **`CursorsAreBacked`** from `CursorInv`: a cursor,
  or the one a poll in flight will set, was a stamp of a token the poller holds
  or is about to. **`RevocationIsSound`** adds `LifeInv`: who is revoked, or
  about to be, was issued, and the Redis set ends within the longest lifetime.
* **`QuotaOvershoot`, `OldLimitBrief`, `QuotasAlwaysHold`**: an admitted creation
  counts as made, and what came unasked since is counted apart (`Room`,
  `Bound`); every cached or travelling answer has a date since
  which its limit was in force or replaced (`Aging`).
* **`CompletedJobsErased`** from `HandlersKnow`: what is still to be deleted is
  known to the handler that deletes it, by its own reads (`Found`, `Leased`,
  `Cleared`), or its job has not begun, has noted an error (`Begun`, `Noted`) or has no URL of
  the service it is in (`Skipped`, which the property admits openly),
  whatever is written meanwhile and however jobs overlap.
* **`IdentityIsSound`**: `IdentitySpec => []IdentitySound`.
* **`PlanIsPaidFor`** (and `ProxyKeepsPlans`) from `PlanInv`: the events that make
  the newest customer ours and tell its status are each still to come or
  applied (`NewestAttached`, `NewestTold`), which with the order of handling
  leaves nothing older to overwrite them.
* **`EveryTokenIsMetered`** from `MeterInv`: a request slot's windows are
  disjoint, so that what was charged is at most the number of pairs of a slot
  and an event that lies behind its position (`PaidEvents`).
* **`PlansAreRecent`, `OldShapesGoAway`**, and with the types **`ProxyIsRecent`**:
  since a question was sent, a key has stood for what the answer says or it
  ceased to since (`RecentInv`); what is shaped by a replaced policy was shaped
  before the change or its tool was running then (`ShapeInv`); `ProxyBounds`
  bounds caches, events and rounds (a chat entering a round was not in its
  last).

### Only model-checked

`NothingIsStuck` and `NewestRevocationArrives`: liveness under fairness and
ENABLED are beyond the prover. `ActiveLeaseNotTaken` is proved of LeaseStore
(`ActiveLeaseHolds`); what `CoordinationLog` checks is its instance beside the
other parts. The parts themselves, that is the narrowed next-state relations of
the MC modules, are TLC's: the theorems are about the specifications that they
narrow. Induction over data is out of the prover's reach too, and so is every
module with RECURSIVE operators; the specifications use neither, sums and
maxima are stated by counting sets and by NatExtrema.

## 6. Not modelled, and the plan

Left out for good: SDKs, CLIs, the embedded service, MCP servers and
integrations, examples, landing pages and docs (encoding, rendering and network
I/O per request, no shared protocol of their own; the SDK's `_http.py` has a
`_current_url` that is never updated), the proxy's prompt rewriting and
its choice of an upstream, savings estimates, the dashboard's pages and sessions,
metrics and the OTLP export, encryption and PKCE (data), and the numeric scoring
of anomalies. `components` in `PROJECT.json` says per component what of it is
left out.

Next, in this order:

1. The backoff of retries (`next_retry_at`) and its readers in WorkerLoop, and
   the refinement of WorkerLoop's atomic lease calls by LeaseStore, stated for
   one worker's slots.
2. An abstract register for storage (a timeline of versions with pins), with
   Storage shown to implement it, as StepLease is for the leases.
3. Cross-component behaviour: tool calls that write the audit chain, an erasure
   beside the tokens it leaves valid.
4. Streaming and overlapping checkouts of several accounts in the proxy, and the
   load-shed gauge.
