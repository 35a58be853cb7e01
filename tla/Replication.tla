------------------------------- MODULE Replication -------------------------------
(***************************************************************************)
(* The replication log of the workspace service (replication.py and the    *)
(* middleware of api.py): a primary region logs its mutations, pullers     *)
(* copy the log to the replicas, and an operator promotes a replica when   *)
(* the primary is lost.                                                    *)
(*                                                                         *)
(* Of an entry only the mutation it stands for is kept.  A log starts at   *)
(* seq 1 and has no gaps: AUTOINCREMENT gives out the number after the     *)
(* highest inside the INSERT's transaction, and a puller asks for what     *)
(* follows the replica's own highest number.  So a log is a sequence.      *)
(*                                                                         *)
(* The puller and the failover are not part of src/: they follow the       *)
(* scripts and the playbook of docs/multi-region.md.                       *)
(***************************************************************************)
EXTENDS Naturals, Sequences, FiniteSets, SequencesExt

CONSTANTS Regions,      \* deployments of the service
          First,        \* the one that starts as primary
          Pulls,        \* slots for runs of the pull script
          MaxMutations, \* bound on the mutations of all regions
          MaxFailovers  \* bound on the promotions

ASSUME ReplicationAssumption ==
  First \in Regions /\ MaxMutations \in Nat /\ MaxFailovers \in Nat

VARIABLES mode,      \* replication_mode of each region, or down
          log,       \* its table replication_log
          pending,   \* mutations committed whose entry is not yet appended
          unlogged,  \* mutations whose append failed
          count,     \* mutations so far
          pull,      \* runs of the pull script
          failovers, \* promotions so far
          led,       \* the regions that have been primary
          again      \* history: one of them was promoted again

replVars == <<mode, log, pending, unlogged, count, pull, failovers, led, again>>

Mutations == 1..MaxMutations
NoRun == [at |-> "none"]

ReplicationTypeOK ==
  /\ mode \in [Regions -> {"primary", "replica", "down"}]
  /\ \A r \in Regions : log[r] \in Seq(Mutations) /\ pending[r] \subseteq Mutations
  /\ unlogged \subseteq Mutations
  /\ count \in 0..MaxMutations /\ failovers \in 0..MaxFailovers
  /\ pull \in [Pulls -> [at: {"log", "apply"}, rep: Regions,
                         since: 0..MaxMutations,
                         batch: UNION {[1..n -> Mutations] : n \in 0..MaxMutations}]
                        \cup {NoRun}]
  /\ led \subseteq Regions /\ again \in BOOLEAN

ReplicationInit ==
  /\ mode = [r \in Regions |-> IF r = First THEN "primary" ELSE "replica"]
  /\ log = [r \in Regions |-> <<>>]
  /\ pending = [r \in Regions |-> {}]
  /\ unlogged = {} /\ count = 0 /\ failovers = 0
  /\ pull = [i \in Pulls |-> NoRun]
  /\ led = {First} /\ again = FALSE

Primary(r) == mode[r] = "primary"
Up(r) == mode[r] # "down"
--------------------------------------------------------------------------------
(* The primary.  A replica answers a mutation with 421.                    *)
Mutate(r) ==
  /\ Primary(r) /\ count < MaxMutations
  /\ count' = count + 1
  /\ pending' = [pending EXCEPT ![r] = @ \cup {count + 1}]
  /\ UNCHANGED <<mode, log, unlogged, pull, failovers, led, again>>

\* Appends come in any order; one that raises is only logged.
AppendEntry(r, m) ==
  /\ m \in pending[r]
  /\ pending' = [pending EXCEPT ![r] = @ \ {m}]
  /\ log' = [log EXCEPT ![r] = Append(@, m)]
  /\ UNCHANGED <<mode, unlogged, count, pull, failovers, led, again>>

AppendFails(r, m) ==
  /\ m \in pending[r]
  /\ pending' = [pending EXCEPT ![r] = @ \ {m}]
  /\ unlogged' = unlogged \cup {m}
  /\ UNCHANGED <<mode, log, count, pull, failovers, led, again>>
--------------------------------------------------------------------------------
(* The pull script: status of the replica, log of the primary, apply.      *)
CurrentSeq(r) == Len(log[r])

PullStatus(i, r) ==
  /\ pull[i] = NoRun /\ mode[r] = "replica"
  /\ pull' = [pull EXCEPT ![i] = [at |-> "log", rep |-> r,
                                  since |-> CurrentSeq(r), batch |-> <<>>]]
  /\ UNCHANGED <<mode, log, pending, unlogged, count, failovers, led, again>>

\* Entries after since, in order, up to a limit.
Fetch(p, since, limit) ==
  SubSeq(log[p], since + 1, IF since + limit < Len(log[p]) THEN since + limit
                            ELSE Len(log[p]))

PullLog(i, p, limit) ==
  /\ pull[i].at = "log" /\ Primary(p)
  /\ pull' = [pull EXCEPT ![i].at = "apply",
                          ![i].batch = Fetch(p, pull[i].since, limit)]
  /\ UNCHANGED <<mode, log, pending, unlogged, count, failovers, led, again>>

\* apply_entries: one transaction; an entry whose seq is present is skipped.
Applied(old, since, batch) ==
  old \o SubSeq(batch, Len(old) - since + 1, Len(batch))

PullApply(i) ==
  LET r == pull[i].rep IN
  /\ pull[i].at = "apply" /\ Up(r)
  /\ log' = [log EXCEPT ![r] = Applied(@, pull[i].since, pull[i].batch)]
  /\ pull' = [pull EXCEPT ![i] = NoRun]
  /\ UNCHANGED <<mode, pending, unlogged, count, failovers, led, again>>

\* A call fails, or two applies insert the same seq and one is rolled back.
PullFails(i) ==
  /\ pull[i] # NoRun
  /\ pull' = [pull EXCEPT ![i] = NoRun]
  /\ UNCHANGED <<mode, log, pending, unlogged, count, failovers, led, again>>
--------------------------------------------------------------------------------
(* The failover playbook: pulls are stopped, the replica with the highest  *)
(* current_seq is promoted, a region that comes back is a replica.         *)
Crash(r) ==
  /\ Primary(r) /\ failovers < MaxFailovers
  /\ mode' = [mode EXCEPT ![r] = "down"]
  /\ pending' = [pending EXCEPT ![r] = {}]
  /\ unlogged' = unlogged \cup pending[r]
  /\ pull' = [i \in Pulls |-> NoRun]
  /\ failovers' = failovers + 1
  /\ UNCHANGED <<log, count, led, again>>

MutBest(r) == Up(r)   \* mutant: any replica is promoted
Best(r) == \A s \in Regions : mode[s] = "replica" => CurrentSeq(s) <= CurrentSeq(r)

Promote(r) ==
  /\ mode[r] = "replica"
  /\ \A s \in Regions : ~Primary(s)
  /\ Best(r)
  /\ mode' = [mode EXCEPT ![r] = "primary"]
  /\ pull' = [i \in Pulls |-> NoRun]
  /\ led' = led \cup {r}
  /\ again' = (again \/ r \in led)
  /\ UNCHANGED <<log, pending, unlogged, count, failovers>>

Return(r) ==
  /\ mode[r] = "down"
  /\ mode' = [mode EXCEPT ![r] = "replica"]
  /\ UNCHANGED <<log, pending, unlogged, count, pull, failovers, led, again>>

ReplicationNext ==
  \/ \E r \in Regions :
       \/ Mutate(r) \/ Crash(r) \/ Promote(r) \/ Return(r)
       \/ \E m \in Mutations : AppendEntry(r, m) \/ AppendFails(r, m)
  \/ \E i \in Pulls :
       \/ PullApply(i) \/ PullFails(i)
       \/ \E r \in Regions : \/ PullStatus(i, r)
                             \/ \E limit \in 1..2 : PullLog(i, r, limit)

ReplicationSpec == ReplicationInit /\ [][ReplicationNext]_replVars
--------------------------------------------------------------------------------
(***************************************************************************)
(* Properties.                                                             *)
(***************************************************************************)
\* A region that was never primary holds a prefix of every primary's log, with
\* overlapping, repeated, partial and failing pulls and across failovers, as long
\* as no former primary is promoted again ("only re-promote after a manual
\* cutover"): such a one may have entries of its own where its successor had
\* others, and lead by them.
FollowerIsPrefix ==
  ~again => \A r \in Regions \ led : \A p \in Regions :
              Primary(p) => IsPrefix(log[r], log[p])

\* No log ever has a mutation twice: retried and overlapping pulls do not
\* duplicate entries, and a region that returns does not add its own again.
LoggedOnce ==
  \A r \in Regions : \A j, k \in DOMAIN log[r] :
    log[r][j] = log[r][k] => j = k
================================================================================
