------------------------------- MODULE Migrations -------------------------------
(***************************************************************************)
(* The migration runner every service has (migration_runner.py; the three  *)
(* copies differ in a name).  Processes of old and new versions start,     *)
(* apply and roll back against one database.  One lock (flock, or an       *)
(* advisory lock of Postgres) is held while files run, and goes with the   *)
(* process that held it; each file runs in a transaction of its own.       *)
(* A migration makes one thing, a table or columns of an earlier one's.    *)
(* Left out: durations, checksums (files do not change), indices, the scaffold. *)
(***************************************************************************)
EXTENDS Integers, FiniteSets, FiniteSetsExt

CONSTANTS
  Runners,     \* processes and API calls at the same time
  Versions,    \* of the code: how many migrations it ships
  Parent,      \* whose table a migration adds columns to, 0 for a table
  MaxStarts    \* bound on calls in all

Last == Max(Versions)
Files(n) == 1..n
Nobody == "nobody"

ASSUME MigrationsAssumption ==
  /\ Nobody \notin Runners /\ MaxStarts \in Nat
  /\ Versions \subseteq Nat \ {0} /\ Versions # {} /\ IsFiniteSet(Versions)
  /\ Parent \in [Files(Last) -> Nat]
  /\ \A i \in Files(Last) : Parent[i] < i

VARIABLES
  recorded,    \* ids in schema_migrations
  made,        \* migrations whose table or columns exist
  holder,      \* the runner that holds the lock
  runner,
  starts,
  outdated     \* ghost: a rollback began from a plan that was out of date

migVars == <<recorded, made, holder, runner, starts, outdated>>

Off == [at |-> "off"]
States ==
  {Off} \cup [at : {"boot"}, version : Versions, todo : SUBSET Files(Last)]
        \cup [at : {"wait apply", "apply"}, todo : SUBSET Files(Last)]
        \cup [at : {"wait undo", "undo"}, todo : SUBSET Files(Last),
              seen : SUBSET Files(Last)]

MigrationsTypeOK ==
  /\ recorded \subseteq Files(Last) /\ made \subseteq Files(Last)
  /\ holder \in Runners \cup {Nobody}
  /\ runner \in [Runners -> States]
  /\ starts \in 0..MaxStarts /\ outdated \in BOOLEAN

\* A new database, or one of a version that knew no migrations.
MigrationsInit ==
  /\ recorded = {} /\ made \in {{}} \cup {Files(n) : n \in Versions}
  /\ holder = Nobody /\ runner = [r \in Runners |-> Off]
  /\ starts = 0 /\ outdated = FALSE
--------------------------------------------------------------------------------
Begin(r, state) ==
  /\ runner[r] = Off /\ starts < MaxStarts
  /\ starts' = starts + 1
  /\ runner' = [runner EXCEPT ![r] = state]
  /\ UNCHANGED <<recorded, made, holder, outdated>>

Makeable(i) == Parent[i] # 0 => Parent[i] \in made

(* A process starts: init_db makes what is missing, without the lock.      *)
Boot(r, n) == Begin(r, [at |-> "boot", version |-> n, todo |-> Files(n)])

BootOne(r) ==
  /\ runner[r].at = "boot" /\ runner[r].todo # {}
  /\ LET i == Min(runner[r].todo) IN
       \/ /\ Makeable(i)
          /\ made' = made \cup {i}
          /\ runner' = [runner EXCEPT ![r].todo = @ \ {i}]
       \/ ~Makeable(i) /\ UNCHANGED made /\ runner' = [runner EXCEPT ![r] = Off]
  /\ UNCHANGED <<recorded, holder, starts, outdated>>

\* auto_migrate follows, or the service runs as it is.
BootEnds(r) ==
  /\ runner[r].at = "boot" /\ runner[r].todo = {}
  /\ runner' = [runner EXCEPT ![r] =
       [at |-> "wait apply", todo |-> Files(runner[r].version)]]
  /\ UNCHANGED <<recorded, made, holder, starts, outdated>>

(* apply_pending and apply_to: the target is checked before the lock is    *)
(* taken, what is pending is read after that.                              *)
ApplyPending(r, n) == Begin(r, [at |-> "wait apply", todo |-> Files(n)])

ApplyTo(r, n, t) ==
  /\ \A i \in recorded : i <= t
  /\ Begin(r, [at |-> "wait apply", todo |-> 1..t])

Take(r) == holder = Nobody /\ holder' = r

ApplyLocked(r) ==
  /\ runner[r].at = "wait apply" /\ Take(r)
  /\ runner' = [runner EXCEPT ![r] = [at |-> "apply", todo |-> @.todo \ recorded]]
  /\ UNCHANGED <<recorded, made, starts, outdated>>

(* _apply_single: what exists already is recorded without running the      *)
(* file, columns that exist already are skipped.                           *)
IsAlreadyApplied(i) == i \in made

ApplySingle(r) ==
  /\ runner[r].at = "apply" /\ runner[r].todo # {}
  /\ LET i == Min(runner[r].todo) IN
       /\ IsAlreadyApplied(i) \/ Makeable(i)
       /\ made' = made \cup {i}
       /\ recorded' = recorded \cup {i}
       /\ runner' = [runner EXCEPT ![r].todo = @ \ {i}]
  /\ UNCHANGED <<holder, starts, outdated>>

(* rollback_to: the plan is made before the lock is taken.  A migration    *)
(* without its file on disk refuses the whole plan.                        *)
Plan(t) == {i \in recorded : i > t}

RollbackTo(r, n, t) ==
  /\ t \in recorded \cap Files(n) /\ Plan(t) # {} /\ Plan(t) \subseteq Files(n)
  /\ Begin(r, [at |-> "wait undo", todo |-> Plan(t), seen |-> recorded])

RollbackLocked(r) ==
  /\ runner[r].at = "wait undo" /\ Take(r)
  /\ runner' = [runner EXCEPT ![r].at = "undo"]
  /\ outdated' = (outdated \/ runner[r].seen # recorded)
  /\ UNCHANGED <<recorded, made, starts>>

MutNewest(S) == Min(S)   \* mutant: the plan is not reversed
Newest(S) == Max(S)

\* A table takes the columns later migrations gave it; columns that are
\* gone cannot be dropped.
RollbackOne(r) ==
  /\ runner[r].at = "undo" /\ runner[r].todo # {}
  /\ LET i == Newest(runner[r].todo) IN
       /\ Parent[i] # 0 => i \in made
       /\ made' = made \ ({i} \cup {j \in Files(Last) : Parent[j] = i})
       /\ recorded' = recorded \ {i}
       /\ runner' = [runner EXCEPT ![r].todo = @ \ {i}]
  /\ UNCHANGED <<holder, starts, outdated>>

(* The list is done, a file fails, the lock is busy (409) or the process   *)
(* dies: the transaction and the lock are gone.                            *)
Ends(r) ==
  /\ runner[r] # Off
  /\ runner' = [runner EXCEPT ![r] = Off]
  /\ holder' = IF holder = r THEN Nobody ELSE holder
  /\ UNCHANGED <<recorded, made, starts, outdated>>

MigrationsNext ==
  \E r \in Runners :
    \/ BootOne(r) \/ BootEnds(r) \/ ApplyLocked(r) \/ ApplySingle(r)
    \/ RollbackLocked(r) \/ RollbackOne(r) \/ Ends(r)
    \/ \E n \in Versions :
         \/ Boot(r, n) \/ ApplyPending(r, n)
         \/ \E t \in Files(n) : ApplyTo(r, n, t) \/ RollbackTo(r, n, t)

MigrationsSpec == MigrationsInit /\ [][MigrationsNext]_migVars
--------------------------------------------------------------------------------
(* Processes of different versions that start, migrate, roll back, fail    *)
(* and die leave no gap: what is recorded is a beginning of the list of    *)
(* files, and everything it made exists.  It takes a rollback that was     *)
(* planned before another runner moved the schema to break this.           *)
SchemaHasNoGap ==
  ~outdated =>
    /\ \A i \in recorded : 1..i \subseteq recorded
    /\ recorded \subseteq made

(* "Rollback uses the same lock so apply + rollback can't interleave."     *)
NoGapEver == \A i \in recorded : 1..i \subseteq recorded
================================================================================
