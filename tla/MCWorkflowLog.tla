------------------------------ MODULE MCWorkflowLog ------------------------------
(* Model checking the workflow log and its leases.  Part "log" has two calls  *)
(* in flight over two steps and no leases; part "leases" one step, one call   *)
(* that creates it, and the requests of two workers.                          *)
EXTENDS LeaseStore, TLC

CONSTANTS c1, c2, r1, r2   \* the members of Clients and Requests

VARIABLE part

MCDelays == {1}
Retried == {2}
SdkOutcomes == {"completed", "failed"}
ShortTtl == {1}

\* Clients and requests are exchanged together: no part uses two of both.
Exchange == c1 :> c2 @@ c2 :> c1 @@ r1 :> r2 @@ r2 :> r1
Symmetry == {Exchange} \cup Permutations(Steps) \cup Permutations(Workers)

LogNext ==
  /\ WorkflowNext \/ (now < 2 /\ Tick)
  /\ UNCHANGED leaseVars

\* Neither PATCHes nor replays nor a second row.
Unused ==
  /\ \A s \in Steps : stepStatus[s] = "none"
  /\ \A c \in Clients : call[c] = Idle
CallNext(c) ==
  \/ (Unused /\ CreateStepStart(c))
  \/ CreateStepMax(c) \/ CreateStepInsert(c) \/ AbortCall(c)

LeaseNext ==
  \/ /\ \/ \E c \in Clients : CallNext(c)
        \/ \E l \in Letters : DeleteDlq(l)
        \/ CancelWorkflow \/ Tick
     /\ UNCHANGED leaseVars
  \/ \E r \in Requests : WorkerNext(r)
  \/ SweepSelect \/ SweepWrite \/ SweepAbort

MCNext ==
  /\ UNCHANGED part
  /\ \/ part = "log" /\ LogNext
     \/ part = "leases" /\ LeaseNext

MCInit == LeaseInit /\ part \in {"log", "leases"}
MCSpec == MCInit /\ [][MCNext]_<<vars, part>>
================================================================================
