SPECIFICATION MCSpec
CONSTANTS
  c1 = c1  c2 = c2  r1 = r1  r2 = r2
  NULL = NULL
  Clients = {c1, c2}
  Steps = {s1, s2}
  Names = {n1}
  Letters = {d1}
  RetryLimits <- Retried
  Delays <- MCDelays
  PatchStatuses <- SdkOutcomes
  MaxNow = 3
  Workers = {w1, w2}
  Requests = {r1, r2}
  Ttls <- ShortTtl
  Outcomes <- SdkOutcomes
  Horizon = 4
SYMMETRY Symmetry
INVARIANTS
  FailedStepHasLetter
  ReplayLosesNoLetter
  PendingWorkflowRunsNothing
  NoOrphanRunning
  HeldStepIsRunning
PROPERTIES
  ImplementsStepLease
