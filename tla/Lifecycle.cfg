\* One owner-approved job from submission to review; WATCH thread c1 signs like the worker.
SPECIFICATION Spec
CONSTANTS
  w1 = w1
  w2 = w2
  c1 = c1
  c2 = c2
  Jobs = {1}
  Envelope <- OneGatedJob
  SeatCount = 1
  Workers = {w1}
  Controllers = {c1, c2}
  OwnerName <- WatchNames
  Compatible <- AllPairs
  FailureThreshold = 2
  NoOwner = NoOwner
  NoToken = NoToken
  NoJob = NoJob
  MaxVersion = 1
  MaxFence = 5
  MaxLeaderFence = 1
  MaxFailures = 0
  ApproveInputs = {1}
  CancelInputs = {1}
  RevokeInputs = {1}
  OperationJobs = {1}
  OperationTargets = {"IN_FLIGHT", "VERIFIED_COMPLETE"}
INVARIANTS
  PendingIsReviewable
  SucceededWasAccepted
  SucceededIsSettled
  CancelIsFinal
  HandoffBudget
PROPERTIES
  UnresolvedIsContained
  FinalUnlessRevoked
  ImplementsJobLedger
