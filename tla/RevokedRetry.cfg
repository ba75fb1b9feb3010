\* A job with an operation in flight is revoked and approved again.
SPECIFICATION Spec
CONSTANTS
  w1 = w1
  w2 = w2
  c1 = c1
  c2 = c2
  Jobs = {1}
  Envelope <- OneGatedJob
  SeatCount = 1
  Workers = {w1}
  Controllers = {}
  OwnerName <- OwnNames
  Compatible <- AllPairs
  FailureThreshold = 2
  NoOwner = NoOwner
  NoToken = NoToken
  NoJob = NoJob
  MaxVersion = 1
  MaxFence = 4
  MaxLeaderFence = 1
  MaxFailures = 0
  ApproveInputs = {1}
  CancelInputs = {}
  RevokeInputs = {1}
  OperationJobs = {1}
  OperationTargets = {"IN_FLIGHT", "UNCERTAIN_PARTIAL", "VERIFIED_COMPLETE"}
INVARIANTS
  NoBlindRetry
