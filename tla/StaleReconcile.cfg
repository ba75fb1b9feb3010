\* A worker dies with an operation in flight while a new version is published.
SPECIFICATION Spec
CONSTANTS
  w1 = w1
  w2 = w2
  c1 = c1
  c2 = c2
  Jobs = {1}
  Envelope <- OnePlainJob
  SeatCount = 1
  Workers = {w1}
  Controllers = {}
  OwnerName <- OwnNames
  Compatible <- AllPairs
  FailureThreshold = 2
  NoOwner = NoOwner
  NoToken = NoToken
  NoJob = NoJob
  MaxVersion = 2
  MaxFence = 4
  MaxLeaderFence = 1
  MaxFailures = 0
  ApproveInputs = {}
  CancelInputs = {}
  RevokeInputs = {}
  OperationJobs = {1}
  OperationTargets = {"IN_FLIGHT", "UNCERTAIN_PARTIAL", "VERIFIED_COMPLETE"}
PROPERTIES
  FreedOnlyWhenContained
