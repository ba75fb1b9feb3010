\* Two jobs on nested paths; the first one's lease lapses with an operation in flight.
SPECIFICATION Spec
CONSTANTS
  w1 = w1
  w2 = w2
  c1 = c1
  c2 = c2
  Jobs = {1, 2}
  Envelope <- NestedPaths
  SeatCount = 2
  Workers = {w1, w2}
  Controllers = {}
  OwnerName <- OwnNames
  Compatible <- AllPairs
  FailureThreshold = 2
  NoOwner = NoOwner
  NoToken = NoToken
  NoJob = NoJob
  MaxVersion = 1
  MaxFence = 4
  MaxLeaderFence = 1
  MaxFailures = 0
  ApproveInputs = {}
  CancelInputs = {}
  RevokeInputs = {}
  OperationJobs = {1}
  OperationTargets = {"IN_FLIGHT", "UNCERTAIN_PARTIAL", "VERIFIED_COMPLETE"}
PROPERTIES
  UnresolvedSurfaceIsHeld
