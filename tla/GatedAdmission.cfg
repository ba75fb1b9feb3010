\* A queued job whose approval expires ranks ahead of one that needs none; fair.
SPECIFICATION FairSpec
CONSTANTS
  w1 = w1
  w2 = w2
  c1 = c1
  c2 = c2
  Jobs = {1, 2}
  Envelope <- GatedFirst
  SeatCount = 1
  Workers = {w1}
  Controllers = {}
  OwnerName <- OwnNames
  Compatible <- AllPairs
  FailureThreshold = 2
  NoOwner = NoOwner
  NoToken = NoToken
  NoJob = NoJob
  MaxVersion = 1
  MaxFence = 7
  MaxLeaderFence = 1
  MaxFailures = 0
  ApproveInputs = {1}
  CancelInputs = {}
  RevokeInputs = {}
  OperationJobs = {}
  OperationTargets = {"IN_FLIGHT", "UNCERTAIN_PARTIAL", "VERIFIED_COMPLETE"}
PROPERTIES
  RunnableIsClaimed
