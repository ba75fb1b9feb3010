\* Three jobs, two seats, two threads of one owner name, failing adapters, version
\* changes; fair.
SPECIFICATION FairSpec
CONSTANTS
  w1 = w1
  w2 = w2
  c1 = c1
  c2 = c2
  Jobs = {1, 2, 3}
  Envelope <- WaitingHead
  SeatCount = 2
  Workers = {w1, w2}
  Controllers = {}
  OwnerName <- SharedOwner
  Compatible <- AllPairs
  FailureThreshold = 2
  NoOwner = NoOwner
  NoToken = NoToken
  NoJob = NoJob
  MaxVersion = 2
  MaxFence = 4
  MaxLeaderFence = 1
  MaxFailures = 2
  ApproveInputs = {}
  CancelInputs = {}
  RevokeInputs = {}
  OperationJobs = {}
  OperationTargets = {"IN_FLIGHT", "UNCERTAIN_PARTIAL", "VERIFIED_COMPLETE"}
INVARIANTS
  SeatJobAgreement
  FenceIdentifiesClaim
  OneCurrentToken
  OneHandoffPerClaim
  LiveIsolation
  CircuitFollowsCount
PROPERTIES
  FencedForever
  SeatsComeBack
  RunnableIsClaimed
  ProbesEnd
