\* One task packet through claims, provider calls, reviews, rework and recovery requests.
SPECIFICATION FairService
CONSTANTS
  w1 = w1
  c1 = c1
  r1 = r1
  Jobs = {1}
  Envelope <- Packet
  SeatCount = 1
  Workers = {w1}
  Controllers = {c1}
  OwnerName <- OwnNames
  Compatible <- AllPairs
  FailureThreshold = 2
  NoOwner = NoOwner
  NoToken = NoToken
  NoJob = NoJob
  MaxVersion = 1
  MaxFence = 4
  MaxLeaderFence = 3
  MaxFailures = 1
  ApproveInputs = {}
  CancelInputs = {1}
  RevokeInputs = {}
  OperationJobs = {}
  OperationTargets = {}
  Answers <- WholeAnswers
  Failures = {"RETRYABLE", "UNCLASSIFIED"}
  Relays = {r1}
  NoResult = NoResult
  NoRelay = NoRelay
  NoRequest = NoRequest
CHECK_DEADLOCK FALSE
INVARIANTS
  ReworkIsFresh
  AcceptedIsWholeSuccess
PROPERTIES
  ImplementsFiveSeat
  AnswersStand
  PendingIsDecided
