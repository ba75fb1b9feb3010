\* Two durable packets that may duplicate each other, two processes of one owner name,
\* one synchronous caller, one crash or hang-up; fair.
SPECIFICATION FairSpec
CONSTANTS
  Hashes = {"a", "b"}
  NoRow = NoRow
  Keys = {"p1", "p2"}
  Contents <- OneContent
  Spoken <- OtherContent
  Plan <- SomePlans
  Task <- SameTask
  Retries <- FewRetries
  Urgency <- SameUrgency
  Workers = {"w1", "w2"}
  Owner <- OneName
  Callers = {"c1"}
  NoOne = NoOne
  MaxParallel = 2
  Historical <- OldRows
  Heard = {"SUCCESS", "TimeoutError"}
  MaxFaults = 1
CHECK_DEADLOCK FALSE
INVARIANTS
  RowsAgree
  RoundsAreBudgeted
  OwnAnswers
  WatchedAreNotFinal
PROPERTIES
  EverySettles
