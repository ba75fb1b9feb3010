\* One reserve packet, worked on and called for; nothing fails but its providers.
SPECIFICATION Spec
CONSTANTS
  Hashes = {"a"}
  NoRow = NoRow
  Keys = {"p1"}
  Contents <- ReserveContent
  Spoken <- ReserveContent
  Plan <- ReservePlan
  Task <- ReserveTask
  Retries <- NoRetries
  Urgency <- ReserveUrgency
  Workers = {"w1", "w2"}
  Owner <- OneName
  Callers = {"c1"}
  NoOne = NoOne
  MaxParallel = 1
  Historical <- NoOldRows
  Heard = {"SUCCESS", "TimeoutError"}
  MaxFaults = 0
INVARIANTS
  NoTransientIsReplayed
CHECK_DEADLOCK FALSE
