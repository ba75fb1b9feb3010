\* One claim, one lost reply.
SPECIFICATION Spec
CONSTANTS
  p = p
  q = q
  x = x
  y = y
  j1 = j1
  j2 = j2
  Jobs = {j1, j2}
  Submissions <- Offers
  Slugs = {"s"}
  Paths = {p, q}
  Blobs = {x, y}
  NoFile = NoFile
  BaseTree <- Tip
  NoJob = NoJob
  MaxClaims = 1
  MaxBase = 1
  MaxFaults = 1
  MaxCloses = 0
INVARIANTS
  NoneLeavesNothing
CHECK_DEADLOCK FALSE
