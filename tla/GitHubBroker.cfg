\* Two jobs with one slug, claimed up to twice, with lost replies and late workers.
SPECIFICATION FairSpec
CONSTANTS
  p = p
  q = q
  x = x
  y = y
  j1 = j1
  j2 = j2
  Jobs = {j1, j2}
  Submissions <- Offers
  Slugs = {"s"}
  Paths = {p, q}
  Blobs = {x, y}
  NoFile = NoFile
  BaseTree <- Tip
  NoJob = NoJob
  MaxClaims = 2
  MaxBase = 2
  MaxFaults = 2
  MaxCloses = 1
INVARIANTS
  AcceptedAsAttested
  NoneWroteNoFile
  PathsChangeOnce
  AttestedStays
PROPERTIES
  HandoffsAreDecided
CHECK_DEADLOCK FALSE
