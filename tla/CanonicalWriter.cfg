\* Two sessions of the writer, one WATCH thread, one restart, a version change; fair.
SPECIFICATION FairSpec
CONSTANTS
  r1 = r1
  r2 = r2
  Reviews = {r1, r2}
  Editors = {e1, e2}
  Controllers = {c1}
  Priority <- Urgency
  ReconcileLimit = 2
  WatchLimit = 1
  NoReview = NoReview
  Outcomes = {"VERIFIED_COMPLETE", "QUARANTINED"}
  MaxVersion = 2
  MaxCrashes = 1
  MaxHeartbeats = 1
INVARIANTS
  WriterAgreesWithQueue
  EditedOnce
PROPERTIES
  EditorsFencedForever
  ImplementsSerialWriter
  EditsEnd
  AcceptsAreDelivered
