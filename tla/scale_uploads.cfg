\* Two sessions follow each other on one scale while the edge uploads and retries.
SPECIFICATION FairSpec
CONSTANTS
  d1 = d1
  Sessions = {s1, s2}
  Events = {e1, e2}
  Devices = {d1}
  Workers = {w1, w2}
  DeviceOf <- OneScale
  Weights = {1}
  Ops = {"post", "batch", "create", "close"}
  MaxCrashes = 1
  MaxEdits = 0
  NoSession = NoSession
  NoEvent = NoEvent
  NoWeight = NoWeight
INVARIANTS OneOpenSessionPerDevice AckedEventKept CountNeverExceedsEvents
PROPERTIES ImplementsLedger ReopenedOnlyByStaleTally EventuallyAcked
CHECK_DEADLOCK FALSE
