\* Two operators correct the events of one session while the edge uploads them.
SPECIFICATION Spec
CONSTANTS
  d1 = d1
  Sessions = {s1}
  Events = {e1, e2}
  Devices = {d1}
  Workers = {w1, w2}
  DeviceOf <- OneScale
  Weights = {1, 2}
  Ops = {"post", "create", "cancel", "edit", "delete", "reactivate"}
  MaxCrashes = 1
  MaxEdits = 2
  NoSession = NoSession
  NoEvent = NoEvent
  NoWeight = NoWeight
SYMMETRY Symmetry
INVARIANTS TotalsExactUnlessDrift
CHECK_DEADLOCK FALSE
