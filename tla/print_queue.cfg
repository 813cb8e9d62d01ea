\* Two edges of one site, one job, and every way to take it out of the queue.
SPECIFICATION Spec
CONSTANTS
  MaxJobs = 1
  Edges = {a, b}
  Workers = {w1, w2}
  PageSize = 1
  Ops = {"cancel", "reenqueue", "cleanup", "remove", "relink"}
  MaxCrashes = 1
  MaxEdits = 2
  NoEdge = NoEdge
SYMMETRY Symmetry
INVARIANT CacheOffersPending
PROPERTIES ClosedLeftOnlyByStaleSave ClaimLeftOnlyByStaleSave
CHECK_DEADLOCK FALSE
