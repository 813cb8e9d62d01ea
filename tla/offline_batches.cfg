\* A batch of two events, two threads, two reconciliations and two crashes.
SPECIFICATION FairSpec
CONSTANTS
  Batches = {b1}
  b1 = b1
  Events = {e1, e2}
  Sessions = {s1, s2}
  Workers = {w1, w2}
  BatchOf <- OneBatch
  MaxCrashes = 2
  NoBatch = NoBatch
  NoEvent = NoEvent
  NoSession = NoSession
INVARIANTS CountExactUnlessDrift EventsInBatchSession SessionNeverOvercounts CompleteWhenSealed
PROPERTIES ImplementsLedger EventuallyDone
CHECK_DEADLOCK FALSE
