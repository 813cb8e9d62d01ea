\* An order with two animals, two worker threads, and every service that changes them.
SPECIFICATION Spec
CONSTANTS
  Animals = {a1, a2}
  Workers = {w1, w2}
  Ops <- Most
  Package <- Full
SYMMETRY AnySymmetry
INVARIANT AgreesUnlessDrift
PROPERTY BackOnlyByStaleSave
PROPERTY ClosedLeftOnlyByReturn
CHECK_DEADLOCK FALSE
