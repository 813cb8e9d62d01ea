\* Transitions and cancellations that wait for each other, under fair scheduling.
SPECIFICATION FairSpec
CONSTANTS
  Animals = {a1, a2}
  Workers = {w1, w2}
  Ops <- Workflow
  Package <- Full
PROPERTY RequestsEnd
CHECK_DEADLOCK FALSE
