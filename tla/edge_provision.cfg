\* A code, two devices, two threads.
SPECIFICATION Spec
CONSTANTS
  Workers = {w1, w2}
  Codes = {c1}
  Devices = {d1, d2}
  NoCode = NoCode
  NoDevice = NoDevice
SYMMETRY Interchangeable
INVARIANTS CodeMakesOneDevice UsableIsNotConsumed KnownIsListed RemovedIsDelisted RemovedHasNoSession
CHECK_DEADLOCK FALSE
