\* Two cuts, two threads, cuts and carcass of one or two units.
SPECIFICATION CutSpec
CONSTANTS
  Threads = {w1, w2}
  Cuts = {c1, c2}
  CutWeights = {1, 2}
  NoCut = NoCut
SYMMETRY Interchangeable
INVARIANTS CutTypeOK CutsFitUnlessLoose WorkFitsPackageUnlessMixed
CHECK_DEADLOCK FALSE
