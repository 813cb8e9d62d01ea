\* An edge polls while rows are saved, on every kind of cache.
SPECIFICATION FairSpec
CONSTANTS
  Workers = {w1, w2}
  Edges = {a}
  NoEdge = NoEdge
  Backends = {"atomic", "get_set"}
  Saves = {"auto", "twice", "batch"}
  MaxSaves = 2
  MaxCrashes = 1
  MaxForgets = 1
INVARIANTS FreshUnlessBroken
PROPERTY EventuallySeen
