\* Two animals, two batches, two threads, three rounds of individual logs.
SPECIFICATION LogSpec
CONSTANTS
  Animals = {a1, a2}
  Workers = {w1, w2}
  Groups = {g1, g2}
  NoAnimal = NoAnimal
  NoGroup = NoGroup
  Weights = {1, 2}
  MaxLogs = 3
SYMMETRY Interchangeable
INVARIANTS LogTypeOK BatchesFitUnlessDisturbed CompleteIsLogged OneWeightEach
CHECK_DEADLOCK FALSE
