---------------------------- MODULE MCWeightLogs ----------------------------
(* The bounded instance of WeightLogs: animals, threads and batch rows are *)
(* interchangeable.                                                        *)
EXTENDS WeightLogs, TLC

Interchangeable ==
  Permutations(Animals) \cup Permutations(Workers) \cup Permutations(Groups)
=============================================================================
