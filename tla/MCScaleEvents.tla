---------------------------- MODULE MCScaleEvents ----------------------------
(* Two sessions of one scale for the bounded instances of ScaleEvents.     *)
EXTENDS ScaleEvents, TLC

CONSTANTS d1

OneScale == [s \in Sessions |-> d1]
Symmetry == Permutations(Workers) \cup Permutations(Events) \cup Permutations(Sessions)
=============================================================================
