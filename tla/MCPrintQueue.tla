---------------------------- MODULE MCPrintQueue ----------------------------
(* Symmetry of the bounded instances of PrintQueue.                        *)
EXTENDS PrintQueue, TLC

Symmetry == Permutations(Workers) \cup Permutations(Edges)
=============================================================================
