-------------------------- MODULE MCDisassemblyCuts --------------------------
(* The bounded instance of DisassemblyCuts: threads and rows are           *)
(* interchangeable.                                                        *)
EXTENDS DisassemblyCuts, TLC

Interchangeable == Permutations(Threads) \cup Permutations(Cuts)
=============================================================================
