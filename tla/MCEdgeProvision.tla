--------------------------- MODULE MCEdgeProvision ---------------------------
(* The bounded instance of EdgeProvision: threads, and devices, are        *)
(* interchangeable.                                                        *)
EXTENDS EdgeProvision, TLC

Interchangeable == Permutations(Workers) \cup Permutations(Devices)
=============================================================================
