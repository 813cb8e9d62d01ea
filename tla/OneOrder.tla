------------------------------ MODULE OneOrder ------------------------------
(* What the models of one slaughter order share: its animals, and the      *)
(* worker threads that serve requests about it.                            *)
CONSTANTS Animals, Workers
=============================================================================
