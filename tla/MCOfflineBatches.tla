--------------------------- MODULE MCOfflineBatches ---------------------------
(* One batch for the bounded instance of OfflineBatches.                   *)
EXTENDS OfflineBatches

CONSTANTS b1

OneBatch == [e \in Events |-> b1]
=============================================================================
