------------------------------- MODULE MCBatcher -------------------------------
(***************************************************************************)
(* TLC instances of Batcher.                                                *)
(***************************************************************************)
EXTENDS Batcher

(* Enough clients to fill a batch and the queue behind it.                  *)
ASSUME InstanceAssumption == Cardinality(Query) >= QueueDepth + MaxBatch /\ MaxPublishes >= 1
===============================================================================
