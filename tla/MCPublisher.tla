------------------------------ MODULE MCPublisher ------------------------------
(***************************************************************************)
(* TLC instance of Publication.                                             *)
(***************************************************************************)
EXTENDS Publication

(* Room for a tail of two entries, and for a restart after a restart.       *)
ASSUME InstanceAssumption == Cardinality(Addr) >= 2 /\ MaxCrashes >= 2
===============================================================================
