-------------------------------- MODULE MCLookup --------------------------------
(***************************************************************************)
(* TLC instances of Lookup: one client of a server that compacts and        *)
(* restarts.                                                                *)
(***************************************************************************)
EXTENDS Lookup

(* Two addresses, or nobody else's row could be read. *)
ASSUME InstanceAssumption == Cardinality(Addr) >= 2 /\ MaxCrashes >= 1 /\ MaxChanges >= 1
===============================================================================
