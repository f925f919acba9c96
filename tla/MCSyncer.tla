------------------------------- MODULE MCSyncer -------------------------------
(***************************************************************************)
(* TLC instances of Syncer.  One module serves every configuration of it:   *)
(* the .cfg files differ in the tip policy and in the faults they allow.    *)
(***************************************************************************)
EXTENDS Syncer

(* Two blocks or more to sync over, and a rewind that stays on the chain:   *)
(* the real window is 64 blocks, millions below the cursor.                 *)
ASSUME InstanceAssumption == MaxBlock >= Origin + 2 /\ Window < Origin
===============================================================================
