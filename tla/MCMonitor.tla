------------------------------- MODULE MCMonitor ------------------------------
(***************************************************************************)
(* TLC instance of Monitor: a syncer that can fail and restart under the    *)
(* reorganisations of an unfinalized tip, and a handler sampling it.        *)
(***************************************************************************)
EXTENDS Monitor

ASSUME InstanceAssumption ==
    /\ ~Finalized /\ MaxReorgs >= 1 /\ MaxFaults >= 1 /\ MaxCrashes >= 1
    /\ MaxBlock >= Origin + 2 /\ Window < Origin
===============================================================================
