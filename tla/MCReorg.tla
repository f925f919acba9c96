------------------------------- MODULE MCReorg -------------------------------
(***************************************************************************)
(* TLC instance of ReorgWatch: room for a second reorganisation after the   *)
(* repair of the first one.                                                 *)
(***************************************************************************)
EXTENDS ReorgWatch

ASSUME InstanceAssumption ==
    /\ ~Finalized /\ MaxReorgs >= 2
    /\ MaxBlock >= Origin + Window + FinalityLag
    /\ Window < Origin
===============================================================================
