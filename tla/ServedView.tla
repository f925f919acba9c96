------------------------------- MODULE ServedView ------------------------------
(***************************************************************************)
(* What the PIR side promises about time: the record it serves for an       *)
(* address is one the balance map held, and it never goes back to an        *)
(* earlier one, whatever is rebuilt, compacted, refused or restarted.       *)
(***************************************************************************)
EXTENDS Naturals, Sequences

CONSTANTS Addr, Record

VARIABLES past,    \* every record the map has held of an address, in order
          shown,   \* how far along it the one that is served stands
          view     \* the records served

viewVars == <<past, shown, view>>

Init ==
    /\ past \in [Addr -> {<<r>> : r \in Record}]
    /\ shown = [a \in Addr |-> 1]
    /\ view = [a \in Addr |-> past[a][1]]

(* The map moves on.  While nothing is served the view is of no concern.    *)
Change(a) ==
    /\ \E r \in Record : past' = [past EXCEPT ![a] = Append(@, r)]
    /\ UNCHANGED <<shown, view>>

Serve ==
    /\ \A a \in Addr :
          /\ shown'[a] \in shown[a]..Len(past[a])
          /\ view'[a] = past[a][shown'[a]]
    /\ UNCHANGED past

Next == Serve \/ \E a \in Addr : Change(a)

Spec == Init /\ [][Next]_viewVars
===============================================================================
