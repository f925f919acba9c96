------------------------------ MODULE Publication -----------------------------
(***************************************************************************)
(* The PIR thread as seen over time: Publisher with a history of the map    *)
(* and of what has been served of it, to show that it is a ServedView.      *)
(***************************************************************************)
EXTENDS Publisher

VARIABLES past,   \* the records the syncer's map has held of each address
          shown   \* the position of the served one in it, 0 if there is none

pastVars == <<past, shown>>

(* The earliest record from where the view stands that is the one served.   *)
Later(a, r) ==
    LET later == {i \in shown[a]..Len(past[a]) : past[a][i] = r}
    IN  IF later = {} THEN 0 ELSE CHOOSE i \in later : \A j \in later : i <= j

PastInit ==
    /\ Init
    /\ past = [a \in Addr |-> <<holders[a]>>]
    /\ shown = [a \in Addr |-> 1]

PastNext ==
    /\ Next
    /\ past' = [a \in Addr |-> IF holders'[a] = holders[a] THEN past[a]
                               ELSE Append(past[a], holders'[a])]
    /\ shown' = IF served'.id = Missing THEN shown
                ELSE [a \in Addr |-> Later(a, served'.rows[a])]

PastSpec ==
    /\ PastInit /\ [][PastNext]_<<vars, pastVars>>
    /\ WF_vars(Worker) /\ SF_vars(Absorb)

(* What a client can be told: while no database is served, the last one.    *)
View == IF served.id = Missing THEN [a \in Addr |-> past[a][shown[a]]] ELSE served.rows

(* Through refused updates, failed rebuilds and compactions, and restarts   *)
(* from the saved files or from nothing, no balance that was served is      *)
(* followed by an older one.                                                *)
Service == INSTANCE ServedView WITH view <- View
NeverServesOlder == Service!Spec
===============================================================================
