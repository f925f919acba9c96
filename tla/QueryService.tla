------------------------------ MODULE QueryService ------------------------------
(***************************************************************************)
(* What the query endpoint promises: a query that is taken on is answered   *)
(* once, with its own answer, from a database served at some moment between *)
(* its arrival and its answer; it may be refused instead, and a client may  *)
(* leave.  Queries answered together are answered from one database.        *)
(***************************************************************************)
EXTENDS Naturals

CONSTANT Query

VARIABLES asked,    \* queries taken on and not answered yet
          since,    \* the database served when they arrived
          db,       \* the database served now
          answer

serviceVars == <<asked, since, db, answer>>

Outcome == {"none", "refused", "failed", "answered"}
Answer == [outcome : Outcome, to : Query, from : Nat]
Plain(q, outcome) == [outcome |-> outcome, to |-> q, from |-> 0]

Init ==
    /\ asked = {} /\ db = 0
    /\ since = [q \in Query |-> 0]
    /\ answer = [q \in Query |-> Plain(q, "none")]

Accept(q) ==
    /\ q \notin asked
    /\ asked' = asked \cup {q}
    /\ since' = [since EXCEPT ![q] = db]
    /\ answer' = [answer EXCEPT ![q] = Plain(q, "none")]
    /\ UNCHANGED db

Refuse(q) ==
    /\ q \notin asked
    /\ answer' = [answer EXCEPT ![q] = Plain(q, "refused")]
    /\ UNCHANGED <<asked, since, db>>

Leave(q) ==
    /\ q \in asked
    /\ asked' = asked \ {q}
    /\ UNCHANGED <<since, db, answer>>

AnswerAll(qs) ==
    /\ qs \subseteq asked
    /\ asked' = asked \ qs
    /\ answer' \in [Query -> Answer]
    /\ \A q \in Query \ qs : answer'[q] = answer[q]
    /\ \E version \in 0..db : \A q \in qs :
          \/ answer'[q] = Plain(q, "failed")
          \/ /\ answer'[q] = [outcome |-> "answered", to |-> q, from |-> version]
             /\ since[q] <= version
    /\ UNCHANGED <<since, db>>

Publish == db' = db + 1 /\ UNCHANGED <<asked, since, answer>>

Next ==
    \/ \E q \in Query : Accept(q) \/ Refuse(q) \/ Leave(q)
    \/ \E qs \in SUBSET Query : AnswerAll(qs)
    \/ Publish

Spec == Init /\ [][Next]_serviceVars
===============================================================================
