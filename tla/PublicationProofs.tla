--------------------------- MODULE PublicationProofs ---------------------------
(***************************************************************************)
(* The PIR thread implements ServedView: what it serves of an address never *)
(* goes back to an earlier record of the map.                               *)
(***************************************************************************)
EXTENDS Publication, PublisherProofs, WellFoundedInduction

(* Where records stand in the past p of the map: at[a] is where the one the *)
(* thread holds of a stands, not before the served one, and the updates in  *)
(* the queue q follow it in their order.                                    *)
Traced(p, s, r, q, at, pos) ==
    /\ \A a \in Addr : at[a] \in s[a]..Len(p[a]) /\ p[a][at[a]] = r[a]
    /\ \A k \in 1..Len(q) :
          /\ pos[k] \in at[q[k].addr]..Len(p[q[k].addr])
          /\ p[q[k].addr][pos[k]] = q[k].record
          /\ \A l \in k..Len(q) : q[k].addr = q[l].addr => pos[k] <= pos[l]

InOrder ==
    \E at \in [Addr -> Nat], pos \in [1..Len(queue) -> Nat] :
        Traced(past, shown, rows, queue, at, pos)

(* The past ends with the map, and what is shown is in it.                  *)
PastFits ==
    /\ past \in [Addr -> Seq(Record)] /\ shown \in [Addr -> Nat]
    /\ \A a \in Addr : shown[a] \in 1..Len(past[a]) /\ past[a][Len(past[a])] = holders[a]

(* Nothing is queued for a thread that does not run.                        *)
DownFits ==
    /\ pc = "down" <=> served.id = Missing
    /\ pc = "down" => queue = <<>> /\ ~serving

ShownIsServed == \A a \in Addr : served.rows[a] = past[a][shown[a]]

PastInv ==
    /\ TypeOK /\ PastFits /\ DownFits
    /\ rows = current
    /\ served.id # Missing => ShownIsServed /\ InOrder

-------------------------------------------------------------------------------
(* The history. *)

(* Every set of numbers that is not empty has a least one.                  *)
LEMMA LeastNumber ==
    ASSUME NEW S, S \subseteq Nat, S # {}
    PROVE  \E m \in S : \A n \in S : m <= n
  <1>1. \E m \in S : \A n \in S : ~ (<<n, m>> \in OpToRel(<, Nat))
    BY NatLessThanWellFounded, WFMin
  <1>2. PICK m \in S : \A n \in S : ~ (<<n, m>> \in OpToRel(<, Nat))
    BY <1>1
  <1>3. ASSUME NEW n \in S PROVE m <= n
    <2>1. ~ (<<n, m>> \in {ss \in Nat \X Nat : ss[1] < ss[2]})
      BY <1>2 DEF OpToRel
    <2>2. m \in Nat /\ n \in Nat
      OBVIOUS
    <2>3. ~ (n < m)
      BY <2>1, <2>2
    <2>4. QED
      BY <2>2, <2>3
  <1>4. QED
    BY <1>3

LEMMA LaterIs ==
    ASSUME PastFits, NEW a \in Addr, NEW r, NEW i \in shown[a]..Len(past[a]), past[a][i] = r
    PROVE  /\ Later(a, r) \in shown[a]..Len(past[a]) /\ past[a][Later(a, r)] = r
           /\ \A j \in shown[a]..Len(past[a]) : past[a][j] = r => Later(a, r) <= j
  <1> DEFINE later == {j \in shown[a]..Len(past[a]) : past[a][j] = r}
  <1>1. shown[a] \in Nat /\ Len(past[a]) \in Nat
    BY LenProperties DEF PastFits
  <1>2. i \in later /\ later \subseteq Nat
    BY <1>1
  <1>3. \E m \in later : \A n \in later : m <= n
    <2> HIDE DEF later
    <2> QED
      BY <1>2, LeastNumber
  <1>4. Later(a, r) = CHOOSE m \in later : \A n \in later : m <= n
    BY <1>2 DEF Later
  <1>5. Later(a, r) \in later /\ \A n \in later : Later(a, r) <= n
    <2> HIDE DEF later
    <2> QED
      BY <1>3, <1>4
  <1>6. QED
    BY <1>5

(* The position stays with the database.                                    *)
LEMMA ShownStays ==
    ASSUME PastInv, PastNext, served' = served
    PROVE  shown' = shown
  <1>1. PastFits
    BY DEF PastInv
  <1>2. CASE served.id = Missing
    BY <1>2 DEF PastNext
  <1>3. CASE served.id # Missing
    <2>1. shown' = [a \in Addr |-> Later(a, served.rows[a])]
      BY <1>3 DEF PastNext
    <2>2. ASSUME NEW a \in Addr
          PROVE  Later(a, served.rows[a]) = shown[a]
      <3>1. shown[a] \in Nat /\ Len(past[a]) \in Nat /\ shown[a] <= Len(past[a])
        BY <1>1, LenProperties DEF PastFits
      <3>2. shown[a] \in shown[a]..Len(past[a])
        BY <3>1
      <3>3. past[a][shown[a]] = served.rows[a]
        BY <1>3 DEF PastInv, ShownIsServed
      <3>4. /\ Later(a, served.rows[a]) \in shown[a]..Len(past[a])
            /\ Later(a, served.rows[a]) <= shown[a]
        BY <1>1, <3>2, <3>3, LaterIs
      <3>5. QED
        BY <3>1, <3>4
    <2>3. QED
      BY <1>1, <2>1, <2>2 DEF PastFits
  <1>4. QED
    BY <1>2, <1>3

(* Nothing changes of the history when neither map nor database does.       *)
LEMMA HistoryStays ==
    ASSUME PastInv, PastNext, holders' = holders, served' = served
    PROVE  past' = past /\ shown' = shown
  <1>1. past' = past
    BY DEF PastInv, PastNext, PastFits
  <1>2. QED
    BY <1>1, ShownStays

(* The first position a database over other rows can be shown at.           *)
LEMMA HistoryMoves ==
    ASSUME PastInv, PastNext, holders' = holders, served'.id # Missing,
           NEW at \in [Addr -> Nat],
           \A a \in Addr : at[a] \in shown[a]..Len(past[a])
                           /\ past[a][at[a]] = served'.rows[a]
    PROVE  /\ past' = past /\ shown' \in [Addr -> Nat]
           /\ \A a \in Addr : /\ shown'[a] \in shown[a]..Len(past[a])
                              /\ past[a][shown'[a]] = served'.rows[a]
                              /\ shown'[a] <= at[a]
  <1>1. PastFits
    BY DEF PastInv
  <1>2. past' = past /\ shown' = [a \in Addr |-> Later(a, served'.rows[a])]
    BY <1>1 DEF PastNext, PastFits
  <1>3. ASSUME NEW a \in Addr
        PROVE  /\ shown'[a] \in shown[a]..Len(past[a])
               /\ past[a][shown'[a]] = served'.rows[a]
               /\ shown'[a] <= at[a] /\ shown'[a] \in Nat
    <2>1. shown[a] \in Nat /\ Len(past[a]) \in Nat
      BY <1>1, LenProperties DEF PastFits
    <2>2. shown'[a] = Later(a, served'.rows[a])
      BY <1>2
    <2>3. at[a] \in shown[a]..Len(past[a]) /\ past[a][at[a]] = served'.rows[a]
      OBVIOUS
    <2>4. QED
      BY <1>1, <2>1, <2>2, <2>3, LaterIs
  <1>4. QED
    BY <1>2, <1>3

-------------------------------------------------------------------------------
(* Steps.  Each one keeps the invariant, and but for a change of the map    *)
(* moves what is shown forward in the same past.                            *)
Forward == past' = past /\ \A a \in Addr : shown'[a] \in shown[a]..Len(past[a])

LEMMA TypeKept ==
    ASSUME PastInv, PastNext
    PROVE  TypeOK'
  BY TypeStep DEF PastInv, PastNext

LEMMA StaysForward ==
    ASSUME PastInv, past' = past, shown' = shown
    PROVE  Forward
  <1>1. \A a \in Addr : shown[a] \in Nat /\ Len(past[a]) \in Nat /\ shown[a] <= Len(past[a])
    BY LenProperties DEF PastInv, PastFits
  <1>2. QED
    BY <1>1 DEF Forward

(* Neither map, queue nor records move.                                     *)
LEMMA QuietGood ==
    ASSUME PastInv, PastNext, UNCHANGED <<holders, queue, rows, current, served>>,
           pc # "down", pc' # "down"
    PROVE  PastInv' /\ Forward
  <1>1. past' = past /\ shown' = shown
    BY HistoryStays
  <1>2. PastFits' /\ DownFits'
    BY <1>1 DEF PastInv, PastFits, DownFits
  <1>3. served'.id # Missing => ShownIsServed' /\ InOrder'
    BY <1>1 DEF PastInv, ShownIsServed, InOrder
  <1>4. QED
    BY <1>1, <1>2, <1>3, TypeKept, StaysForward DEF PastInv

(* A rebuild and a compaction serve the records the thread holds.           *)
LEMMA RowsServed ==
    ASSUME PastInv, PastNext, UNCHANGED <<holders, queue, rows, current>>,
           served'.id # Missing, served'.rows = rows, pc # "down", pc' # "down"
    PROVE  PastInv' /\ Forward
  <1>1. PastFits /\ served.id # Missing
    BY DEF PastInv, DownFits
  <1>2. PICK at \in [Addr -> Nat], pos \in [1..Len(queue) -> Nat] :
          Traced(past, shown, rows, queue, at, pos)
    BY <1>1 DEF PastInv, InOrder
  <1>3. \A a \in Addr : at[a] \in shown[a]..Len(past[a]) /\ past[a][at[a]] = served'.rows[a]
    BY <1>2 DEF Traced
  <1>4. /\ past' = past /\ shown' \in [Addr -> Nat]
        /\ \A a \in Addr : /\ shown'[a] \in shown[a]..Len(past[a])
                           /\ past[a][shown'[a]] = served'.rows[a]
                           /\ shown'[a] <= at[a]
    BY <1>3, HistoryMoves
  <1>5. \A a \in Addr : /\ shown[a] \in Nat /\ Len(past[a]) \in Nat /\ 1 <= shown[a]
                        /\ at[a] \in Nat /\ shown'[a] \in Nat
    BY <1>1, <1>4, LenProperties DEF PastFits
  <1>6. PastFits'
    <2>1. \A a \in Addr : shown'[a] \in 1..Len(past[a])
      BY <1>4, <1>5
    <2>2. QED
      BY <1>1, <1>4, <2>1 DEF PastFits
  <1>7. DownFits' /\ ShownIsServed'
    BY <1>4 DEF DownFits, ShownIsServed
  <1>8. \A a \in Addr : at[a] \in shown'[a]..Len(past[a])
    BY <1>3, <1>4, <1>5
  <1>9. Traced(past', shown', rows', queue', at, pos)
    BY <1>2, <1>4, <1>8 DEF Traced
  <1>10. InOrder'
    BY <1>9 DEF InOrder
  <1>11. QED
    BY <1>4, <1>6, <1>7, <1>10, TypeKept DEF PastInv, Forward

(* A start serves the map as it is.                                         *)
LEMMA MapServed ==
    ASSUME PastInv, PastNext, UNCHANGED <<holders, queue>>, pc = "down", pc' # "down",
           served'.id # Missing, served'.rows = holders, rows' = holders, current' = holders
    PROVE  PastInv' /\ Forward
  <1>1. PastFits /\ queue = <<>>
    BY DEF PastInv, DownFits
  <1> DEFINE at == [a \in Addr |-> Len(past[a])]
             pos == [k \in 1..Len(queue) |-> k]
  <1>2. \A a \in Addr : /\ shown[a] \in Nat /\ Len(past[a]) \in Nat /\ 1 <= shown[a]
                        /\ shown[a] <= Len(past[a]) /\ past[a][Len(past[a])] = holders[a]
    BY <1>1, LenProperties DEF PastFits
  <1>3. at \in [Addr -> Nat] /\ \A a \in Addr : at[a] = Len(past[a])
    BY <1>2
  <1>4. pos \in [1..Len(queue) -> Nat] /\ Len(queue) = 0
    BY <1>1
  <1> HIDE DEF at, pos
  <1>5. \A a \in Addr : at[a] \in shown[a]..Len(past[a]) /\ past[a][at[a]] = served'.rows[a]
    BY <1>2, <1>3
  <1>6. /\ past' = past /\ shown' \in [Addr -> Nat]
        /\ \A a \in Addr : /\ shown'[a] \in shown[a]..Len(past[a])
                           /\ past[a][shown'[a]] = served'.rows[a]
                           /\ shown'[a] <= at[a]
    BY <1>3, <1>5, HistoryMoves
  <1>7. PastFits'
    <2>1. \A a \in Addr : shown'[a] \in 1..Len(past[a])
      BY <1>2, <1>6
    <2>2. QED
      BY <1>1, <1>6, <2>1 DEF PastFits
  <1>8. DownFits' /\ ShownIsServed'
    BY <1>6 DEF DownFits, ShownIsServed
  <1>9. \A a \in Addr : at[a] \in shown'[a]..Len(past[a]) /\ past[a][at[a]] = rows'[a]
    BY <1>2, <1>3, <1>6
  <1>10. Traced(past', shown', rows', queue', at, pos)
    BY <1>4, <1>6, <1>9 DEF Traced
  <1>11. InOrder'
    BY <1>3, <1>4, <1>10 DEF InOrder
  <1>12. QED
    BY <1>6, <1>7, <1>8, <1>11, TypeKept DEF PastInv, Forward

(* A sequence that is not empty.                                            *)
LEMMA HeadAndTail ==
    ASSUME NEW S, NEW q \in Seq(S), q # <<>>
    PROVE  /\ Len(q) \in Nat /\ Len(q) >= 1 /\ Head(q) = q[1]
           /\ \A k \in 1..Len(q) : q[k] \in S
           /\ Len(Tail(q)) = Len(q) - 1
           /\ \A k \in 1..Len(Tail(q)) : Tail(q)[k] = q[k + 1]
  <1>1. Len(q) \in Nat /\ \A k \in 1..Len(q) : q[k] \in S
    BY LenProperties
  <1>2. Len(q) >= 1
    BY EmptySeq, <1>1
  <1>3. Head(q) = q[1]
    OBVIOUS
  <1>4. QED
    BY <1>1, <1>2, <1>3, HeadTailProperties

(* The first update of the queue is taken; the others move up.              *)
LEMMA QueueMoves ==
    ASSUME PastInv, queue # <<>>, queue' = Tail(queue), served.id # Missing,
           NEW at \in [Addr -> Nat], NEW pos \in [1..Len(queue) -> Nat],
           Traced(past, shown, rows, queue, at, pos),
           NEW to \in [Addr -> Nat], NEW r \in [Addr -> Record],
           \A a \in Addr : to[a] \in at[a]..Len(past[a]) /\ past[a][to[a]] = r[a],
           \A a \in Addr : a # queue[1].addr => to[a] = at[a],
           to[queue[1].addr] <= pos[1]
    PROVE  \E next \in [1..Len(queue') -> Nat] : Traced(past, shown, r, queue', to, next)
  <1> DEFINE Update == [addr : Addr, record : Record]
             next == [k \in 1..Len(queue') |-> pos[k + 1]]
  <1>1. queue \in Seq(Update) /\ PastFits
    BY DEF PastInv, TypeOK
  <1>2. /\ Len(queue) \in Nat /\ Len(queue') = Len(queue) - 1 /\ Len(queue) >= 1
        /\ \A k \in 1..Len(queue') : queue'[k] = queue[k + 1]
        /\ \A k \in 1..Len(queue) : queue[k].addr \in Addr
    <2>1. \A u \in Update : u.addr \in Addr
      OBVIOUS
    <2> HIDE DEF Update
    <2>2. QED
      BY <1>1, <2>1, HeadAndTail
  <1>3. \A a \in Addr : shown[a] \in Nat /\ Len(past[a]) \in Nat
    BY <1>1, LenProperties DEF PastFits
  <1>4. next \in [1..Len(queue') -> Nat] /\ \A k \in 1..Len(queue') : next[k] = pos[k + 1]
    BY <1>2
  <1> HIDE DEF next
  <1>5. ASSUME NEW a \in Addr
        PROVE  to[a] \in shown[a]..Len(past[a]) /\ past[a][to[a]] = r[a]
    <2>1. at[a] \in shown[a]..Len(past[a])
      BY DEF Traced
    <2>2. QED
      BY <1>3, <2>1
  <1>6. ASSUME NEW k \in 1..Len(queue')
        PROVE  /\ next[k] \in to[queue'[k].addr]..Len(past[queue'[k].addr])
               /\ past[queue'[k].addr][next[k]] = queue'[k].record
               /\ \A l \in k..Len(queue') :
                     queue'[k].addr = queue'[l].addr => next[k] <= next[l]
    <2>1. k + 1 \in 1..Len(queue) /\ 1 \in 1..Len(queue) /\ k + 1 \in 1..Len(queue)
      BY <1>2
    <2> DEFINE a == queue[k + 1].addr
    <2>2. a \in Addr /\ queue'[k] = queue[k + 1] /\ next[k] = pos[k + 1]
      BY <1>2, <1>4, <2>1
    <2>3. /\ pos[k + 1] \in at[a]..Len(past[a]) /\ past[a][pos[k + 1]] = queue[k + 1].record
          /\ \A l \in (k + 1)..Len(queue) : a = queue[l].addr => pos[k + 1] <= pos[l]
      BY <2>1 DEF Traced
    <2>4. k + 1 \in 1..Len(queue) /\ queue[1].addr = a => pos[1] <= pos[k + 1]
      BY <2>1 DEF Traced
    <2>5. to[a] <= pos[k + 1]
      <3>1. CASE a = queue[1].addr
        <4>1. pos[1] \in Nat /\ pos[k + 1] \in Nat /\ to[a] \in Nat
          BY <2>1, <2>2
        <4>2. QED
          BY <3>1, <2>1, <2>4, <4>1
      <3>2. CASE a # queue[1].addr
        <4>1. to[a] = at[a]
          BY <2>2, <3>2
        <4>2. QED
          BY <2>3, <4>1
      <3>3. QED
        BY <3>1, <3>2
    <2>6. next[k] \in to[queue'[k].addr]..Len(past[queue'[k].addr])
      BY <1>3, <2>1, <2>2, <2>3, <2>5
    <2>7. ASSUME NEW l \in k..Len(queue'), queue'[k].addr = queue'[l].addr
          PROVE  next[k] <= next[l]
      <3>1. l \in 1..Len(queue') /\ l + 1 \in (k + 1)..Len(queue)
        BY <1>2
      <3>2. next[l] = pos[l + 1] /\ queue'[l] = queue[l + 1]
        BY <1>2, <1>4, <3>1
      <3>3. QED
        BY <2>2, <2>3, <2>7, <3>1, <3>2
    <2>8. QED
      BY <2>2, <2>3, <2>6, <2>7
  <1>7. Traced(past, shown, r, queue', to, next)
    BY <1>5, <1>6 DEF Traced
  <1>8. QED
    BY <1>4, <1>7

(* What the first update is to the past.                                    *)
LEMMA FirstUpdate ==
    ASSUME PastInv, queue # <<>>,
           NEW at \in [Addr -> Nat], NEW pos \in [1..Len(queue) -> Nat],
           Traced(past, shown, rows, queue, at, pos)
    PROVE  /\ Head(queue) = queue[1] /\ queue[1].addr \in Addr /\ queue[1].record \in Record
           /\ pos[1] \in Nat
           /\ pos[1] \in at[queue[1].addr]..Len(past[queue[1].addr])
           /\ past[queue[1].addr][pos[1]] = queue[1].record
  <1> DEFINE Update == [addr : Addr, record : Record]
  <1>1. queue \in Seq(Update)
    BY DEF PastInv, TypeOK
  <1>2. Head(queue) = queue[1] /\ 1 \in 1..Len(queue) /\ queue[1] \in Update
    <2> HIDE DEF Update
    <2> QED
      BY <1>1, HeadAndTail
  <1>3. QED
    BY <1>2 DEF Traced

(* A thread that runs has a database.                                       *)
LEMMA Running ==
    ASSUME PastInv, pc # "down"
    PROVE  /\ served.id # Missing /\ PastFits /\ ShownIsServed /\ InOrder
           /\ rows \in [Addr -> Record]
  BY DEF PastInv, DownFits, TypeOK

LEMMA AbsorbGood ==
    ASSUME PastInv, PastNext, Absorb
    PROVE  PastInv' /\ Forward
  <1>1. /\ pc = "wait" /\ pc' = "wait" /\ queue # <<>> /\ queue' = Tail(queue)
        /\ rows' = [rows EXCEPT ![Head(queue).addr] = Head(queue).record]
        /\ current' = [current EXCEPT ![Head(queue).addr] = Head(queue).record]
        /\ UNCHANGED <<holders, served>>
    BY DEF Absorb
  <1>2. past' = past /\ shown' = shown
    BY <1>1, HistoryStays
  <1>3. PICK at \in [Addr -> Nat], pos \in [1..Len(queue) -> Nat] :
          Traced(past, shown, rows, queue, at, pos)
    BY <1>1, Running DEF InOrder
  <1> DEFINE b == queue[1].addr
             to == [at EXCEPT ![b] = pos[1]]
  <1>4. /\ Head(queue) = queue[1] /\ b \in Addr /\ queue[1].record \in Record
        /\ pos[1] \in Nat /\ pos[1] \in at[b]..Len(past[b])
        /\ past[b][pos[1]] = queue[1].record
    BY <1>1, <1>3, FirstUpdate
  <1>5. rows' \in [Addr -> Record] /\ rows' = current'
        /\ \A a \in Addr : rows'[a] = IF a = b THEN queue[1].record ELSE rows[a]
    BY <1>1, <1>4, Running DEF PastInv
  <1>6. to \in [Addr -> Nat] /\ to[b] = pos[1]
        /\ \A a \in Addr : a # b => to[a] = at[a]
    BY <1>4
  <1> HIDE DEF to
  <1>7. ASSUME NEW a \in Addr
        PROVE  to[a] \in at[a]..Len(past[a]) /\ past[a][to[a]] = rows'[a]
    <2>1. CASE a = b
      BY <1>4, <1>5, <1>6, <2>1
    <2>2. CASE a # b
      <3>1. at[a] \in shown[a]..Len(past[a]) /\ past[a][at[a]] = rows[a]
        BY <1>3 DEF Traced
      <3>2. at[a] \in Nat /\ Len(past[a]) \in Nat
        BY <1>1, Running, LenProperties DEF PastFits
      <3>3. QED
        BY <1>5, <1>6, <2>2, <3>1, <3>2
    <2>3. QED
      BY <2>1, <2>2
  <1>8. to[queue[1].addr] <= pos[1]
    BY <1>4, <1>6
  <1>9. \A a \in Addr : a # queue[1].addr => to[a] = at[a]
    BY <1>6
  <1>10. PICK next \in [1..Len(queue') -> Nat] : Traced(past, shown, rows', queue', to, next)
    BY <1>1, <1>3, <1>5, <1>6, <1>7, <1>8, <1>9, Running, QueueMoves
  <1>11. InOrder'
    BY <1>2, <1>6, <1>10 DEF InOrder
  <1>12. PastFits' /\ ShownIsServed' /\ DownFits'
    BY <1>1, <1>2, Running DEF PastFits, ShownIsServed, DownFits
  <1>13. QED
    BY <1>2, <1>5, <1>11, <1>12, TypeKept, StaysForward DEF PastInv

LEMMA RejectGood ==
    ASSUME PastInv, PastNext, Reject
    PROVE  PastInv' /\ Forward
  <1>1. /\ pc = "wait" /\ pc' = "wait" /\ queue # <<>> /\ queue' = Tail(queue)
        /\ UNCHANGED <<holders, served, rows, current>>
    BY DEF Reject, thread
  <1>2. past' = past /\ shown' = shown
    BY <1>1, HistoryStays
  <1>3. PICK at \in [Addr -> Nat], pos \in [1..Len(queue) -> Nat] :
          Traced(past, shown, rows, queue, at, pos)
    BY <1>1, Running DEF InOrder
  <1>4. pos[1] \in Nat /\ pos[1] \in at[queue[1].addr]..Len(past[queue[1].addr])
        /\ queue[1].addr \in Addr
    BY <1>1, <1>3, FirstUpdate
  <1>5. ASSUME NEW a \in Addr
        PROVE  at[a] \in at[a]..Len(past[a]) /\ past[a][at[a]] = rows[a]
    <2>1. at[a] \in shown[a]..Len(past[a]) /\ past[a][at[a]] = rows[a]
      BY <1>3 DEF Traced
    <2>2. at[a] \in Nat /\ Len(past[a]) \in Nat /\ shown[a] \in Nat
      BY <1>1, Running, LenProperties DEF PastFits
    <2>3. QED
      BY <2>1, <2>2
  <1>6. at[queue[1].addr] <= pos[1]
    BY <1>4
  <1>7. PICK next \in [1..Len(queue') -> Nat] : Traced(past, shown, rows, queue', at, next)
    BY <1>1, <1>3, <1>5, <1>6, Running, QueueMoves
  <1>8. InOrder'
    BY <1>1, <1>2, <1>7 DEF InOrder
  <1>9. PastFits' /\ ShownIsServed' /\ DownFits'
    BY <1>1, <1>2, Running DEF PastFits, ShownIsServed, DownFits
  <1>10. QED
    BY <1>1, <1>2, <1>8, <1>9, TypeKept, StaysForward DEF PastInv

(* With the process goes what it has served; what was shown stays shown.    *)
LEMMA CrashGood ==
    ASSUME PastInv, PastNext, Crash
    PROVE  PastInv' /\ Forward
  <1>1. /\ pc' = "down" /\ queue' = <<>> /\ serving' = FALSE /\ holders' = holders
        /\ served' = EmptyDatabase /\ rows' = current'
    BY DEF Crash
  <1>2. served'.id = Missing
    BY <1>1 DEF EmptyDatabase
  <1>3. PastFits
    BY DEF PastInv
  <1>4. past' = past /\ shown' = shown
    BY <1>1, <1>2, <1>3 DEF PastNext, PastFits
  <1>5. PastFits' /\ DownFits'
    BY <1>1, <1>2, <1>3, <1>4 DEF PastFits, DownFits
  <1>6. QED
    BY <1>1, <1>2, <1>4, <1>5, TypeKept, StaysForward DEF PastInv

(* The map moves on: the new record comes last, in the past and in the      *)
(* queue of a thread that runs.                                             *)
LEMMA ChangeGood ==
    ASSUME PastInv, PastNext, Change
    PROVE  /\ PastInv' /\ shown' = shown
           /\ \E a \in Addr : \E r \in Record : past' = [past EXCEPT ![a] = Append(@, r)]
           /\ \A a \in Addr : past'[a][shown[a]] = past[a][shown[a]]
  <1>1. PICK a \in Addr, r \in Record :
          /\ r # holders[a] /\ holders' = [holders EXCEPT ![a] = r]
          /\ queue' = IF serving THEN Append(queue, [addr |-> a, record |-> r]) ELSE queue
    BY DEF Change
  <1>2. /\ pc = "down" \/ serving
        /\ UNCHANGED <<pc, served, rows, current, serving>>
    BY DEF Change, thread
  <1>3. PastFits /\ holders \in [Addr -> Record]
    BY DEF PastInv, TypeOK
  <1>4. shown' = shown
    BY <1>2, ShownStays
  <1>5. past' = [past EXCEPT ![a] = Append(@, r)]
    <2>1. \A b \in Addr : past'[b] = IF b = a THEN Append(past[b], r) ELSE past[b]
      BY <1>1, <1>3 DEF PastNext
    <2>2. past' = [b \in Addr |-> past'[b]]
      BY DEF PastNext
    <2>3. QED
      BY <1>3, <2>1, <2>2 DEF PastFits
  <1>6. /\ past'[a] \in Seq(Record) /\ Len(past'[a]) = Len(past[a]) + 1
        /\ past'[a][Len(past[a]) + 1] = r
        /\ \A i \in 1..Len(past[a]) : past'[a][i] = past[a][i]
        /\ \A b \in Addr \ {a} : past'[b] = past[b]
    <2>1. past'[a] = Append(past[a], r) /\ past[a] \in Seq(Record)
      BY <1>3, <1>5 DEF PastFits
    <2>2. \A b \in Addr \ {a} : past'[b] = past[b]
      BY <1>3, <1>5 DEF PastFits
    <2>3. QED
      BY <2>1, <2>2, AppendProperties
  <1>7. \A b \in Addr : /\ Len(past[b]) \in Nat /\ Len(past'[b]) \in Nat
                        /\ Len(past[b]) <= Len(past'[b])
                        /\ \A i \in 1..Len(past[b]) : past'[b][i] = past[b][i]
                        /\ shown[b] \in 1..Len(past[b])
    <2>1. \A b \in Addr : Len(past[b]) \in Nat /\ shown[b] \in 1..Len(past[b])
      BY <1>3, LenProperties DEF PastFits
    <2>2. QED
      BY <1>6, <2>1
  <1>8. PastFits'
    <2>1. past' \in [Addr -> Seq(Record)] /\ shown' \in [Addr -> Nat]
      BY <1>3, <1>4, <1>5, <1>6 DEF PastFits
    <2>2. ASSUME NEW b \in Addr
          PROVE  shown'[b] \in 1..Len(past'[b]) /\ past'[b][Len(past'[b])] = holders'[b]
      <3>1. shown'[b] \in 1..Len(past'[b])
        BY <1>4, <1>7
      <3>2. CASE b = a
        BY <1>1, <1>3, <1>6, <3>1, <3>2
      <3>3. CASE b # a
        BY <1>1, <1>3, <1>6, <3>1, <3>3 DEF PastFits
      <3>4. QED
        BY <3>2, <3>3
    <2>3. QED
      BY <2>1, <2>2 DEF PastFits
  <1>9. \A b \in Addr : past'[b][shown[b]] = past[b][shown[b]]
    BY <1>7
  <1>10. DownFits'
    BY <1>1, <1>2 DEF PastInv, DownFits
  <1>11. CASE pc = "down"
    <2>1. served'.id = Missing
      BY <1>2, <1>11 DEF PastInv, DownFits
    <2>2. QED
      BY <1>2, <1>4, <1>5, <1>8, <1>9, <1>10, <2>1, TypeKept DEF PastInv
  <1>12. CASE pc # "down"
    <2>1. queue' = Append(queue, [addr |-> a, record |-> r])
      BY <1>1, <1>2, <1>12
    <2>2. PICK at \in [Addr -> Nat], pos \in [1..Len(queue) -> Nat] :
            Traced(past, shown, rows, queue, at, pos)
      BY <1>12, Running DEF InOrder
    <2> DEFINE next == [k \in 1..(Len(queue) + 1) |->
                          IF k <= Len(queue) THEN pos[k] ELSE Len(past[a]) + 1]
    <2>3. /\ Len(queue) \in Nat /\ Len(queue') = Len(queue) + 1
          /\ \A k \in 1..Len(queue) : queue'[k] = queue[k] /\ queue[k].addr \in Addr
          /\ queue'[Len(queue) + 1] = [addr |-> a, record |-> r]
      <3> DEFINE Update == [addr : Addr, record : Record]
      <3>1. queue \in Seq(Update) /\ [addr |-> a, record |-> r] \in Update
        BY DEF PastInv, TypeOK
      <3>2. \A u \in Update : u.addr \in Addr
        OBVIOUS
      <3> HIDE DEF Update
      <3>3. \A k \in 1..Len(queue) : queue[k] \in Update
        BY <3>1, LenProperties
      <3>4. QED
        BY <2>1, <3>1, <3>2, <3>3, AppendProperties, LenProperties
    <2>4. next \in [1..Len(queue') -> Nat]
      BY <1>7, <2>3
    <2>5. /\ \A k \in 1..Len(queue) : next[k] = pos[k]
          /\ next[Len(queue) + 1] = Len(past[a]) + 1
      BY <2>3
    <2> HIDE DEF next
    <2>6. ASSUME NEW b \in Addr
          PROVE  at[b] \in shown[b]..Len(past'[b]) /\ past'[b][at[b]] = rows[b]
      <3>1. at[b] \in shown[b]..Len(past[b]) /\ past[b][at[b]] = rows[b]
        BY <2>2 DEF Traced
      <3>2. QED
        BY <1>7, <3>1
    <2>7. ASSUME NEW k \in 1..Len(queue')
          PROVE  /\ next[k] \in at[queue'[k].addr]..Len(past'[queue'[k].addr])
                 /\ past'[queue'[k].addr][next[k]] = queue'[k].record
                 /\ \A l \in k..Len(queue') :
                       queue'[k].addr = queue'[l].addr => next[k] <= next[l]
      <3>1. CASE k = Len(queue) + 1
        <4>1. at[a] \in shown[a]..Len(past[a]) /\ at[a] \in Nat
          BY <2>2 DEF Traced
        <4>2. queue'[k].addr = a /\ queue'[k].record = r /\ next[k] = Len(past[a]) + 1
          BY <2>3, <2>5, <3>1
        <4>3. \A l \in k..Len(queue') : l = k
          BY <2>3, <3>1
        <4>4. QED
          BY <1>6, <1>7, <4>1, <4>2, <4>3
      <3>2. CASE k # Len(queue) + 1
        <4>1. k \in 1..Len(queue)
          BY <2>3, <3>2
        <4> DEFINE b == queue[k].addr
        <4>2. b \in Addr /\ queue'[k] = queue[k] /\ next[k] = pos[k] /\ pos[k] \in Nat
          BY <2>3, <2>5, <4>1
        <4>3. /\ pos[k] \in at[b]..Len(past[b]) /\ past[b][pos[k]] = queue[k].record
              /\ \A l \in k..Len(queue) : b = queue[l].addr => pos[k] <= pos[l]
          BY <2>2, <4>1 DEF Traced
        <4>4. at[b] \in Nat /\ at[b] >= 1
          <5>1. at[b] \in shown[b]..Len(past[b])
            BY <2>2, <4>2 DEF Traced
          <5>2. QED
            BY <1>7, <4>2, <5>1
        <4>5. pos[k] \in 1..Len(past[b]) /\ pos[k] <= Len(past[b])
          BY <1>7, <4>2, <4>3, <4>4
        <4>6. next[k] \in at[b]..Len(past'[b]) /\ past'[b][next[k]] = queue[k].record
          BY <1>7, <4>2, <4>3, <4>5
        <4>7. ASSUME NEW l \in k..Len(queue'), queue'[k].addr = queue'[l].addr
              PROVE  next[k] <= next[l]
          <5>1. CASE l \in k..Len(queue)
            <6>1. l \in 1..Len(queue)
              BY <2>3, <4>1, <5>1
            <6>2. next[l] = pos[l] /\ queue'[l] = queue[l]
              BY <2>3, <2>5, <6>1
            <6>3. QED
              BY <4>2, <4>3, <4>7, <5>1, <6>2
          <5>2. CASE l \notin k..Len(queue)
            <6>1. l = Len(queue) + 1
              <7> DEFINE n == Len(queue)
                         m == Len(queue')
              <7>1. n \in Nat /\ m = n + 1 /\ k \in 1..n /\ l \in k..m /\ l \notin k..n
                BY <2>3, <4>1, <4>7, <5>2
              <7> HIDE DEF n, m
              <7>2. l = n + 1
                BY <7>1
              <7>3. QED
                BY <7>2 DEF n
            <6>2. b = a /\ next[l] = Len(past[a]) + 1
              BY <2>3, <2>5, <4>2, <4>7, <6>1
            <6>3. QED
              BY <1>7, <4>2, <4>5, <6>2
          <5>3. QED
            BY <5>1, <5>2
        <4>8. QED
          BY <4>2, <4>6, <4>7
      <3>3. QED
        BY <3>1, <3>2
    <2>8. Traced(past', shown', rows', queue', at, next)
      BY <1>2, <1>4, <2>6, <2>7 DEF Traced
    <2>9. InOrder'
      BY <2>4, <2>8 DEF InOrder
    <2>10. ShownIsServed'
      BY <1>2, <1>4, <1>9, <1>12, Running DEF ShownIsServed
    <2>11. QED
      BY <1>2, <1>4, <1>5, <1>8, <1>9, <1>10, <2>9, <2>10, TypeKept DEF PastInv
  <1>13. QED
    BY <1>11, <1>12

(* A quiet step of a thread that runs.                                      *)
LEMMA QuietSteps ==
    ASSUME PastInv, PastNext,
           \/ WriteKeys \/ WriteIndex \/ Persist \/ Expose \/ SkipCompact
           \/ CheckpointFails \/ PublishFails \/ RebuildFails \/ CompactFails
    PROVE  PastInv' /\ Forward
  <1>1. UNCHANGED <<holders, queue, rows, current, served>>
    BY DEF WriteKeys, WriteIndex, Persist, Expose, SkipCompact, CheckpointFails,
           PublishFails, RebuildFails, CompactFails, thread
  <1>2. pc # "down" /\ pc' # "down"
    BY DEF WriteKeys, WriteIndex, Persist, Expose, SkipCompact, CheckpointFails,
           PublishFails, RebuildFails, CompactFails
  <1>3. QED
    BY <1>1, <1>2, QuietGood

(* A start on the saved files, and one on nothing.                          *)
LEMMA StartSteps ==
    ASSUME PastInv, PastNext, Restore \/ InitServer
    PROVE  PastInv' /\ Forward
  <1>1. UNCHANGED <<holders, queue>> /\ pc = "down" /\ pc' # "down"
    BY DEF Restore, InitServer, Install
  <1>2. rows' = holders /\ current' = holders /\ served'.rows = holders
    BY DEF Restore, InitServer, Install
  <1>3. served'.id # Missing
    <2>1. CASE Restore
      BY <2>1 DEF Restore, Restorable
    <2>2. CASE InitServer
      <3>1. served'.id = builds + 1 /\ builds \in Nat
        BY <2>2 DEF InitServer, Install, PastInv, TypeOK
      <3>2. QED
        BY <3>1 DEF Missing
    <2>3. QED
      BY <2>1, <2>2
  <1>4. QED
    BY <1>1, <1>2, <1>3, MapServed

(* A rebuild and a compaction.                                              *)
LEMMA RowsSteps ==
    ASSUME PastInv, PastNext, Rebuild \/ Compact
    PROVE  PastInv' /\ Forward
  <1>1. UNCHANGED <<holders, queue>> /\ pc # "down" /\ pc' # "down"
    BY DEF Rebuild, Compact, Install
  <1>2. served.id # Missing /\ rows = current
    BY <1>1, Running DEF PastInv
  <1>3. UNCHANGED <<rows, current>> /\ served'.id # Missing /\ served'.rows = rows
    <2>1. CASE Rebuild
      <3>1. UNCHANGED <<rows, current>> /\ served \in Served
            /\ served' = [served EXCEPT !.tail = index.tail, !.rows = rows]
        BY <2>1 DEF Rebuild, PastInv, TypeOK
      <3>2. served'.id = served.id /\ served'.rows = rows
        BY <3>1 DEF Served
      <3>3. QED
        BY <1>2, <3>1, <3>2
    <2>2. CASE Compact
      <3>1. served'.id = builds + 1 /\ builds \in Nat
        BY <2>2 DEF Compact, Install, PastInv, TypeOK
      <3>2. rows' = current /\ current' = current /\ served'.rows = current
        BY <2>2 DEF Compact, Install
      <3>3. QED
        BY <1>2, <3>1, <3>2 DEF Missing
    <2>3. QED
      BY <2>1, <2>2
  <1>4. QED
    BY <1>1, <1>3, RowsServed

(* Nothing happens in the thread.                                           *)
LEMMA NothingGood ==
    ASSUME PastInv, PastNext, UNCHANGED vars
    PROVE  PastInv' /\ Forward
  <1>1. UNCHANGED <<holders, queue, rows, current, served, pc, serving>>
    BY DEF vars, thread
  <1>2. past' = past /\ shown' = shown
    BY <1>1, HistoryStays
  <1>3. PastFits' /\ DownFits'
    BY <1>1, <1>2 DEF PastInv, PastFits, DownFits
  <1>4. served'.id # Missing => ShownIsServed' /\ InOrder'
    BY <1>1, <1>2 DEF PastInv, ShownIsServed, InOrder
  <1>5. QED
    BY <1>1, <1>2, <1>3, <1>4, TypeKept, StaysForward DEF PastInv

-------------------------------------------------------------------------------
(* The view. *)

LEMMA ViewIs ==
    ASSUME PastInv
    PROVE  View = [a \in Addr |-> past[a][shown[a]]]
  <1>1. CASE served.id = Missing
    BY <1>1 DEF View
  <1>2. CASE served.id # Missing
    <2>1. served.rows \in [Addr -> Record]
      BY DEF PastInv, TypeOK, Served
    <2>2. \A a \in Addr : served.rows[a] = past[a][shown[a]]
      BY <1>2 DEF PastInv, ShownIsServed
    <2>3. View = served.rows
      BY <1>2 DEF View
    <2>4. QED
      BY <2>1, <2>2, <2>3
  <1>3. QED
    BY <1>1, <1>2

(* The same after a step.                                                   *)
LEMMA ViewAfter ==
    ASSUME PastInv'
    PROVE  View' = [a \in Addr |-> past'[a][shown'[a]]]
  <1>1. CASE served'.id = Missing
    BY <1>1 DEF View
  <1>2. CASE served'.id # Missing
    <2>1. served'.rows \in [Addr -> Record]
      BY DEF PastInv, TypeOK, Served
    <2>2. \A a \in Addr : served'.rows[a] = past'[a][shown'[a]]
      BY <1>2 DEF PastInv, ShownIsServed
    <2>3. View' = served'.rows
      BY <1>2 DEF View
    <2>4. QED
      BY <2>1, <2>2, <2>3
  <1>3. QED
    BY <1>1, <1>2

LEMMA InitGood ==
    ASSUME PastInit
    PROVE  PastInv /\ Service!Init
  <1>1. TypeOK
    BY InitType DEF PastInit
  <1>2. /\ past = [a \in Addr |-> <<holders[a]>>] /\ shown = [a \in Addr |-> 1]
        /\ served = EmptyDatabase /\ queue = <<>> /\ pc = "down" /\ serving = FALSE
        /\ rows = current /\ holders \in [Addr -> Record]
    BY DEF PastInit, Init
  <1>3. served.id = Missing
    BY <1>2 DEF EmptyDatabase
  <1>4. \A a \in Addr : /\ past[a] = <<holders[a]>> /\ past[a] \in Seq(Record)
                        /\ Len(past[a]) = 1 /\ past[a][1] = holders[a] /\ shown[a] = 1
    BY <1>2
  <1>5. PastFits
    <2>1. past \in [Addr -> Seq(Record)] /\ shown \in [Addr -> Nat]
      BY <1>2, <1>4
    <2>2. QED
      BY <1>4, <2>1 DEF PastFits
  <1>6. PastInv
    BY <1>1, <1>2, <1>3, <1>5 DEF PastInv, DownFits
  <1>7. View = [a \in Addr |-> past[a][1]]
    BY <1>2, <1>3 DEF View
  <1>8. past \in [Addr -> {<<r>> : r \in Record}]
    BY <1>2
  <1>9. QED
    BY <1>2, <1>6, <1>7, <1>8 DEF Service!Init

(* One step.                                                                *)
LEMMA StepGood ==
    ASSUME PastInv, [PastNext]_<<vars, pastVars>>
    PROVE  PastInv' /\ [Service!Next]_(Service!viewVars)
  <1>1. CASE UNCHANGED <<vars, pastVars>>
    <2>1. UNCHANGED <<holders, queue, rows, current, served, pc, serving, past, shown>>
      BY <1>1 DEF vars, thread, pastVars
    <2>2. TypeOK'
      BY <1>1, TypeStep DEF PastInv
    <2>3. PastFits' /\ DownFits' /\ (served'.id # Missing => ShownIsServed' /\ InOrder')
      BY <2>1 DEF PastInv, PastFits, DownFits, ShownIsServed, InOrder
    <2>4. PastInv'
      BY <2>1, <2>2, <2>3 DEF PastInv
    <2>5. View' = View
      BY <2>1 DEF View
    <2>6. QED
      BY <2>1, <2>4, <2>5 DEF Service!viewVars
  <1>2. CASE PastNext
    <2>1. CASE Change
      <3>1. /\ PastInv' /\ shown' = shown
            /\ \E a \in Addr : \E r \in Record : past' = [past EXCEPT ![a] = Append(@, r)]
            /\ \A a \in Addr : past'[a][shown[a]] = past[a][shown[a]]
        BY <1>2, <2>1, ChangeGood
      <3>2. View = [a \in Addr |-> past[a][shown[a]]]
        BY ViewIs
      <3>3. View' = [a \in Addr |-> past'[a][shown'[a]]]
        BY <3>1, ViewAfter
      <3>4. View' = View
        BY <3>1, <3>2, <3>3
      <3>5. QED
        BY <3>1, <3>4 DEF Service!Next, Service!Change
    <2>2. CASE Worker \/ Fault \/ Crash
      <3>1. PastInv' /\ Forward
        BY <1>2, <2>2, QuietSteps, StartSteps, RowsSteps, NothingGood, AbsorbGood,
           RejectGood, CrashGood DEF Worker, Fault, RefuseStart
      <3>2. View' = [a \in Addr |-> past'[a][shown'[a]]]
        BY <3>1, ViewAfter
      <3>3. Service!Serve
        BY <3>1, <3>2 DEF Forward, Service!Serve
      <3>4. QED
        BY <3>1, <3>3 DEF Service!Next
    <2>3. QED
      BY <1>2, <2>1, <2>2 DEF PastNext, Next
  <1>3. QED
    BY <1>1, <1>2

(* For every set of addresses and records and every bound: over refused     *)
(* updates, failed rebuilds and compactions, and restarts from the files or *)
(* from nothing, the record served for an address is one the map has held   *)
(* and never an older one than before.                                      *)
THEOREM PublicationImplements == PastSpec => NeverServesOlder
  <1>1. PastInit => PastInv /\ Service!Init
    BY InitGood
  <1>2. PastInv /\ [PastNext]_<<vars, pastVars>> => PastInv' /\ [Service!Next]_(Service!viewVars)
    BY StepGood
  <1>3. QED
    BY <1>1, <1>2, PTL DEF PastSpec, NeverServesOlder, Service!Spec
===============================================================================
