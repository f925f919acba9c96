----------------------------- MODULE BatcherProofs -----------------------------
(***************************************************************************)
(* The batcher keeps the promise of QueryService, for every number of       *)
(* clients, queue depth, batch size and window.                             *)
(***************************************************************************)
EXTENDS Batcher, SequenceTheorems, TLAPS

(* Between the pass and the replies the results stand beside the batch, all *)
(* from one database that is not older than any of its queries.             *)
ResultsFit ==
    worker = "replying" =>
        /\ Len(results) = Len(batch)
        /\ \E version \in 0..db : \A i \in 1..Len(batch) :
              \/ results[i] = Plain(batch[i], "failed")
              \/ /\ results[i] = [outcome |-> "answered", to |-> batch[i], from |-> version]
                 /\ since[batch[i]] <= version

BatchInv ==
    /\ TypeOK /\ HeldOnce /\ ResultsFit
    /\ worker = "idle" => batch = <<>>
    /\ \A q \in Query : since[q] <= db

-------------------------------------------------------------------------------
(* Queues without repetition. *)

LEMMA AppendDistinct ==
    ASSUME NEW s \in Seq(Query), NEW q \in Query, IsInjective(s), q \notin Range(s)
    PROVE  /\ Append(s, q) \in Seq(Query) /\ Len(Append(s, q)) = Len(s) + 1
           /\ IsInjective(Append(s, q))
           /\ Range(Append(s, q)) = Range(s) \cup {q}
  <1> DEFINE t == Append(s, q)
  <1>1. /\ t \in Seq(Query) /\ Len(t) = Len(s) + 1 /\ Len(s) \in Nat
        /\ \A i \in 1..Len(s) : t[i] = s[i]
        /\ t[Len(s) + 1] = q
    BY AppendProperties, LenProperties
  <1> HIDE DEF t
  <1>2. DOMAIN t = 1..(Len(s) + 1) /\ DOMAIN s = 1..Len(s)
    BY <1>1, LenProperties
  <1>3. \A i \in 1..Len(s) : s[i] \in Range(s)
    BY <1>2 DEF Range
  <1>4. IsInjective(t)
    <2>1. SUFFICES ASSUME NEW a \in 1..(Len(s) + 1), NEW b \in 1..(Len(s) + 1), t[a] = t[b]
                   PROVE  a = b
      BY <1>2 DEF IsInjective
    <2>2. CASE a = Len(s) + 1 \/ b = Len(s) + 1
      <3>1. \A i \in 1..Len(s) : t[i] # q
        BY <1>1, <1>3
      <3>2. QED
        BY <1>1, <2>1, <2>2, <3>1
    <2>3. CASE a # Len(s) + 1 /\ b # Len(s) + 1
      <3>1. a \in 1..Len(s) /\ b \in 1..Len(s)
        BY <1>1, <2>3
      <3>2. s[a] = s[b]
        BY <1>1, <2>1, <3>1
      <3>3. QED
        BY <1>2, <3>1, <3>2 DEF IsInjective
    <2>4. QED
      BY <2>2, <2>3
  <1>5. Range(t) = Range(s) \cup {q}
    <2>1. \A x \in Range(t) : x \in Range(s) \cup {q}
      <3>1. ASSUME NEW i \in 1..(Len(s) + 1)
            PROVE  t[i] \in Range(s) \cup {q}
        <4>1. i \in 1..Len(s) \/ i = Len(s) + 1
          BY <1>1
        <4>2. QED
          BY <1>1, <1>3, <4>1
      <3>2. QED
        BY <1>2, <3>1 DEF Range
    <2>2. \A x \in Range(s) : x \in Range(t)
      <3>1. ASSUME NEW i \in 1..Len(s)
            PROVE  s[i] \in Range(t)
        <4>1. i \in DOMAIN t /\ t[i] = s[i]
          BY <1>1, <1>2
        <4>2. QED
          BY <4>1 DEF Range
      <3>2. QED
        BY <1>2, <3>1 DEF Range
    <2>3. q \in Range(t)
      <3>1. Len(s) + 1 \in DOMAIN t
        BY <1>1, <1>2
      <3>2. QED
        BY <1>1, <3>1 DEF Range
    <2>4. QED
      BY <2>1, <2>2, <2>3
  <1>6. QED
    BY <1>1, <1>4, <1>5 DEF t

LEMMA TailDistinct ==
    ASSUME NEW s \in Seq(Query), s # <<>>, IsInjective(s)
    PROVE  /\ Head(s) \in Query /\ Tail(s) \in Seq(Query) /\ Len(Tail(s)) = Len(s) - 1
           /\ Len(s) \in Nat \ {0}
           /\ IsInjective(Tail(s))
           /\ Head(s) \notin Range(Tail(s))
           /\ Range(s) = Range(Tail(s)) \cup {Head(s)}
  <1> DEFINE t == Tail(s)
  <1>1. /\ Head(s) \in Query /\ t \in Seq(Query) /\ Len(t) = Len(s) - 1
        /\ \A i \in 1..Len(t) : t[i] = s[i + 1]
        /\ Head(s) = s[1]
    BY HeadTailProperties
  <1>2. Len(s) \in Nat \ {0} /\ DOMAIN s = 1..Len(s)
    BY LenProperties, EmptySeq
  <1> HIDE DEF t
  <1>3. DOMAIN t = 1..(Len(s) - 1) /\ Len(s) - 1 \in Nat
    BY <1>1, <1>2, LenProperties
  <1>4. \A i \in 1..(Len(s) - 1) : i + 1 \in DOMAIN s /\ i + 1 # 1 /\ t[i] = s[i + 1]
    BY <1>1, <1>2, <1>3
  <1>5. 1 \in DOMAIN s
    BY <1>2
  <1>6. IsInjective(t)
    <2>1. SUFFICES ASSUME NEW a \in 1..(Len(s) - 1), NEW b \in 1..(Len(s) - 1), t[a] = t[b]
                   PROVE  a = b
      BY <1>3 DEF IsInjective
    <2>2. a + 1 = b + 1
      BY <1>4, <2>1 DEF IsInjective
    <2>3. QED
      BY <1>3, <2>2
  <1>7. Head(s) \notin Range(t)
    <2>1. \A i \in 1..(Len(s) - 1) : t[i] # s[1]
      BY <1>4, <1>5 DEF IsInjective
    <2>2. QED
      BY <1>1, <1>3, <2>1 DEF Range
  <1>8. Range(s) = Range(t) \cup {Head(s)}
    <2>1. \A x \in Range(t) : x \in Range(s)
      BY <1>3, <1>4 DEF Range
    <2>2. Head(s) \in Range(s)
      BY <1>1, <1>5 DEF Range
    <2>3. ASSUME NEW i \in DOMAIN s
          PROVE  s[i] \in Range(t) \cup {Head(s)}
      <3>1. CASE i = 1
        BY <1>1, <3>1
      <3>2. CASE i # 1
        <4>1. i - 1 \in 1..(Len(s) - 1) /\ (i - 1) + 1 = i
          BY <1>2, <2>3, <3>2
        <4>2. t[i - 1] = s[i] /\ i - 1 \in DOMAIN t
          BY <1>3, <1>4, <4>1
        <4>3. QED
          BY <4>2 DEF Range
      <3>3. QED
        BY <3>1, <3>2
    <2>4. QED
      BY <2>1, <2>2, <2>3 DEF Range
  <1>9. QED
    BY <1>1, <1>2, <1>6, <1>7, <1>8 DEF t

LEMMA SmallSequences ==
    /\ <<>> \in Seq(Query) /\ <<>> \in Seq(Answer) /\ Len(<<>>) = 0
    /\ Range(<<>>) = {} /\ IsInjective(<<>>)
    /\ \A q \in Query : /\ <<q>> \in Seq(Query) /\ Len(<<q>>) = 1
                        /\ Range(<<q>>) = {q} /\ IsInjective(<<q>>)
  BY DEF Range, IsInjective

LEMMA JobsOf ==
    ASSUME NEW s \in Seq(Query)
    PROVE  /\ DOMAIN s = 1..Len(s) /\ Len(s) \in Nat
           /\ Range(s) \subseteq Query
           /\ \A i \in 1..Len(s) : s[i] \in Query /\ s[i] \in Range(s)
  <1>1. DOMAIN s = 1..Len(s) /\ Len(s) \in Nat
    BY LenProperties
  <1>2. \A i \in 1..Len(s) : s[i] \in Query
    BY ElementOfSeq
  <1>3. \A i \in 1..Len(s) : s[i] \in Range(s)
    BY <1>1 DEF Range
  <1>4. Range(s) \subseteq Query
    BY <1>1, <1>2 DEF Range
  <1>5. \A i \in 1..Len(s) : s[i] \in Query /\ s[i] \in Range(s)
    BY <1>2, <1>3
  <1>6. QED
    BY <1>1, <1>4, <1>5

LEMMA Answers ==
    /\ \A q \in Query : /\ Plain(q, "none") \in Answer
                        /\ Plain(q, "refused") \in Answer
                        /\ Plain(q, "failed") \in Answer
    /\ \A q \in Query, n \in Nat : [outcome |-> "answered", to |-> q, from |-> n] \in Answer
  BY DEF Plain, Answer

-------------------------------------------------------------------------------
(* The steps of the batcher. *)

LEMMA SubmitStep ==
    ASSUME BatchInv, NEW q \in Query, Submit(q)
    PROVE  BatchInv'
  <1>1. queue \in Seq(Query) /\ IsInjective(queue) /\ q \notin Range(queue)
    BY DEF BatchInv, TypeOK, HeldOnce, Submit
  <1>2. /\ queue' \in Seq(Query) /\ Len(queue') = Len(queue) + 1
        /\ IsInjective(queue') /\ Range(queue') = Range(queue) \cup {q}
    BY <1>1, AppendDistinct DEF Submit
  <1>3. /\ UNCHANGED <<batch, worker, results, db>>
        /\ since' = [since EXCEPT ![q] = db]
        /\ client' = [client EXCEPT ![q] = "waiting"]
        /\ answer' = [answer EXCEPT ![q] = Plain(q, "none")]
    BY DEF Submit
  <1>4. TypeOK'
    <2>1. Len(queue') <= QueueDepth
      BY <1>1, <1>2, LenProperties, BatcherAssumption DEF Submit
    <2>2. client' \in [Query -> {"idle", "waiting", "gone"}]
      BY <1>3 DEF BatchInv, TypeOK
    <2>3. since' \in [Query -> Nat]
      BY <1>3 DEF BatchInv, TypeOK
    <2>4. answer' \in [Query -> Answer]
      BY <1>3, Answers DEF BatchInv, TypeOK
    <2>5. QED
      BY <1>2, <1>3, <2>1, <2>2, <2>3, <2>4 DEF BatchInv, TypeOK
  <1>5. HeldOnce'
    <2>1. q \notin Range(batch)
      BY DEF BatchInv, HeldOnce, Submit
    <2>2. \A p \in Query : client'[p] # "idle" <=> p \in Range(queue') \cup Range(batch)
      BY <1>2, <1>3 DEF BatchInv, TypeOK, HeldOnce
    <2>3. QED
      BY <1>2, <1>3, <2>1, <2>2 DEF BatchInv, HeldOnce
  <1>6. ResultsFit'
    <2>1. batch \in Seq(Query) /\ q \notin Range(batch) /\ since \in [Query -> Nat]
      BY DEF BatchInv, TypeOK, HeldOnce, Submit
    <2>2. \A i \in 1..Len(batch) : batch[i] \in Query /\ batch[i] # q
      BY <2>1, JobsOf
    <2>3. \A i \in 1..Len(batch) : since'[batch[i]] = since[batch[i]]
      BY <1>3, <2>1, <2>2
    <2>4. QED
      BY <1>3, <2>3 DEF BatchInv, ResultsFit
  <1>7. \A p \in Query : since'[p] <= db'
    BY <1>3 DEF BatchInv, TypeOK
  <1>8. QED
    BY <1>3, <1>4, <1>5, <1>6, <1>7 DEF BatchInv

(* The first query of the queue moves to the end of the batch.              *)
LEMMA MoveStep ==
    ASSUME BatchInv, queue # <<>>, Len(batch) < MaxBatch,
           queue' = Tail(queue), batch' = Append(batch, Head(queue)),
           worker' \in {"pooling", "closing"},
           UNCHANGED <<results, client, db, since, answer>>
    PROVE  BatchInv'
  <1> DEFINE q == Head(queue)
  <1>1. /\ queue \in Seq(Query) /\ IsInjective(queue) /\ Len(queue) <= QueueDepth
        /\ batch \in Seq(Query) /\ IsInjective(batch)
        /\ Range(queue) \cap Range(batch) = {}
    BY DEF BatchInv, TypeOK, HeldOnce
  <1>2. /\ q \in Query /\ queue' \in Seq(Query) /\ Len(queue') = Len(queue) - 1
        /\ Len(queue) \in Nat \ {0}
        /\ IsInjective(queue') /\ q \notin Range(queue')
        /\ Range(queue) = Range(queue') \cup {q}
    BY <1>1, TailDistinct
  <1> HIDE DEF q
  <1>3. q \notin Range(batch)
    BY <1>1, <1>2
  <1>4. /\ batch' \in Seq(Query) /\ Len(batch') = Len(batch) + 1
        /\ IsInjective(batch') /\ Range(batch') = Range(batch) \cup {q}
    BY <1>1, <1>2, <1>3, AppendDistinct DEF q
  <1>5. TypeOK'
    <2>1. Len(queue') <= QueueDepth
      BY <1>1, <1>2, BatcherAssumption
    <2>2. Len(batch') <= MaxBatch
      BY <1>1, <1>4, LenProperties, BatcherAssumption
    <2>3. QED
      BY <1>2, <1>4, <2>1, <2>2 DEF BatchInv, TypeOK
  <1>6. HeldOnce'
    <2>1. Range(queue') \cup Range(batch') = Range(queue) \cup Range(batch)
      BY <1>2, <1>4
    <2>2. Range(queue') \cap Range(batch') = {}
      BY <1>1, <1>2, <1>4
    <2>3. QED
      BY <1>2, <1>4, <2>1, <2>2 DEF BatchInv, HeldOnce
  <1>7. QED
    BY <1>5, <1>6 DEF BatchInv, ResultsFit

LEMMA ReceiveStep ==
    ASSUME BatchInv, Receive
    PROVE  BatchInv'
  <1>1. batch = <<>> /\ queue # <<>> /\ queue \in Seq(Query)
    BY DEF BatchInv, TypeOK, Receive
  <1>2. Head(queue) \in Query
    BY <1>1, HeadTailProperties
  <1>3. batch' = Append(batch, Head(queue))
    BY <1>1, <1>2 DEF Receive
  <1>4. Len(batch) < MaxBatch
    BY <1>1, SmallSequences, BatcherAssumption
  <1>5. worker' \in {"pooling", "closing"}
    BY DEF Receive
  <1>6. queue' = Tail(queue) /\ UNCHANGED <<results, client, db, since, answer>>
    BY DEF Receive
  <1>7. QED
    BY <1>1, <1>3, <1>4, <1>5, <1>6, MoveStep

LEMMA PassStep ==
    ASSUME BatchInv, Pass
    PROVE  BatchInv'
  <1>1. PICK bad \in SUBSET (1..Len(batch)) :
          results' = [i \in 1..Len(batch) |->
                        IF i \in bad THEN Plain(batch[i], "failed")
                        ELSE [outcome |-> "answered", to |-> batch[i], from |-> db]]
    BY DEF Pass
  <1>2. /\ UNCHANGED <<queue, batch, client, db, since, answer>>
        /\ worker' = "replying"
    BY DEF Pass
  <1>3. batch \in Seq(Query) /\ Len(batch) \in Nat /\ db \in Nat
    BY JobsOf DEF BatchInv, TypeOK
  <1>4. \A i \in 1..Len(batch) : batch[i] \in Query
    BY <1>3, JobsOf
  <1>5. results' \in [1..Len(batch) -> Answer]
    BY <1>1, <1>3, <1>4, Answers
  <1>6. results' \in Seq(Answer) /\ Len(results') = Len(batch)
    BY <1>3, <1>5, SeqDef
  <1>7. TypeOK'
    BY <1>2, <1>6 DEF BatchInv, TypeOK
  <1>8. HeldOnce'
    BY <1>2 DEF BatchInv, HeldOnce
  <1>9. ResultsFit'
    <2>1. \A i \in 1..Len(batch) :
             \/ results'[i] = Plain(batch[i], "failed")
             \/ /\ results'[i] = [outcome |-> "answered", to |-> batch[i], from |-> db]
                /\ since[batch[i]] <= db
      BY <1>1, <1>4 DEF BatchInv
    <2>2. db \in 0..db
      BY <1>3
    <2>3. QED
      BY <1>2, <1>6, <2>1, <2>2 DEF ResultsFit
  <1>10. QED
    BY <1>2, <1>7, <1>8, <1>9 DEF BatchInv

(* Every query of the batch has one place in it, so one result.             *)
LEMMA OwnResult ==
    ASSUME BatchInv, worker = "replying"
    PROVE  \E version \in 0..db : \A q \in Range(batch) :
              /\ results[Place(q)] \in Answer
              /\ \/ results[Place(q)] = Plain(q, "failed")
                 \/ /\ results[Place(q)] = [outcome |-> "answered", to |-> q, from |-> version]
                    /\ since[q] <= version
  <1>1. /\ batch \in Seq(Query) /\ results \in Seq(Answer) /\ Len(results) = Len(batch)
        /\ db \in Nat
    BY DEF BatchInv, TypeOK, ResultsFit
  <1>2. PICK version \in 0..db : \A i \in 1..Len(batch) :
            \/ results[i] = Plain(batch[i], "failed")
            \/ /\ results[i] = [outcome |-> "answered", to |-> batch[i], from |-> version]
               /\ since[batch[i]] <= version
    BY DEF BatchInv, ResultsFit
  <1>3. \A q \in Range(batch) : Place(q) \in 1..Len(batch) /\ batch[Place(q)] = q
    BY <1>1, JobsOf DEF Range, Place
  <1>4. \A i \in 1..Len(batch) : results[i] \in Answer
    BY <1>1, ElementOfSeq
  <1>5. QED
    BY <1>2, <1>3, <1>4

LEMMA ReplyStep ==
    ASSUME BatchInv, Reply
    PROVE  BatchInv'
  <1>1. /\ worker = "replying" /\ worker' = "idle" /\ batch' = <<>> /\ results' = <<>>
        /\ UNCHANGED <<queue, db, since>>
        /\ answer' = [q \in Query |->
                        IF InBatch(q) /\ client[q] = "waiting" THEN results[Place(q)]
                        ELSE answer[q]]
        /\ client' = [q \in Query |-> IF InBatch(q) THEN "idle" ELSE client[q]]
    BY DEF Reply
  <1>2. \A q \in Range(batch) : results[Place(q)] \in Answer
    BY <1>1, OwnResult
  <1>3. answer' \in [Query -> Answer]
    BY <1>1, <1>2 DEF BatchInv, TypeOK, InBatch
  <1>4. client' \in [Query -> {"idle", "waiting", "gone"}]
    BY <1>1 DEF BatchInv, TypeOK
  <1>5. Len(batch') <= MaxBatch
    BY <1>1, SmallSequences, BatcherAssumption
  <1>6. TypeOK'
    BY <1>1, <1>3, <1>4, <1>5, SmallSequences DEF BatchInv, TypeOK
  <1>7. HeldOnce'
    <2>1. /\ IsInjective(queue) /\ Range(queue) \cap Range(batch) = {}
          /\ \A q \in Query : client[q] # "idle" <=> q \in Range(queue) \cup Range(batch)
      BY DEF BatchInv, HeldOnce
    <2>2. IsInjective(batch') /\ Range(batch') = {}
      BY <1>1, SmallSequences
    <2>3. \A q \in Query : client'[q] # "idle" <=> q \in Range(queue)
      BY <1>1, <2>1 DEF InBatch
    <2>4. QED
      BY <1>1, <2>1, <2>2, <2>3 DEF HeldOnce
  <1>8. QED
    BY <1>1, <1>6, <1>7 DEF BatchInv, ResultsFit

LEMMA BatchStep ==
    ASSUME BatchInv, [Next]_vars
    PROVE  BatchInv'
  <1>1. CASE Receive
    BY <1>1, ReceiveStep
  <1>2. CASE Take
    <2>1. worker' \in {"pooling", "closing"}
      BY <1>2 DEF Take, Collecting
    <2>2. QED
      BY <1>2, <2>1, MoveStep DEF Take
  <1>3. CASE WindowEnds \/ Dispatch
    BY <1>3 DEF WindowEnds, Dispatch, Collecting, BatchInv, TypeOK, HeldOnce, ResultsFit
  <1>4. CASE Pass
    BY <1>4, PassStep
  <1>5. CASE Reply
    BY <1>5, ReplyStep
  <1>6. ASSUME NEW q \in Query, Submit(q)
        PROVE  BatchInv'
    BY <1>6, SubmitStep
  <1>7. ASSUME NEW q \in Query, Overloaded(q)
        PROVE  BatchInv'
    <2>1. answer' \in [Query -> Answer]
      BY <1>7, Answers DEF Overloaded, BatchInv, TypeOK
    <2>2. QED
      BY <1>7, <2>1 DEF Overloaded, BatchInv, TypeOK, HeldOnce, ResultsFit
  <1>8. ASSUME NEW q \in Query, Disconnect(q)
        PROVE  BatchInv'
    <2>1. /\ client' = [client EXCEPT ![q] = "gone"] /\ client[q] = "waiting"
          /\ UNCHANGED <<queue, batch, worker, results, db, since, answer>>
      BY <1>8 DEF Disconnect
    <2>2. client' \in [Query -> {"idle", "waiting", "gone"}]
      BY <2>1 DEF BatchInv, TypeOK
    <2>3. \A p \in Query : client'[p] # "idle" <=> client[p] # "idle"
      BY <2>1 DEF BatchInv, TypeOK
    <2>4. QED
      BY <2>1, <2>2, <2>3 DEF BatchInv, TypeOK, HeldOnce, ResultsFit
  <1>9. CASE Publish
    <2>1. /\ db \in Nat /\ db' = db + 1 /\ since \in [Query -> Nat]
          /\ UNCHANGED <<queue, batch, worker, results, client, since, answer>>
      BY <1>9 DEF Publish, BatchInv, TypeOK
    <2>2. TypeOK' /\ HeldOnce'
      BY <2>1 DEF BatchInv, TypeOK, HeldOnce
    <2>3. \A p \in Query : since'[p] <= db'
      BY <2>1 DEF BatchInv
    <2>4. \A version \in 0..db : version \in 0..db'
      BY <2>1
    <2>5. ResultsFit'
      BY <2>1, <2>4 DEF BatchInv, ResultsFit
    <2>6. QED
      BY <2>1, <2>2, <2>3, <2>5 DEF BatchInv
  <1>10. CASE UNCHANGED vars
    BY <1>10 DEF vars, BatchInv, TypeOK, HeldOnce, ResultsFit
  <1>11. QED
    BY <1>1, <1>2, <1>3, <1>4, <1>5, <1>6, <1>7, <1>8, <1>9, <1>10 DEF Next, Worker, Clients

LEMMA BatchInit == Init => BatchInv
  <1> SUFFICES ASSUME Init PROVE BatchInv
    OBVIOUS
  <1>1. TypeOK
    <2>1. Len(queue) <= QueueDepth /\ Len(batch) <= MaxBatch
      BY SmallSequences, BatcherAssumption DEF Init
    <2>2. answer \in [Query -> Answer]
      BY Answers DEF Init
    <2>3. QED
      BY <2>1, <2>2, SmallSequences DEF Init, TypeOK
  <1>2. HeldOnce
    BY SmallSequences DEF Init, HeldOnce
  <1>3. QED
    BY <1>1, <1>2 DEF Init, BatchInv, ResultsFit

LEMMA BatchInvariant == Spec => []BatchInv
  <1>1. BatchInv /\ [Next]_vars => BatchInv'
    BY BatchStep
  <1>2. QED
    BY BatchInit, <1>1, PTL DEF Spec

(* Queue and batch stay within their bounds, whoever comes and goes.        *)
THEOREM BatcherTypeOK == Spec => []TypeOK
  <1>1. BatchInv => TypeOK
    BY DEF BatchInv
  <1>2. QED
    BY BatchInvariant, <1>1, PTL

(* No job is lost or held twice.                                            *)
THEOREM BatcherHeldOnce == Spec => []HeldOnce
  <1>1. BatchInv => HeldOnce
    BY DEF BatchInv
  <1>2. QED
    BY BatchInvariant, <1>1, PTL

-------------------------------------------------------------------------------
(* What each step is to QueryService. *)

Asked == {q \in Query : client[q] = "waiting"}

LEMMA SubmitAccepts ==
    ASSUME BatchInv, NEW q \in Query, Submit(q)
    PROVE  Service!Accept(q)
  <1>1. client \in [Query -> {"idle", "waiting", "gone"}] /\ client[q] = "idle"
    BY DEF BatchInv, TypeOK, Submit
  <1>2. client' = [client EXCEPT ![q] = "waiting"]
    BY DEF Submit
  <1>3. Asked' = Asked \cup {q} /\ q \notin Asked
    BY <1>1, <1>2 DEF Asked
  <1>4. since' = [since EXCEPT ![q] = db] /\ db' = db
        /\ answer' = [answer EXCEPT ![q] = Service!Plain(q, "none")]
    BY DEF Submit, Plain, Service!Plain
  <1>5. QED
    BY <1>3, <1>4 DEF Service!Accept, Asked

LEMMA OverloadedRefuses ==
    ASSUME NEW q \in Query, Overloaded(q)
    PROVE  Service!Refuse(q)
  BY DEF Overloaded, Plain, Service!Refuse, Service!Plain

LEMMA DisconnectLeaves ==
    ASSUME BatchInv, NEW q \in Query, Disconnect(q)
    PROVE  Service!Leave(q)
  <1>1. client \in [Query -> {"idle", "waiting", "gone"}] /\ client[q] = "waiting"
    BY DEF BatchInv, TypeOK, Disconnect
  <1>2. client' = [client EXCEPT ![q] = "gone"] /\ UNCHANGED <<since, db, answer>>
    BY DEF Disconnect
  <1>3. Asked' = Asked \ {q} /\ q \in Asked
    BY <1>1, <1>2 DEF Asked
  <1>4. QED
    BY <1>2, <1>3 DEF Service!Leave, Asked

(* Those still waiting in the batch are answered, and nobody else is.       *)
LEMMA ReplyAnswersAll ==
    ASSUME BatchInv, Reply
    PROVE  Service!AnswerAll({q \in Asked : InBatch(q)})
  <1> DEFINE qs == {q \in Asked : InBatch(q)}
  <1>1. /\ worker = "replying" /\ UNCHANGED <<since, db>>
        /\ answer' = [q \in Query |->
                        IF InBatch(q) /\ client[q] = "waiting" THEN results[Place(q)]
                        ELSE answer[q]]
        /\ client' = [q \in Query |-> IF InBatch(q) THEN "idle" ELSE client[q]]
    BY DEF Reply
  <1>2. PICK version \in 0..db : \A q \in Range(batch) :
            /\ results[Place(q)] \in Answer
            /\ \/ results[Place(q)] = Plain(q, "failed")
               \/ /\ results[Place(q)] = [outcome |-> "answered", to |-> q, from |-> version]
                  /\ since[q] <= version
    BY <1>1, OwnResult
  <1>3. \A q \in qs : q \in Query /\ InBatch(q) /\ client[q] = "waiting"
    BY DEF Asked
  <1>4. \A q \in Query \ qs : answer'[q] = answer[q]
    BY <1>1 DEF Asked
  <1>5. \A q \in qs : answer'[q] = results[Place(q)]
    BY <1>1, <1>3
  <1>6. \A q \in qs :
           \/ answer'[q] = Service!Plain(q, "failed")
           \/ /\ answer'[q] = [outcome |-> "answered", to |-> q, from |-> version]
              /\ since[q] <= version
    BY <1>2, <1>3, <1>5 DEF InBatch, Plain, Service!Plain
  <1>7. answer' \in [Query -> Service!Answer]
    BY BatchStep DEF Next, Worker, BatchInv, TypeOK, Answer, Service!Answer, Service!Outcome
  <1>8. Asked' = Asked \ qs
    BY <1>1 DEF Asked
  <1>9. qs \subseteq Asked
    OBVIOUS
  <1> HIDE DEF qs
  <1>10. Service!AnswerAll(qs)
    BY <1>1, <1>2, <1>4, <1>6, <1>7, <1>8, <1>9 DEF Service!AnswerAll, Asked
  <1>11. QED
    BY <1>10 DEF qs

LEMMA ServiceStep ==
    ASSUME BatchInv, [Next]_vars
    PROVE  [Service!Next]_(Service!serviceVars)
  <1>1. CASE \E q \in Query : Submit(q) \/ Overloaded(q) \/ Disconnect(q)
    BY <1>1, SubmitAccepts, OverloadedRefuses, DisconnectLeaves DEF Service!Next
  <1>2. CASE Reply
    <2> DEFINE qs == {q \in Asked : InBatch(q)}
    <2>1. Service!AnswerAll(qs)
      BY <1>2, ReplyAnswersAll
    <2>2. qs \in SUBSET Query
      BY DEF Asked
    <2> HIDE DEF qs
    <2>3. \E some \in SUBSET Query : Service!AnswerAll(some)
      BY <2>1, <2>2 DEF Service!AnswerAll
    <2>4. QED
      BY <2>3 DEF Service!Next
  <1>3. CASE Publish
    BY <1>3 DEF Publish, Service!Next, Service!Publish
  <1>4. CASE Receive \/ Take \/ WindowEnds \/ Dispatch \/ Pass \/ UNCHANGED vars
    BY <1>4 DEF Receive, Take, WindowEnds, Dispatch, Pass, vars, Service!serviceVars
  <1>5. QED
    BY <1>1, <1>2, <1>3, <1>4 DEF Next, Worker, Clients

(* The batcher is a QueryService: each client that still waits is answered  *)
(* once, with its own answer, all of a batch from one database that was     *)
(* served between its arrival and its answer.                               *)
THEOREM BatcherImplements == Spec => ImplementsQueryService
  <1>1. Init => Service!Init
    BY DEF Init, Plain, Service!Init, Service!Plain
  <1>2. BatchInv /\ [Next]_vars => BatchInv'
    BY BatchStep
  <1>3. BatchInv /\ [Next]_vars => [Service!Next]_(Service!serviceVars)
    BY ServiceStep
  <1>4. QED
    BY BatchInit, <1>1, <1>2, <1>3, PTL DEF Spec, ImplementsQueryService, Service!Spec
===============================================================================
