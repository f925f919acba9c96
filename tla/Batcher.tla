-------------------------------- MODULE Batcher --------------------------------
(***************************************************************************)
(* The query batcher (src/http/batch.rs): a bounded queue of queries and a  *)
(* worker that pools those arriving close together, has them answered in    *)
(* one database pass and hands each client its answer.                      *)
(*                                                                         *)
(* A client that disconnects drops its end of the reply channel; its job    *)
(* stays in the queue or the batch and is answered to nobody.  The worker:  *)
(*   idle      awaiting the first query of a batch                          *)
(*   pooling   collecting, with the window still open                       *)
(*   closing   collecting, with the window over                             *)
(*   passing   the batch is in the blocking database pass                   *)
(*   replying  sending the answers                                          *)
(***************************************************************************)
EXTENDS Naturals, Sequences, FiniteSets, Functions

CONSTANTS Query,
          QueueDepth,     \* cfg.queue_depth
          MaxBatch,       \* cfg.max
          MaxPublishes    \* bound: databases that replace the first one

ASSUME BatcherAssumption ==
    /\ QueueDepth \in Nat \ {0} /\ MaxBatch \in Nat \ {0}
    /\ MaxPublishes \in Nat

VARIABLES queue, batch, worker,
          results,  \* what the pass returned, position by position
          client,   \* per query: no job, awaiting its answer, or gone with a job left behind
          db,       \* the number of the served database
          since,    \* history: the database served when the query was submitted
          answer    \* the last answer a client got

vars == <<queue, batch, worker, results, client, db, since, answer>>

Plain(q, outcome) == [outcome |-> outcome, to |-> q, from |-> 0]
Answer == [outcome : {"none", "refused", "failed", "answered"}, to : Query, from : Nat]

(* The bounds on what the server holds are part of the type. *)
TypeOK ==
    /\ queue \in Seq(Query) /\ Len(queue) <= QueueDepth
    /\ batch \in Seq(Query) /\ Len(batch) <= MaxBatch
    /\ worker \in {"idle", "pooling", "closing", "passing", "replying"}
    /\ results \in Seq(Answer)
    /\ client \in [Query -> {"idle", "waiting", "gone"}]
    /\ db \in Nat /\ since \in [Query -> Nat]
    /\ answer \in [Query -> Answer]

Init ==
    /\ queue = <<>> /\ batch = <<>> /\ results = <<>>
    /\ worker = "idle"
    /\ client = [q \in Query |-> "idle"]
    /\ db = 0 /\ since = [q \in Query |-> 0]
    /\ answer = [q \in Query |-> Plain(q, "none")]

-------------------------------------------------------------------------------
(* Batcher::submit, one per query under way.                                *)
Submit(q) ==
    /\ client[q] = "idle" /\ Len(queue) < QueueDepth
    /\ queue' = Append(queue, q)
    /\ client' = [client EXCEPT ![q] = "waiting"]
    /\ since' = [since EXCEPT ![q] = db]
    /\ answer' = [answer EXCEPT ![q] = Plain(q, "none")]
    /\ UNCHANGED <<batch, worker, results, db>>

(* try_send finds the channel full: 503 at once.                            *)
Overloaded(q) ==
    /\ client[q] = "idle" /\ Len(queue) >= QueueDepth
    /\ answer' = [answer EXCEPT ![q] = Plain(q, "refused")]
    /\ UNCHANGED <<queue, batch, worker, results, client, db, since>>

Disconnect(q) ==
    /\ client[q] = "waiting"
    /\ client' = [client EXCEPT ![q] = "gone"]
    /\ UNCHANGED <<queue, batch, worker, results, db, since, answer>>

-------------------------------------------------------------------------------
(* worker and collect.  A window of zero is over as soon as it opens, and   *)
(* so may be any other: the thread can be slow.                             *)
Receive ==
    /\ worker = "idle" /\ queue # <<>>
    /\ batch' = <<Head(queue)>>
    /\ queue' = Tail(queue)
    /\ worker' \in {"pooling", "closing"}
    /\ UNCHANGED <<results, client, db, since, answer>>

Collecting == worker \in {"pooling", "closing"}

(* Mutants of Take: no limit on a batch; a query that arrives as the window *)
(* closes is lost.                                                          *)
TakeAny ==
    /\ Collecting /\ queue # <<>>
    /\ batch' = Append(batch, Head(queue)) /\ queue' = Tail(queue)
    /\ UNCHANGED <<worker, results, client, db, since, answer>>
TakeLosesLate ==
    /\ Collecting /\ Len(batch) < MaxBatch /\ queue # <<>>
    /\ batch' = IF worker = "closing" THEN batch ELSE Append(batch, Head(queue))
    /\ queue' = Tail(queue)
    /\ UNCHANGED <<worker, results, client, db, since, answer>>

(* What is queued is taken whether or not the window is over: try_recv      *)
(* comes first, and a timeout polls the channel before the clock.           *)
Take ==
    /\ Collecting /\ Len(batch) < MaxBatch /\ queue # <<>>
    /\ batch' = Append(batch, Head(queue)) /\ queue' = Tail(queue)
    /\ UNCHANGED <<worker, results, client, db, since, answer>>

WindowEnds ==
    /\ worker = "pooling"
    /\ worker' = "closing"
    /\ UNCHANGED <<queue, batch, results, client, db, since, answer>>

(* Mutant: a batch leaves only when it is full. *)
DispatchFull ==
    /\ Collecting /\ Len(batch) = MaxBatch
    /\ worker' = "passing"
    /\ UNCHANGED <<queue, batch, results, client, db, since, answer>>

Dispatch ==
    /\ \/ Collecting /\ Len(batch) = MaxBatch
       \/ worker = "closing" /\ queue = <<>>
    /\ worker' = "passing"
    /\ UNCHANGED <<queue, batch, results, client, db, since, answer>>

(* try_respond_batch_bytes: under the server's mutex, so from one database. *)
(* A query that cannot be answered fails on its own; when the pass itself   *)
(* fails or panics, all of them do.                                         *)
Pass ==
    /\ worker = "passing"
    /\ \E bad \in SUBSET (1..Len(batch)) :
          results' = [i \in 1..Len(batch) |->
                        IF i \in bad THEN Plain(batch[i], "failed")
                        ELSE [outcome |-> "answered", to |-> batch[i], from |-> db]]
    /\ worker' = "replying"
    /\ UNCHANGED <<queue, batch, client, db, since, answer>>

InBatch(q) == q \in Range(batch)
Place(q) == CHOOSE i \in 1..Len(batch) : batch[i] = q

(* Mutant: reply channels that are closed are dropped before the answers    *)
(* are paired with them.                                                    *)
ReplyShifted ==
    /\ worker = "replying"
    /\ LET open == SelectSeq(batch, LAMBDA q : client[q] = "waiting")
       IN  answer' = [q \in Query |->
                        IF q \in Range(open)
                          THEN results[CHOOSE i \in 1..Len(open) : open[i] = q]
                          ELSE answer[q]]
    /\ client' = [q \in Query |-> IF InBatch(q) THEN "idle" ELSE client[q]]
    /\ worker' = "idle" /\ batch' = <<>> /\ results' = <<>>
    /\ UNCHANGED <<queue, db, since>>

(* answer: replies and results side by side; a reply to a client that has   *)
(* gone is not an error.                                                    *)
Reply ==
    /\ worker = "replying"
    /\ answer' = [q \in Query |->
                    IF InBatch(q) /\ client[q] = "waiting" THEN results[Place(q)] ELSE answer[q]]
    /\ client' = [q \in Query |-> IF InBatch(q) THEN "idle" ELSE client[q]]
    /\ worker' = "idle" /\ batch' = <<>> /\ results' = <<>>
    /\ UNCHANGED <<queue, db, since>>

(* The PIR thread installs another database.                                *)
Publish ==
    /\ db < MaxPublishes
    /\ db' = db + 1
    /\ UNCHANGED <<queue, batch, worker, results, client, since, answer>>

-------------------------------------------------------------------------------
Worker == Receive \/ Take \/ WindowEnds \/ Dispatch \/ Pass \/ Reply
Clients == \E q \in Query : Submit(q) \/ Overloaded(q) \/ Disconnect(q)
Next == Worker \/ Clients \/ Publish

Spec == Init /\ [][Next]_vars

(* The runtime keeps polling the worker, and a database pass ends.          *)
FairSpec == Spec /\ WF_vars(Worker)

-------------------------------------------------------------------------------
(* Properties.                                                              *)

(* A job is in the queue or in the batch, once, from its submission to its  *)
(* answer: none is lost when the window closes, none is answered twice.     *)
HeldOnce ==
    /\ IsInjective(queue) /\ IsInjective(batch)
    /\ Range(queue) \cap Range(batch) = {}
    /\ \A q \in Query : client[q] # "idle" <=> q \in Range(queue) \cup Range(batch)

(* Whoever waits gets an answer, whatever else arrives.                     *)
EveryQueryAnswered == \A q \in Query : client[q] = "waiting" ~> client[q] # "waiting"

(* The batcher is a QueryService: those waiting have been taken on.         *)
Service == INSTANCE QueryService WITH
               asked <- {q \in Query : client[q] = "waiting"}
ImplementsQueryService == Service!Spec
===============================================================================
