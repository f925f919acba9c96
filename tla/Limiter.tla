-------------------------------- MODULE Limiter -------------------------------
(***************************************************************************)
(* The per-client token bucket in front of the query endpoint               *)
(* (src/http/limit.rs, called by the handler in src/http/mod.rs).           *)
(*                                                                         *)
(* Handlers run on the worker threads of the runtime.  Each one reads the   *)
(* clock first and takes the lock on the table afterwards, so two checks of *)
(* one client may reach the bucket in the opposite order of their stamps.   *)
(*                                                                         *)
(* A tick is the time in which a bucket gains one unit; a query costs Cost  *)
(* units, so Cost is 60 s / per_minute and a full bucket holds Burst * Cost.*)
(*                                                                         *)
(* The window is an observer: it may be opened at any moment, and from then *)
(* on counts what each client is admitted.                                  *)
(***************************************************************************)
EXTENDS Integers, FiniteSets

CONSTANTS Client,      \* peer addresses
          Worker,      \* threads a handler may run on
          Untracked,   \* the client has no bucket
          Idle,        \* the worker handles no query
          Cost,        \* ticks it takes to earn one query
          Burst,       \* limit.burst.max(1)
          IdleEvict,   \* IDLE_EVICT, in ticks
          MaxTracked,  \* MAX_TRACKED
          MaxTime      \* bound: the last tick

Full == Burst * Cost

ASSUME LimiterAssumption ==
    /\ IsFiniteSet(Client)
    /\ {Cost, Burst, IdleEvict, MaxTracked} \subseteq Nat \ {0}
    /\ MaxTime \in Nat

Bucket == [tokens : 0..Full, last : Nat]
Call == [client : Client, stamp : Nat]

ASSUME AbsenceAssumption == Untracked \notin Bucket /\ Idle \notin Call

VARIABLES now,       \* the clock
          clients,   \* RateLimiter.clients
          call,      \* what each worker is about to check
          opened,    \* when the window was opened
          admitted,  \* queries let through in the window
          skew,      \* time by which checks went back behind the horizon
          horizon,   \* the moment up to which a client's refill is accounted for
          forgiven,  \* units that evictions in the window may have given away
          promise    \* earliest moment a refusal promised a token, 0 if none

observer == <<opened, admitted, skew, horizon, forgiven, promise>>
vars == <<now, clients, call, observer>>

Tracked(table) == {c \in Client : table[c] # Untracked}

TypeOK ==
    /\ now \in Nat
    /\ clients \in [Client -> Bucket \union {Untracked}]
    /\ Cardinality(Tracked(clients)) <= MaxTracked
    /\ call \in [Worker -> Call \union {Idle}]
    /\ opened \in Nat
    /\ admitted \in [Client -> Nat]
    /\ skew \in [Client -> Nat]
    /\ horizon \in [Client -> Nat] /\ forgiven \in [Client -> Nat]
    /\ promise \in [Client -> Nat]

-------------------------------------------------------------------------------
Smaller(m, n) == IF m <= n THEN m ELSE n
Larger(m, n) == IF m >= n THEN m ELSE n
Since(later, earlier) == IF later >= earlier THEN later - earlier ELSE 0

HasRoom(table, c) == c \in Tracked(table) \/ Cardinality(Tracked(table)) < MaxTracked

(* Mutant: any client that spent nothing at this very moment is dropped.    *)
RetainedTooFew(c, stamp) ==
    IF HasRoom(clients, c) THEN clients
    ELSE [d \in Client |->
            IF clients[d] # Untracked /\ Since(stamp, clients[d].last) < 1
              THEN clients[d] ELSE Untracked]

(* make_room: a newcomer to a full table first drops the idle clients.      *)
Retained(c, stamp) ==
    IF HasRoom(clients, c) THEN clients
    ELSE [d \in Client |->
            IF clients[d] # Untracked /\ Since(stamp, clients[d].last) < IdleEvict
              THEN clients[d] ELSE Untracked]

(* The bucket after refill; uncapped in the mutant.                         *)
RefilledUncapped(table, c, stamp) ==
    IF table[c] = Untracked THEN Full
    ELSE table[c].tokens + Since(stamp, table[c].last)
Refilled(table, c, stamp) ==
    IF table[c] = Untracked THEN Full
    ELSE Smaller(table[c].tokens + Since(stamp, table[c].last), Full)

-------------------------------------------------------------------------------
Init ==
    /\ now = 0
    /\ clients = [c \in Client |-> Untracked]
    /\ call = [w \in Worker |-> Idle]
    /\ opened = 0
    /\ admitted = [c \in Client |-> 0] /\ skew = [c \in Client |-> 0]
    /\ horizon = [c \in Client |-> 0] /\ forgiven = [c \in Client |-> 0]
    /\ promise = [c \in Client |-> 0]

Tick == now < MaxTime /\ now' = now + 1 /\ UNCHANGED <<clients, call, observer>>

(* The handler has a body to answer and reads the clock.                    *)
Arrive(w, c) ==
    /\ call[w] = Idle
    /\ call' = [call EXCEPT ![w] = [client |-> c, stamp |-> now]]
    /\ UNCHANGED <<now, clients, observer>>

(* An evicted client comes back to a full bucket.  That costs nothing if a  *)
(* bucket refills in the time it takes to be evicted, as it does with the   *)
(* defaults (10 queries at 60 a minute); --rate-limit and --rate-burst are  *)
(* free, and otherwise a client is given up to this many units.             *)
Shortfall == Since(Full, IdleEvict)

(* What the observer makes of a check that found room.                      *)
Account(c, stamp, passes, evicted) ==
    /\ admitted' = [admitted EXCEPT ![c] = IF passes THEN @ + 1 ELSE @]
    /\ skew' = [skew EXCEPT ![c] = @ + Since(horizon[c], stamp)]
    /\ horizon' = [d \in Client |->
                     IF d = c THEN stamp
                     ELSE IF d \in evicted THEN Larger(horizon[d], stamp) ELSE horizon[d]]
    /\ forgiven' = [d \in Client |->
                     IF d \in evicted THEN forgiven[d] + Shortfall ELSE forgiven[d]]

(* RateLimiter::check_at under the lock: a newcomer the full table has no   *)
(* room for is turned away; anyone else is refilled and, with a token left, *)
(* let through.                                                             *)
TurnedAway(w) ==
    /\ call[w] # Idle
    /\ LET c == call[w].client
           kept == Retained(c, call[w].stamp)
       IN  ~HasRoom(kept, c) /\ clients' = kept
    /\ call' = [call EXCEPT ![w] = Idle]
    /\ UNCHANGED <<now, observer>>

Admitted(w) ==
    /\ call[w] # Idle
    /\ LET c == call[w].client
           stamp == call[w].stamp
           kept == Retained(c, stamp)
           tokens == Refilled(kept, c, stamp)
       IN  /\ HasRoom(kept, c) /\ tokens >= Cost
           /\ clients' = [kept EXCEPT ![c] = [tokens |-> tokens - Cost, last |-> stamp]]
           /\ Account(c, stamp, TRUE, Tracked(clients) \ Tracked(kept))
           /\ promise' = [promise EXCEPT ![c] = 0]
    /\ call' = [call EXCEPT ![w] = Idle]
    /\ UNCHANGED <<now, opened>>

(* The wait that is reported is what is missing, at the rate of the bucket. *)
Promised(c, stamp, tokens) ==
    LET due == stamp + Cost - tokens
    IN  IF promise[c] = 0 THEN due ELSE Smaller(promise[c], due)

(* Mutant: a refused check restarts the wait, whatever was earned before.   *)
RefusedLosingRefill(w) ==
    /\ call[w] # Idle
    /\ LET c == call[w].client
           stamp == call[w].stamp
           kept == Retained(c, stamp)
           tokens == Refilled(kept, c, stamp)
       IN  /\ HasRoom(kept, c) /\ tokens < Cost
           /\ clients' = [kept EXCEPT ![c].last = stamp]
           /\ Account(c, stamp, FALSE, Tracked(clients) \ Tracked(kept))
           /\ promise' = [promise EXCEPT ![c] = Promised(c, stamp, tokens)]
    /\ call' = [call EXCEPT ![w] = Idle]
    /\ UNCHANGED <<now, opened>>

Refused(w) ==
    /\ call[w] # Idle
    /\ LET c == call[w].client
           stamp == call[w].stamp
           kept == Retained(c, stamp)
           tokens == Refilled(kept, c, stamp)
       IN  /\ HasRoom(kept, c) /\ tokens < Cost
           /\ clients' = [kept EXCEPT ![c] = [tokens |-> tokens, last |-> stamp]]
           /\ Account(c, stamp, FALSE, Tracked(clients) \ Tracked(kept))
           /\ promise' = [promise EXCEPT ![c] = Promised(c, stamp, tokens)]
    /\ call' = [call EXCEPT ![w] = Idle]
    /\ UNCHANGED <<now, opened>>

OpenWindow ==
    /\ opened' = now
    /\ admitted' = [c \in Client |-> 0] /\ skew' = [c \in Client |-> 0]
    /\ horizon' = [c \in Client |-> now] /\ forgiven' = [c \in Client |-> 0]
    /\ UNCHANGED <<now, clients, call, promise>>

-------------------------------------------------------------------------------
Next ==
    \/ Tick \/ OpenWindow
    \/ \E w \in Worker :
          \/ \E c \in Client : Arrive(w, c)
          \/ TurnedAway(w) \/ Admitted(w) \/ Refused(w)

Spec == Init /\ [][Next]_vars

-------------------------------------------------------------------------------
(* Properties.                                                              *)

(* In a window opened at any moment a client is let through a burst and     *)
(* what the rate earns over the length of the window, with any number of    *)
(* its queries in flight.  Checks that reached the bucket out of order add  *)
(* the time by which they went back, and no more; and each time the client  *)
(* is evicted adds what a burst takes longer to earn than an eviction: none *)
(* where IDLE_EVICT is long enough, which the code does not check.          *)
WithinRate ==
    \A c \in Client :
        admitted[c] * Cost <= Full + (now - opened) + skew[c] + forgiven[c]

(* A client that waited as long as a refusal told it to is not refused      *)
(* again for the rate: no later check takes back what was promised.         *)
WaitIsEnough ==
    \A w \in Worker : call[w] # Idle =>
        LET c == call[w].client
            stamp == call[w].stamp
            kept == Retained(c, stamp)
        IN  /\ HasRoom(kept, c)
            /\ promise[c] # 0 /\ stamp >= promise[c]
            => Refilled(kept, c, stamp) >= Cost
===============================================================================
