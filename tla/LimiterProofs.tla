----------------------------- MODULE LimiterProofs -----------------------------
(***************************************************************************)
(* The rate limiter keeps to its rate and to the waits it promises, for     *)
(* every number of clients and threads, rate, burst and table size.         *)
(***************************************************************************)
EXTENDS Limiter, FiniteSetTheorems, TLAPS

(* Nothing is stamped ahead of the clock.                                   *)
StampsPast ==
    /\ opened <= now
    /\ \A w \in Worker : call[w] # Idle => call[w].stamp <= now
    /\ \A c \in Client :
          horizon[c] <= now /\ (clients[c] # Untracked => clients[c].last <= now)

(* A client's refill is accounted for up to its horizon h: what it was let  *)
(* through and still has is a burst and what it earned until then.  One     *)
(* that was forgotten gets a whole burst back, earned or forgiven.          *)
AccountedFor(entry, n, h, k) ==
    IF n = 0 THEN opened <= h + k
    ELSE IF entry = Untracked THEN n * Cost + opened <= h + k
    ELSE h = entry.last /\ n * Cost + entry.tokens + opened <= Full + h + k
Accounted(c) ==
    AccountedFor(clients[c], admitted[c], horizon[c], skew[c] + forgiven[c])

(* The earliest wait promised is still enough.                              *)
PromiseStands(c) ==
    promise[c] # 0 /\ clients[c] # Untracked =>
        clients[c].last + Cost <= promise[c] + clients[c].tokens

LimiterInv ==
    /\ TypeOK /\ StampsPast
    /\ \A c \in Client : Accounted(c) /\ PromiseStands(c)

-------------------------------------------------------------------------------
(* Arithmetic. *)

(* A bucket holds at least one query.                                       *)
LEMMA FullType == Full \in Nat /\ Cost \in Nat /\ Cost >= 1 /\ Full >= Cost
  <1>1. Burst \in Nat /\ Burst >= 1 /\ Cost \in Nat /\ Cost >= 1
    BY LimiterAssumption
  <1>2. Burst * Cost >= 1 * Cost
    BY <1>1
  <1>3. QED
    BY <1>1, <1>2 DEF Full

(* What one query more costs.                                               *)
LEMMA OneMore ==
    ASSUME NEW n \in Nat
    PROVE  /\ n * Cost \in Nat /\ (n + 1) * Cost = n * Cost + Cost
           /\ n = 0 => n * Cost = 0
  BY FullType

(* The time between two stamps; one of the two directions is zero.          *)
LEMMA SinceType ==
    ASSUME NEW m \in Nat, NEW n \in Nat
    PROVE  /\ Since(m, n) \in Nat
           /\ n + Since(m, n) = m + Since(n, m)
           /\ Since(m, n) > 0 => m = n + Since(m, n)
  BY DEF Since

(* An eviction and its shortfall cover a burst.                             *)
LEMMA ShortfallType == IdleEvict \in Nat /\ Shortfall \in Nat /\ Full <= IdleEvict + Shortfall
  <1>1. IdleEvict \in Nat /\ Full \in Nat
    BY LimiterAssumption, FullType
  <1>2. QED
    BY <1>1 DEF Shortfall, Since

(* A refill never overfills a bucket and adds no more than the time passed. *)
LEMMA RefilledBound ==
    ASSUME NEW table \in [Client -> Bucket \union {Untracked}],
           NEW c \in Client, NEW stamp \in Nat
    PROVE  /\ Refilled(table, c, stamp) \in 0..Full
           /\ table[c] = Untracked => Refilled(table, c, stamp) = Full
           /\ table[c] # Untracked =>
                 /\ Refilled(table, c, stamp)
                        <= table[c].tokens + Since(stamp, table[c].last)
                 /\ Refilled(table, c, stamp) < Full =>
                        Refilled(table, c, stamp)
                            = table[c].tokens + Since(stamp, table[c].last)
  <1>1. CASE table[c] = Untracked
    BY <1>1, FullType DEF Refilled
  <1>2. CASE table[c] # Untracked
    <2>1. table[c].tokens \in 0..Full /\ table[c].last \in Nat
      BY <1>2 DEF Bucket
    <2>2. Since(stamp, table[c].last) \in Nat
      BY <2>1, SinceType
    <2>3. Refilled(table, c, stamp)
            = Smaller(table[c].tokens + Since(stamp, table[c].last), Full)
      BY <1>2 DEF Refilled
    <2>4. QED
      BY <1>2, <2>1, <2>2, <2>3, FullType DEF Smaller
  <1>3. QED
    BY <1>1, <1>2

-------------------------------------------------------------------------------
(* The table. *)

(* make_room keeps buckets as they are; what it drops has been idle for     *)
(* IDLE_EVICT, and is not the caller's.                                     *)
LEMMA RetainedTable ==
    ASSUME TypeOK, NEW c \in Client, NEW stamp \in Nat
    PROVE  LET kept == Retained(c, stamp)
           IN  /\ kept \in [Client -> Bucket \union {Untracked}]
               /\ \A d \in Client : kept[d] \in {clients[d], Untracked}
               /\ kept[c] = clients[c]
               /\ \A d \in Client : kept[d] # clients[d] =>
                     stamp >= clients[d].last + IdleEvict
  <1>1. CASE HasRoom(clients, c)
    BY <1>1 DEF Retained, TypeOK
  <1>2. CASE ~HasRoom(clients, c)
    <2>1. clients[c] = Untracked
      BY <1>2 DEF HasRoom, Tracked
    <2>2. Retained(c, stamp) =
            [d \in Client |->
               IF clients[d] # Untracked /\ Since(stamp, clients[d].last) < IdleEvict
                 THEN clients[d] ELSE Untracked]
      BY <1>2 DEF Retained
    <2>3. ASSUME NEW d \in Client, Retained(c, stamp)[d] # clients[d]
          PROVE  stamp >= clients[d].last + IdleEvict
      <3>1. clients[d] # Untracked /\ ~(Since(stamp, clients[d].last) < IdleEvict)
        BY <2>2, <2>3
      <3>2. clients[d].last \in Nat
        BY <3>1 DEF TypeOK, Bucket
      <3>3. IdleEvict \in Nat /\ IdleEvict >= 1
        BY LimiterAssumption
      <3>4. /\ Since(stamp, clients[d].last) \in Nat
            /\ Since(stamp, clients[d].last) > 0
                  => stamp = clients[d].last + Since(stamp, clients[d].last)
        BY <3>2, SinceType
      <3>5. QED
        BY <3>1, <3>2, <3>3, <3>4
    <2>4. QED
      BY <2>1, <2>2, <2>3 DEF TypeOK
  <1>3. QED
    BY <1>1, <1>2

(* Whoever is dropped leaves fewer clients than before.                     *)
LEMMA RetainedSize ==
    ASSUME TypeOK, NEW c \in Client, NEW stamp \in Nat
    PROVE  /\ IsFiniteSet(Tracked(Retained(c, stamp)))
           /\ Cardinality(Tracked(Retained(c, stamp))) \in Nat
           /\ Cardinality(Tracked(Retained(c, stamp))) <= MaxTracked
           /\ Cardinality(Tracked(Retained(c, stamp))) >= MaxTracked
                 => Tracked(Retained(c, stamp)) = Tracked(clients)
  <1> DEFINE old == Tracked(clients)
             new == Tracked(Retained(c, stamp))
  <1>1. IsFiniteSet(old)
    <2>1. old \subseteq Client /\ IsFiniteSet(Client)
      BY LimiterAssumption DEF Tracked
    <2>2. QED
      BY <2>1, FS_Subset
  <1>2. new \subseteq old
    BY RetainedTable DEF Tracked
  <1>3. /\ IsFiniteSet(new) /\ Cardinality(new) <= Cardinality(old)
        /\ Cardinality(old) = Cardinality(new) => old = new
    BY <1>1, <1>2, FS_Subset
  <1>4. Cardinality(old) \in Nat /\ Cardinality(new) \in Nat
    BY <1>1, <1>3, FS_CardinalityType
  <1>5. Cardinality(old) <= MaxTracked /\ MaxTracked \in Nat
    BY LimiterAssumption DEF TypeOK
  <1> HIDE DEF old, new
  <1>6. /\ IsFiniteSet(new) /\ Cardinality(new) \in Nat /\ Cardinality(new) <= MaxTracked
        /\ Cardinality(new) >= MaxTracked => new = old
    BY <1>3, <1>4, <1>5
  <1>7. QED
    BY <1>6 DEF old, new

(* A checked client has a bucket afterwards, within the table's limit.      *)
LEMMA CheckedTable ==
    ASSUME TypeOK, NEW c \in Client, NEW stamp \in Nat, NEW b \in Bucket,
           HasRoom(Retained(c, stamp), c)
    PROVE  LET table == [Retained(c, stamp) EXCEPT ![c] = b]
           IN  /\ table \in [Client -> Bucket \union {Untracked}]
               /\ table[c] = b
               /\ \A d \in Client \ {c} : table[d] = Retained(c, stamp)[d]
               /\ Cardinality(Tracked(table)) <= MaxTracked
  <1> DEFINE kept == Retained(c, stamp)
             table == [kept EXCEPT ![c] = b]
  <1>1. kept \in [Client -> Bucket \union {Untracked}]
    BY RetainedTable
  <1>2. /\ IsFiniteSet(Tracked(kept)) /\ Cardinality(Tracked(kept)) \in Nat
        /\ Cardinality(Tracked(kept)) <= MaxTracked
    BY RetainedSize
  <1>3. c \in Tracked(kept) \/ Cardinality(Tracked(kept)) < MaxTracked
    BY DEF HasRoom
  <1>4. b # Untracked
    BY AbsenceAssumption
  <1> HIDE DEF kept
  <1>5. /\ table \in [Client -> Bucket \union {Untracked}] /\ table[c] = b
        /\ \A d \in Client \ {c} : table[d] = kept[d]
    BY <1>1
  <1>6. Tracked(table) = Tracked(kept) \cup {c}
    BY <1>4, <1>5 DEF Tracked
  <1>7. Cardinality(Tracked(kept) \cup {c}) <= MaxTracked
    <2>1. CASE c \in Tracked(kept)
      <3>1. Tracked(kept) \cup {c} = Tracked(kept)
        BY <2>1
      <3>2. QED
        BY <1>2, <3>1
    <2>2. CASE c \notin Tracked(kept)
      <3>1. Cardinality(Tracked(kept) \cup {c}) = Cardinality(Tracked(kept)) + 1
        BY <1>2, <2>2, FS_AddElement
      <3>2. MaxTracked \in Nat
        BY LimiterAssumption
      <3>3. QED
        BY <1>2, <1>3, <2>2, <3>1, <3>2
    <2>3. QED
      BY <2>1, <2>2
  <1>8. QED
    BY <1>5, <1>6, <1>7 DEF kept

-------------------------------------------------------------------------------
(* What a client has been let through. *)

(* Whatever order the stamps come in, what a client has after the refill is *)
(* covered by the time up to the new stamp and what the stamps went back.   *)
LEMMA Earns ==
    ASSUME NEW e \in Bucket \union {Untracked}, NEW n \in Nat, NEW h \in Nat, NEW k \in Nat,
           NEW stamp \in Nat, NEW t \in 0..Full, opened \in Nat,
           AccountedFor(e, n, h, k),
           e # Untracked => t <= e.tokens + Since(stamp, e.last)
    PROVE  /\ n = 0 => opened <= stamp + (k + Since(h, stamp))
           /\ n * Cost + t + opened <= Full + stamp + (k + Since(h, stamp))
  <1>1. Full \in Nat /\ n * Cost \in Nat /\ (n = 0 => n * Cost = 0)
    BY FullType, OneMore
  <1>2. /\ Since(h, stamp) \in Nat /\ Since(stamp, h) \in Nat
        /\ stamp + Since(h, stamp) = h + Since(stamp, h)
    BY SinceType
  <1>3. CASE n = 0
    <2>1. opened <= h + k
      BY <1>3 DEF AccountedFor
    <2>2. QED
      BY <1>1, <1>2, <1>3, <2>1
  <1>4. CASE n # 0 /\ e = Untracked
    <2>1. n * Cost + opened <= h + k
      BY <1>4 DEF AccountedFor
    <2>2. QED
      BY <1>1, <1>2, <1>4, <2>1
  <1>5. CASE n # 0 /\ e # Untracked
    <2>1. h = e.last /\ n * Cost + e.tokens + opened <= Full + h + k
      BY <1>5 DEF AccountedFor
    <2>2. e.tokens \in 0..Full
      BY <1>5 DEF Bucket
    <2>3. t <= e.tokens + Since(stamp, h)
      BY <1>5, <2>1
    <2>4. QED
      BY <1>1, <1>2, <1>5, <2>1, <2>2, <2>3
  <1>6. QED
    BY <1>3, <1>4, <1>5

(* A client that is forgotten has been idle for IDLE_EVICT: what it had been *)
(* let through is paid for by that time and the shortfall it is forgiven.   *)
LEMMA Forgets ==
    ASSUME NEW e \in Bucket, NEW n \in Nat, NEW h \in Nat, NEW k \in Nat,
           NEW stamp \in Nat, opened \in Nat,
           AccountedFor(e, n, h, k), stamp >= e.last + IdleEvict
    PROVE  AccountedFor(Untracked, n, Larger(h, stamp), k + Shortfall)
  <1>1. /\ Full \in Nat /\ n * Cost \in Nat
        /\ IdleEvict \in Nat /\ Shortfall \in Nat /\ Full <= IdleEvict + Shortfall
    BY FullType, OneMore, ShortfallType
  <1>2. e # Untracked /\ e.tokens \in 0..Full /\ e.last \in Nat
    BY AbsenceAssumption DEF Bucket
  <1>3. /\ Larger(h, stamp) \in Nat /\ Larger(h, stamp) >= h
        /\ Larger(h, stamp) >= stamp
    BY DEF Larger
  <1>4. CASE n = 0
    <2>1. opened <= h + k
      BY <1>4 DEF AccountedFor
    <2>2. opened <= Larger(h, stamp) + (k + Shortfall)
      BY <1>1, <1>3, <2>1
    <2>3. QED
      BY <1>4, <2>2 DEF AccountedFor
  <1>5. CASE n # 0
    <2>1. h = e.last /\ n * Cost + e.tokens + opened <= Full + h + k
      BY <1>2, <1>5 DEF AccountedFor
    <2>2. n * Cost + opened <= Larger(h, stamp) + (k + Shortfall)
      BY <1>1, <1>2, <1>3, <2>1
    <2>3. QED
      BY <1>5, <2>2 DEF AccountedFor
  <1>6. QED
    BY <1>4, <1>5

(* A check that found room keeps table and accounts in order, whether the   *)
(* client is let through or not.                                            *)
LEMMA CheckKeeps ==
    ASSUME LimiterInv, NEW c \in Client, NEW stamp \in Nat, stamp <= now,
           NEW passes \in BOOLEAN, NEW left \in 0..Full,
           HasRoom(Retained(c, stamp), c),
           left = Refilled(Retained(c, stamp), c, stamp) - (IF passes THEN Cost ELSE 0),
           clients' = [Retained(c, stamp) EXCEPT ![c] = [tokens |-> left, last |-> stamp]],
           Account(c, stamp, passes, Tracked(clients) \ Tracked(Retained(c, stamp))),
           UNCHANGED <<now, opened>>
    PROVE  /\ clients' \in [Client -> Bucket \union {Untracked}]
           /\ Cardinality(Tracked(clients')) <= MaxTracked
           /\ admitted' \in [Client -> Nat] /\ skew' \in [Client -> Nat]
           /\ horizon' \in [Client -> Nat] /\ forgiven' \in [Client -> Nat]
           /\ clients'[c] = [tokens |-> left, last |-> stamp]
           /\ \A d \in Client \ {c} : clients'[d] \in {clients[d], Untracked}
           /\ \A d \in Client :
                 horizon'[d] <= now /\ (clients'[d] # Untracked => clients'[d].last <= now)
           /\ \A d \in Client : Accounted(d)'
  <1> DEFINE kept == Retained(c, stamp)
             b == [tokens |-> left, last |-> stamp]
             t == Refilled(kept, c, stamp)
  <1>1. /\ now \in Nat /\ opened \in Nat
        /\ clients \in [Client -> Bucket \union {Untracked}]
        /\ admitted \in [Client -> Nat] /\ skew \in [Client -> Nat]
        /\ horizon \in [Client -> Nat] /\ forgiven \in [Client -> Nat] /\ TypeOK
    BY DEF LimiterInv, TypeOK
  <1>2. /\ kept \in [Client -> Bucket \union {Untracked}]
        /\ \A d \in Client : kept[d] \in {clients[d], Untracked}
        /\ kept[c] = clients[c]
        /\ \A d \in Client : kept[d] # clients[d] => stamp >= clients[d].last + IdleEvict
    BY <1>1, RetainedTable
  <1>3. b \in Bucket
    BY DEF Bucket
  <1>4. /\ clients' \in [Client -> Bucket \union {Untracked}]
        /\ clients'[c] = b
        /\ \A d \in Client \ {c} : clients'[d] = kept[d]
        /\ Cardinality(Tracked(clients')) <= MaxTracked
    <2>1. clients' = [kept EXCEPT ![c] = b]
      OBVIOUS
    <2>2. /\ [kept EXCEPT ![c] = b] \in [Client -> Bucket \union {Untracked}]
          /\ [kept EXCEPT ![c] = b][c] = b
          /\ \A d \in Client \ {c} : [kept EXCEPT ![c] = b][d] = kept[d]
          /\ Cardinality(Tracked([kept EXCEPT ![c] = b])) <= MaxTracked
      <3> HIDE DEF b
      <3> QED
        BY <1>1, <1>3, CheckedTable
    <2> HIDE DEF kept, b
    <2> QED
      BY <2>1, <2>2
  <1>5. /\ t \in 0..Full
        /\ clients[c] # Untracked => t <= clients[c].tokens + Since(stamp, clients[c].last)
    BY <1>2, RefilledBound
  <1>6. /\ admitted' = [admitted EXCEPT ![c] = IF passes THEN @ + 1 ELSE @]
        /\ skew' = [skew EXCEPT ![c] = @ + Since(horizon[c], stamp)]
        /\ horizon' = [d \in Client |->
              IF d = c THEN stamp
              ELSE IF d \in Tracked(clients) \ Tracked(kept)
                     THEN Larger(horizon[d], stamp) ELSE horizon[d]]
        /\ forgiven' = [d \in Client |->
              IF d \in Tracked(clients) \ Tracked(kept)
                THEN forgiven[d] + Shortfall ELSE forgiven[d]]
    BY DEF Account
  <1>7. left = t - (IF passes THEN Cost ELSE 0)
    OBVIOUS
  <1>8. /\ StampsPast /\ \A d \in Client : Accounted(d)
        /\ opened' = opened /\ now' = now
    BY DEF LimiterInv
  <1> HIDE DEF kept, b, t
  <1>9. /\ admitted' \in [Client -> Nat] /\ skew' \in [Client -> Nat]
        /\ horizon' \in [Client -> Nat] /\ forgiven' \in [Client -> Nat]
        /\ admitted'[c] = (IF passes THEN admitted[c] + 1 ELSE admitted[c])
        /\ skew'[c] = skew[c] + Since(horizon[c], stamp)
        /\ horizon'[c] = stamp /\ forgiven'[c] = forgiven[c]
        /\ \A d \in Client \ {c} : admitted'[d] = admitted[d] /\ skew'[d] = skew[d]
    <2>1. Since(horizon[c], stamp) \in Nat
      BY <1>1, SinceType
    <2>2. \A d \in Client : Larger(horizon[d], stamp) \in Nat
      BY <1>1 DEF Larger
    <2>3. horizon' \in [Client -> Nat] /\ horizon'[c] = stamp
      BY <1>1, <1>6, <2>2
    <2>4. c \notin Tracked(clients) \ Tracked(kept)
      BY <1>2 DEF Tracked
    <2>5. forgiven' \in [Client -> Nat] /\ forgiven'[c] = forgiven[c]
      BY <1>1, <1>6, <2>4, ShortfallType
    <2>6. QED
      BY <1>1, <1>6, <2>1, <2>3, <2>5
  <1>10. \A d \in Client \ {c} :
            \/ /\ clients'[d] = clients[d] /\ horizon'[d] = horizon[d]
               /\ forgiven'[d] = forgiven[d]
            \/ /\ clients[d] # Untracked /\ clients'[d] = Untracked
               /\ horizon'[d] = Larger(horizon[d], stamp)
               /\ forgiven'[d] = forgiven[d] + Shortfall
               /\ stamp >= clients[d].last + IdleEvict
    <2>1. TAKE d \in Client \ {c}
    <2>2. CASE kept[d] = clients[d]
      <3>1. d \notin Tracked(clients) \ Tracked(kept)
        BY <2>2 DEF Tracked
      <3>2. QED
        BY <1>4, <1>6, <2>2, <3>1
    <2>3. CASE kept[d] # clients[d]
      <3>1. kept[d] = Untracked /\ clients[d] # Untracked
        BY <1>2, <2>3
      <3>2. d \in Tracked(clients) \ Tracked(kept)
        BY <3>1 DEF Tracked
      <3>3. QED
        BY <1>2, <1>4, <1>6, <2>3, <3>1, <3>2
    <2>4. QED
      BY <2>2, <2>3
  <1>11. \A d \in Client \ {c} : clients'[d] \in {clients[d], Untracked}
    BY <1>10
  <1>12. \A d \in Client :
            horizon'[d] <= now /\ (clients'[d] # Untracked => clients'[d].last <= now)
    <2>1. TAKE d \in Client
    <2>2. /\ horizon[d] <= now /\ horizon[d] \in Nat
          /\ clients[d] # Untracked => clients[d].last <= now
      BY <1>1, <1>8 DEF StampsPast
    <2>3. CASE d = c
      BY <1>4, <1>9, <2>3 DEF b
    <2>4. CASE d # c
      <3>1. Larger(horizon[d], stamp) <= now
        BY <2>2 DEF Larger
      <3>2. QED
        BY <1>10, <2>2, <2>4, <3>1
    <2>5. QED
      BY <2>3, <2>4
  <1>13. \A d \in Client : Accounted(d)'
    <2>1. TAKE d \in Client
    <2>2. AccountedFor(clients[d], admitted[d], horizon[d], skew[d] + forgiven[d])
      BY <1>8 DEF Accounted
    <2>3. CASE d = c
      <3> DEFINE n == admitted[c]
                 h == horizon[c]
                 k == skew[c] + forgiven[c]
      <3>1. n \in Nat /\ h \in Nat /\ k \in Nat /\ Since(h, stamp) \in Nat
        <4>1. n \in Nat /\ h \in Nat /\ skew[c] \in Nat /\ forgiven[c] \in Nat
          BY <1>1
        <4>2. Since(h, stamp) \in Nat
          BY <4>1, SinceType
        <4>3. k \in Nat
          BY <4>1
        <4>4. QED
          BY <4>1, <4>2, <4>3
      <3>2. /\ n = 0 => opened <= stamp + (k + Since(h, stamp))
            /\ n * Cost + t + opened <= Full + stamp + (k + Since(h, stamp))
        BY <1>1, <1>5, <2>2, <2>3, <3>1, Earns
      <3>3. /\ n * Cost \in Nat /\ (n + 1) * Cost = n * Cost + Cost
            /\ Full \in Nat /\ Cost \in Nat
        BY <3>1, OneMore, FullType
      <3>4. b # Untracked /\ b.last = stamp /\ b.tokens = left
        BY <1>3, AbsenceAssumption DEF b
      <3>5. /\ clients'[c] = b /\ horizon'[c] = stamp
            /\ skew'[c] + forgiven'[c] = k + Since(h, stamp)
            /\ admitted'[c] = (IF passes THEN n + 1 ELSE n)
        BY <1>1, <1>4, <1>9, <3>1
      <3> HIDE DEF n, h, k
      <3>6. CASE passes
        <4>1. left = t - Cost /\ admitted'[c] = n + 1 /\ n + 1 # 0
          BY <1>7, <3>1, <3>5, <3>6
        <4>2. (n + 1) * Cost + left + opened <= Full + stamp + (k + Since(h, stamp))
          BY <1>1, <1>5, <3>1, <3>2, <3>3, <4>1
        <4>3. QED
          BY <1>8, <2>3, <3>4, <3>5, <4>1, <4>2 DEF Accounted, AccountedFor
      <3>7. CASE ~passes
        <4>1. left = t /\ admitted'[c] = n
          BY <1>5, <1>7, <3>5, <3>7
        <4>2. QED
          BY <1>8, <2>3, <3>2, <3>4, <3>5, <4>1 DEF Accounted, AccountedFor
      <3>8. QED
        BY <3>6, <3>7
    <2>4. CASE d # c
      <3>1. admitted'[d] = admitted[d] /\ skew'[d] = skew[d]
        BY <1>9, <2>4
      <3>2. CASE /\ clients'[d] = clients[d] /\ horizon'[d] = horizon[d]
                 /\ forgiven'[d] = forgiven[d]
        BY <1>8, <2>2, <3>1, <3>2 DEF Accounted, AccountedFor
      <3>3. CASE /\ clients[d] # Untracked /\ clients'[d] = Untracked
                 /\ horizon'[d] = Larger(horizon[d], stamp)
                 /\ forgiven'[d] = forgiven[d] + Shortfall
                 /\ stamp >= clients[d].last + IdleEvict
        <4>1. /\ clients[d] \in Bucket /\ admitted[d] \in Nat
              /\ horizon[d] \in Nat /\ skew[d] \in Nat /\ forgiven[d] \in Nat
          BY <1>1, <3>3
        <4>2. skew[d] + forgiven[d] \in Nat
          BY <4>1
        <4>3. AccountedFor(Untracked, admitted[d], Larger(horizon[d], stamp),
                           skew[d] + forgiven[d] + Shortfall)
          BY <1>1, <2>2, <3>3, <4>1, <4>2, Forgets
        <4>4. skew'[d] + forgiven'[d] = skew[d] + forgiven[d] + Shortfall
          BY <3>1, <3>3, <4>1, ShortfallType
        <4>5. QED
          BY <1>8, <3>1, <3>3, <4>3, <4>4 DEF Accounted, AccountedFor
      <3>4. QED
        BY <1>10, <2>4, <3>2, <3>3
    <2>5. QED
      BY <2>3, <2>4
  <1>14. QED
    BY <1>4, <1>9, <1>11, <1>12, <1>13 DEF b

(* A newcomer the table has no room for changes nothing: had make_room      *)
(* dropped anyone there would be room.                                      *)
LEMMA TurnedAwayKeeps ==
    ASSUME TypeOK, NEW c \in Client, NEW stamp \in Nat, ~HasRoom(Retained(c, stamp), c)
    PROVE  Retained(c, stamp) = clients
  <1> DEFINE kept == Retained(c, stamp)
  <1>1. /\ kept \in [Client -> Bucket \union {Untracked}]
        /\ \A d \in Client : kept[d] \in {clients[d], Untracked}
    BY RetainedTable
  <1>2. Tracked(kept) = Tracked(clients)
    <2>1. Cardinality(Tracked(kept)) \in Nat /\ MaxTracked \in Nat
      BY RetainedSize, LimiterAssumption
    <2>2. Cardinality(Tracked(kept)) >= MaxTracked
      BY <2>1 DEF HasRoom
    <2>3. QED
      BY <2>2, RetainedSize
  <1>3. clients \in [Client -> Bucket \union {Untracked}]
    BY DEF TypeOK
  <1> HIDE DEF kept
  <1>4. \A d \in Client : kept[d] = clients[d]
    BY <1>1, <1>2 DEF Tracked
  <1>5. kept = clients
    BY <1>1, <1>3, <1>4
  <1>6. QED
    BY <1>5 DEF kept

(* A refill never comes later than a wait that was promised.                *)
LEMMA PromiseKept ==
    ASSUME LimiterInv, NEW c \in Client, NEW stamp \in Nat, promise[c] # 0
    PROVE  LET t == Refilled(Retained(c, stamp), c, stamp)
           IN  /\ t < Cost => stamp + Cost <= promise[c] + t
               /\ stamp >= promise[c] => t >= Cost
  <1> DEFINE kept == Retained(c, stamp)
             t == Refilled(kept, c, stamp)
  <1>1. TypeOK /\ PromiseStands(c) /\ promise[c] \in Nat
    BY DEF LimiterInv, TypeOK
  <1>2. kept \in [Client -> Bucket \union {Untracked}] /\ kept[c] = clients[c]
    BY <1>1, RetainedTable
  <1>3. Full \in Nat /\ Cost \in Nat /\ Cost >= 1 /\ Full >= Cost
    BY FullType
  <1>4. /\ t \in 0..Full
        /\ clients[c] = Untracked => t = Full
        /\ clients[c] # Untracked /\ t < Full =>
              t = clients[c].tokens + Since(stamp, clients[c].last)
    BY <1>2, RefilledBound
  <1> HIDE DEF kept, t
  <1>5. CASE clients[c] = Untracked
    BY <1>3, <1>4, <1>5 DEF t, kept
  <1>6. CASE clients[c] # Untracked
    <2>1. clients[c].last + Cost <= promise[c] + clients[c].tokens
      BY <1>1, <1>6 DEF PromiseStands
    <2>2. clients[c].last \in Nat /\ clients[c].tokens \in Nat
      BY <1>1, <1>3, <1>6 DEF TypeOK, Bucket
    <2>3. Since(stamp, clients[c].last) \in Nat
          /\ Since(stamp, clients[c].last) >= stamp - clients[c].last
          /\ (stamp < clients[c].last => Since(stamp, clients[c].last) = 0)
          /\ (stamp >= clients[c].last =>
                 Since(stamp, clients[c].last) = stamp - clients[c].last)
      BY <2>2 DEF Since
    <2>4. CASE t = Full
      BY <1>3, <2>4 DEF t, kept
    <2>5. CASE t < Full
      <3>1. t = clients[c].tokens + Since(stamp, clients[c].last)
        BY <1>4, <1>6, <2>5
      <3>2. /\ t < Cost => stamp + Cost <= promise[c] + t
            /\ stamp >= promise[c] => t >= Cost
        BY <1>1, <1>3, <2>1, <2>2, <2>3, <3>1
      <3>3. QED
        BY <3>2 DEF t, kept
    <2>6. QED
      BY <1>3, <1>4, <2>4, <2>5
  <1>7. QED
    BY <1>5, <1>6

(* A check leaves everyone else's promise and bucket, or no bucket.         *)
LEMMA OthersPromises ==
    ASSUME LimiterInv, NEW c \in Client,
           \A d \in Client \ {c} : clients'[d] \in {clients[d], Untracked},
           \A d \in Client \ {c} : promise'[d] = promise[d]
    PROVE  \A d \in Client \ {c} : PromiseStands(d)'
  BY DEF LimiterInv, PromiseStands

-------------------------------------------------------------------------------
(* The actions. *)

LEMMA InitHolds == Init => LimiterInv
  <1> SUFFICES ASSUME Init PROVE LimiterInv
    OBVIOUS
  <1> USE DEF Init
  <1>1. Tracked(clients) = {}
    BY DEF Tracked
  <1>2. Cardinality(Tracked(clients)) <= MaxTracked
    BY <1>1, FS_EmptySet, LimiterAssumption
  <1>3. TypeOK
    BY <1>2 DEF TypeOK
  <1>4. StampsPast
    BY DEF StampsPast
  <1>5. \A c \in Client : Accounted(c) /\ PromiseStands(c)
    BY DEF Accounted, AccountedFor, PromiseStands
  <1>6. QED
    BY <1>3, <1>4, <1>5 DEF LimiterInv

LEMMA TickKeeps == LimiterInv /\ Tick => LimiterInv'
  <1> SUFFICES ASSUME LimiterInv, Tick PROVE LimiterInv'
    OBVIOUS
  <1>1. /\ now' = now + 1 /\ now \in Nat /\ TypeOK /\ StampsPast
        /\ UNCHANGED <<clients, call, opened, admitted, skew, horizon, forgiven, promise>>
    BY DEF LimiterInv, TypeOK, Tick, observer
  <1>2. TypeOK'
    BY <1>1 DEF TypeOK, Tracked
  <1>3. StampsPast'
    <2>1. /\ opened \in Nat /\ horizon \in [Client -> Nat]
          /\ \A w \in Worker : call[w] # Idle => call[w].stamp \in Nat
          /\ \A c \in Client : clients[c] # Untracked => clients[c].last \in Nat
      BY <1>1 DEF TypeOK, Call, Bucket
    <2>2. QED
      BY <1>1, <2>1 DEF StampsPast
  <1>4. \A c \in Client : Accounted(c)' /\ PromiseStands(c)'
    BY <1>1 DEF LimiterInv, Accounted, AccountedFor, PromiseStands
  <1>5. QED
    BY <1>2, <1>3, <1>4 DEF LimiterInv

LEMMA OpenWindowKeeps == LimiterInv /\ OpenWindow => LimiterInv'
  <1> SUFFICES ASSUME LimiterInv, OpenWindow PROVE LimiterInv'
    OBVIOUS
  <1>1. /\ now' = now /\ now \in Nat /\ TypeOK /\ StampsPast
        /\ opened' = now /\ UNCHANGED <<clients, call, promise>>
        /\ admitted' = [c \in Client |-> 0] /\ skew' = [c \in Client |-> 0]
        /\ horizon' = [c \in Client |-> now] /\ forgiven' = [c \in Client |-> 0]
    BY DEF LimiterInv, TypeOK, OpenWindow
  <1>2. TypeOK'
    BY <1>1 DEF TypeOK, Tracked
  <1>3. StampsPast'
    BY <1>1 DEF StampsPast
  <1>4. \A c \in Client : Accounted(c)' /\ PromiseStands(c)'
    <2>1. \A c \in Client : Accounted(c)'
      BY <1>1 DEF Accounted, AccountedFor
    <2>2. \A c \in Client : PromiseStands(c)'
      BY <1>1 DEF LimiterInv, PromiseStands
    <2>3. QED
      BY <2>1, <2>2
  <1>5. QED
    BY <1>2, <1>3, <1>4 DEF LimiterInv

LEMMA ArriveKeeps ==
    ASSUME LimiterInv, NEW w \in Worker, NEW c \in Client, Arrive(w, c)
    PROVE  LimiterInv'
  <1>1. /\ TypeOK /\ StampsPast /\ now \in Nat
        /\ call' = [call EXCEPT ![w] = [client |-> c, stamp |-> now]]
        /\ UNCHANGED <<now, clients, opened, admitted, skew, horizon, forgiven, promise>>
    BY DEF LimiterInv, TypeOK, Arrive, observer
  <1>2. [client |-> c, stamp |-> now] \in Call
    BY <1>1 DEF Call
  <1>3. /\ call' \in [Worker -> Call \union {Idle}]
        /\ \A v \in Worker : call'[v] = call[v] \/ call'[v].stamp = now
    BY <1>1, <1>2 DEF TypeOK
  <1>4. TypeOK'
    BY <1>1, <1>3 DEF TypeOK, Tracked
  <1>5. StampsPast'
    BY <1>1, <1>3 DEF StampsPast
  <1>6. \A d \in Client : Accounted(d)' /\ PromiseStands(d)'
    BY <1>1 DEF LimiterInv, Accounted, AccountedFor, PromiseStands
  <1>7. QED
    BY <1>4, <1>5, <1>6 DEF LimiterInv

(* What is known of the query a worker is about to check, and that it is    *)
(* done with it.                                                            *)
LEMMA CallInHand ==
    ASSUME LimiterInv, NEW w \in Worker, call[w] # Idle, now' = now,
           call' = [call EXCEPT ![w] = Idle]
    PROVE  /\ call[w].client \in Client /\ call[w].stamp \in Nat /\ call[w].stamp <= now
           /\ call' \in [Worker -> Call \union {Idle}]
           /\ \A v \in Worker : call'[v] # Idle => call'[v].stamp <= now'
  <1>1. call \in [Worker -> Call \union {Idle}] /\ StampsPast
    BY DEF LimiterInv, TypeOK
  <1>2. call[w] \in Call /\ call[w].stamp <= now
    BY <1>1 DEF StampsPast
  <1>3. call[w].client \in Client /\ call[w].stamp \in Nat
    BY <1>2 DEF Call
  <1>4. /\ call' \in [Worker -> Call \union {Idle}]
        /\ \A v \in Worker : call'[v] # Idle => call'[v] = call[v]
    BY <1>1
  <1>5. \A v \in Worker : call'[v] # Idle => call'[v].stamp <= now'
    BY <1>1, <1>4 DEF StampsPast
  <1>6. QED
    BY <1>2, <1>3, <1>4, <1>5

LEMMA TurnedAwayStep ==
    ASSUME LimiterInv, NEW w \in Worker, TurnedAway(w)
    PROVE  LimiterInv'
  <1>1. call[w] # Idle /\ now' = now /\ call' = [call EXCEPT ![w] = Idle]
    BY DEF TurnedAway
  <1>2. PICK c \in Client, stamp \in Nat : c = call[w].client /\ stamp = call[w].stamp
    BY <1>1, CallInHand
  <1>3. /\ call[w] # Idle /\ ~HasRoom(Retained(c, stamp), c)
        /\ clients' = Retained(c, stamp)
        /\ call' = [call EXCEPT ![w] = Idle]
        /\ UNCHANGED <<now, opened, admitted, skew, horizon, forgiven, promise>>
    BY <1>2 DEF TurnedAway, observer
  <1>4. /\ c \in Client /\ stamp \in Nat
        /\ call' \in [Worker -> Call \union {Idle}]
        /\ \A v \in Worker : call'[v] # Idle => call'[v].stamp <= now'
    BY <1>1, <1>2, CallInHand
  <1>5. TypeOK /\ StampsPast
    BY DEF LimiterInv
  <1>6. clients' = clients
    BY <1>3, <1>4, <1>5, TurnedAwayKeeps
  <1>7. TypeOK'
    BY <1>3, <1>4, <1>5, <1>6 DEF TypeOK, Tracked
  <1>8. StampsPast'
    BY <1>3, <1>4, <1>5, <1>6 DEF StampsPast
  <1>9. \A d \in Client : Accounted(d)' /\ PromiseStands(d)'
    BY <1>3, <1>6 DEF LimiterInv, Accounted, AccountedFor, PromiseStands
  <1>10. QED
    BY <1>7, <1>8, <1>9 DEF LimiterInv

LEMMA AdmittedStep ==
    ASSUME LimiterInv, NEW w \in Worker, Admitted(w)
    PROVE  LimiterInv'
  <1>1. call[w] # Idle /\ now' = now /\ call' = [call EXCEPT ![w] = Idle]
    BY DEF Admitted
  <1>2. PICK c \in Client, stamp \in Nat : c = call[w].client /\ stamp = call[w].stamp
    BY <1>1, CallInHand
  <1> DEFINE kept == Retained(c, stamp)
             t == Refilled(kept, c, stamp)
             left == t - Cost
  <1>3. /\ call[w] # Idle /\ HasRoom(kept, c) /\ t >= Cost
        /\ clients' = [kept EXCEPT ![c] = [tokens |-> left, last |-> stamp]]
        /\ Account(c, stamp, TRUE, Tracked(clients) \ Tracked(kept))
        /\ promise' = [promise EXCEPT ![c] = 0]
        /\ call' = [call EXCEPT ![w] = Idle]
        /\ UNCHANGED <<now, opened>>
    BY <1>2 DEF Admitted
  <1>4. /\ c \in Client /\ stamp \in Nat /\ stamp <= now
        /\ call' \in [Worker -> Call \union {Idle}]
        /\ \A v \in Worker : call'[v] # Idle => call'[v].stamp <= now'
    BY <1>1, <1>2, CallInHand
  <1>5. TypeOK /\ StampsPast
    BY DEF LimiterInv
  <1>6. kept \in [Client -> Bucket \union {Untracked}]
    BY <1>4, <1>5, RetainedTable
  <1>7. t \in 0..Full
    BY <1>4, <1>6, RefilledBound
  <1>8. left \in 0..Full
    BY <1>3, <1>7, FullType
  <1>9. left = t - (IF TRUE THEN Cost ELSE 0)
    OBVIOUS
  <1> HIDE DEF t, left
  <1>10. /\ clients' \in [Client -> Bucket \union {Untracked}]
         /\ Cardinality(Tracked(clients')) <= MaxTracked
         /\ admitted' \in [Client -> Nat] /\ skew' \in [Client -> Nat]
         /\ horizon' \in [Client -> Nat] /\ forgiven' \in [Client -> Nat]
         /\ \A d \in Client \ {c} : clients'[d] \in {clients[d], Untracked}
         /\ \A d \in Client :
               horizon'[d] <= now /\ (clients'[d] # Untracked => clients'[d].last <= now)
         /\ \A d \in Client : Accounted(d)'
    BY <1>3, <1>4, <1>8, <1>9, CheckKeeps DEF t
  <1>11. /\ promise' \in [Client -> Nat] /\ promise'[c] = 0
         /\ \A d \in Client \ {c} : promise'[d] = promise[d]
    BY <1>3, <1>4, <1>5 DEF TypeOK
  <1>12. TypeOK'
    BY <1>3, <1>4, <1>5, <1>10, <1>11 DEF TypeOK, Tracked
  <1>13. StampsPast'
    BY <1>3, <1>4, <1>5, <1>10 DEF StampsPast
  <1>14. \A d \in Client : PromiseStands(d)'
    <2>1. PromiseStands(c)'
      BY <1>11 DEF PromiseStands
    <2>2. QED
      BY <1>4, <1>10, <1>11, <2>1, OthersPromises
  <1>15. QED
    BY <1>10, <1>12, <1>13, <1>14 DEF LimiterInv

LEMMA RefusedStep ==
    ASSUME LimiterInv, NEW w \in Worker, Refused(w)
    PROVE  LimiterInv'
  <1>1. call[w] # Idle /\ now' = now /\ call' = [call EXCEPT ![w] = Idle]
    BY DEF Refused
  <1>2. PICK c \in Client, stamp \in Nat : c = call[w].client /\ stamp = call[w].stamp
    BY <1>1, CallInHand
  <1> DEFINE kept == Retained(c, stamp)
             t == Refilled(kept, c, stamp)
  <1>3. /\ call[w] # Idle /\ HasRoom(kept, c) /\ t < Cost
        /\ clients' = [kept EXCEPT ![c] = [tokens |-> t, last |-> stamp]]
        /\ Account(c, stamp, FALSE, Tracked(clients) \ Tracked(kept))
        /\ promise' = [promise EXCEPT ![c] = Promised(c, stamp, t)]
        /\ call' = [call EXCEPT ![w] = Idle]
        /\ UNCHANGED <<now, opened>>
    BY <1>2 DEF Refused
  <1>4. /\ c \in Client /\ stamp \in Nat /\ stamp <= now
        /\ call' \in [Worker -> Call \union {Idle}]
        /\ \A v \in Worker : call'[v] # Idle => call'[v].stamp <= now'
    BY <1>1, <1>2, CallInHand
  <1>5. TypeOK /\ StampsPast
    BY DEF LimiterInv
  <1>6. kept \in [Client -> Bucket \union {Untracked}]
    BY <1>4, <1>5, RetainedTable
  <1>7. t \in 0..Full
    BY <1>4, <1>6, RefilledBound
  <1>8. t = t - (IF FALSE THEN Cost ELSE 0)
    BY <1>7, FullType
  <1>9. promise[c] # 0 => stamp + Cost <= promise[c] + t
    BY <1>3, <1>4, PromiseKept
  <1> HIDE DEF t
  <1>10. /\ clients' \in [Client -> Bucket \union {Untracked}]
         /\ Cardinality(Tracked(clients')) <= MaxTracked
         /\ admitted' \in [Client -> Nat] /\ skew' \in [Client -> Nat]
         /\ horizon' \in [Client -> Nat] /\ forgiven' \in [Client -> Nat]
         /\ clients'[c] = [tokens |-> t, last |-> stamp]
         /\ \A d \in Client \ {c} : clients'[d] \in {clients[d], Untracked}
         /\ \A d \in Client :
               horizon'[d] <= now /\ (clients'[d] # Untracked => clients'[d].last <= now)
         /\ \A d \in Client : Accounted(d)'
    BY <1>3, <1>4, <1>7, <1>8, CheckKeeps DEF t
  <1>11. promise \in [Client -> Nat]
    BY <1>5 DEF TypeOK
  <1>12. /\ Promised(c, stamp, t) \in Nat
         /\ stamp + Cost <= Promised(c, stamp, t) + t
    <2>1. Cost \in Nat /\ t \in Nat /\ promise[c] \in Nat
      BY <1>4, <1>7, <1>11, FullType
    <2>2. QED
      BY <1>3, <1>4, <1>9, <2>1 DEF Promised, Smaller
  <1>13. /\ promise' \in [Client -> Nat] /\ promise'[c] = Promised(c, stamp, t)
         /\ \A d \in Client \ {c} : promise'[d] = promise[d]
    BY <1>3, <1>4, <1>11, <1>12
  <1>14. TypeOK'
    BY <1>3, <1>4, <1>5, <1>10, <1>13 DEF TypeOK, Tracked
  <1>15. StampsPast'
    BY <1>3, <1>4, <1>5, <1>10 DEF StampsPast
  <1>16. \A d \in Client : PromiseStands(d)'
    <2>1. PromiseStands(c)'
      BY <1>10, <1>12, <1>13 DEF PromiseStands
    <2>2. QED
      BY <1>4, <1>10, <1>13, <2>1, OthersPromises
  <1>17. QED
    BY <1>10, <1>14, <1>15, <1>16 DEF LimiterInv

(* A step that changes nothing.                                             *)
LEMMA LimiterStutters == LimiterInv /\ UNCHANGED vars => LimiterInv'
  BY DEF LimiterInv, TypeOK, StampsPast, Accounted, AccountedFor, PromiseStands, Tracked,
         vars, observer

-------------------------------------------------------------------------------
(* The theorems. *)

(* Types, accounts and promises hold from the start and in every step.      *)
THEOREM LimiterInvariant == Spec => []LimiterInv
  <1>1. Init => LimiterInv
    BY InitHolds
  <1>2. LimiterInv /\ [Next]_vars => LimiterInv'
    <2> SUFFICES ASSUME LimiterInv, [Next]_vars PROVE LimiterInv'
      OBVIOUS
    <2>1. CASE Tick
      BY <2>1, TickKeeps
    <2>2. CASE OpenWindow
      BY <2>2, OpenWindowKeeps
    <2>3. ASSUME NEW w \in Worker, NEW c \in Client, Arrive(w, c) PROVE LimiterInv'
      BY <2>3, ArriveKeeps
    <2>4. ASSUME NEW w \in Worker, TurnedAway(w) PROVE LimiterInv'
      BY <2>4, TurnedAwayStep
    <2>5. ASSUME NEW w \in Worker, Admitted(w) PROVE LimiterInv'
      BY <2>5, AdmittedStep
    <2>6. ASSUME NEW w \in Worker, Refused(w) PROVE LimiterInv'
      BY <2>6, RefusedStep
    <2>7. CASE UNCHANGED vars
      BY <2>7, LimiterStutters
    <2>8. QED
      BY <2>1, <2>2, <2>3, <2>4, <2>5, <2>6, <2>7 DEF Next
  <1>3. QED
    BY <1>1, <1>2, PTL DEF Spec

(* src/http/limit.rs keeps its table within MAX_TRACKED and its buckets     *)
(* between empty and full, whatever is evicted.                             *)
THEOREM LimiterTypeOK == Spec => []TypeOK
  <1>1. LimiterInv => TypeOK
    BY DEF LimiterInv
  <1>2. QED
    BY <1>1, LimiterInvariant, PTL

(* In no window of time is a client let through more than a burst, what the *)
(* rate earns, the time by which its own checks went back, and the          *)
(* shortfall of each of its evictions: for every rate, burst and IDLE_EVICT *)
(* the command line and the code can combine.                               *)
THEOREM LimiterWithinRate == Spec => []WithinRate
  <1>1. LimiterInv => WithinRate
    <2> SUFFICES ASSUME LimiterInv, NEW c \in Client
                 PROVE  admitted[c] * Cost <= Full + (now - opened) + skew[c] + forgiven[c]
      BY DEF WithinRate
    <2>1. /\ now \in Nat /\ opened \in Nat /\ opened <= now
          /\ admitted[c] \in Nat /\ skew[c] \in Nat /\ forgiven[c] \in Nat
          /\ horizon[c] \in Nat /\ horizon[c] <= now
          /\ clients[c] \in Bucket \union {Untracked}
          /\ AccountedFor(clients[c], admitted[c], horizon[c], skew[c] + forgiven[c])
      BY DEF LimiterInv, TypeOK, StampsPast, Accounted
    <2>2. /\ Full \in Nat /\ admitted[c] * Cost \in Nat
          /\ (admitted[c] = 0 => admitted[c] * Cost = 0)
      BY <2>1, FullType, OneMore
    <2>3. CASE admitted[c] = 0
      BY <2>1, <2>2, <2>3
    <2>4. CASE admitted[c] # 0 /\ clients[c] = Untracked
      <3>1. admitted[c] * Cost + opened <= horizon[c] + (skew[c] + forgiven[c])
        BY <2>1, <2>4 DEF AccountedFor
      <3>2. QED
        BY <2>1, <2>2, <3>1
    <2>5. CASE admitted[c] # 0 /\ clients[c] # Untracked
      <3>1. admitted[c] * Cost + clients[c].tokens + opened
                <= Full + horizon[c] + (skew[c] + forgiven[c])
        BY <2>1, <2>5 DEF AccountedFor
      <3>2. clients[c].tokens \in Nat
        BY <2>1, <2>2, <2>5 DEF Bucket
      <3>3. QED
        BY <2>1, <2>2, <3>1, <3>2
    <2>6. QED
      BY <2>3, <2>4, <2>5
  <1>2. QED
    BY <1>1, LimiterInvariant, PTL

(* Where a bucket refills in the time it takes to be evicted nothing is ever *)
(* forgiven: with that condition, which no code checks and the defaults     *)
(* meet, the rate and the burst are all a client gets through.              *)
NothingForgiven == \A c \in Client : forgiven[c] = 0
THEOREM LimiterForgivesNothing ==
    ASSUME IdleEvict >= Full
    PROVE  Spec => []NothingForgiven
  <1>1. Shortfall = 0
    BY FullType, ShortfallType DEF Shortfall, Since
  <1>2. Init => NothingForgiven
    BY DEF Init, NothingForgiven
  <1>3. LimiterInv /\ NothingForgiven /\ [Next]_vars => NothingForgiven'
    <2> SUFFICES ASSUME LimiterInv, NothingForgiven, [Next]_vars
                 PROVE  NothingForgiven'
      OBVIOUS
    <2>1. ASSUME NEW c, NEW stamp, NEW passes, NEW evicted, Account(c, stamp, passes, evicted)
          PROVE  NothingForgiven'
      BY <1>1, <2>1 DEF Account, NothingForgiven
    <2>2. CASE Tick \/ OpenWindow \/ UNCHANGED vars
      BY <2>2 DEF Tick, OpenWindow, vars, observer, NothingForgiven
    <2>3. CASE \E w \in Worker : (\E c \in Client : Arrive(w, c)) \/ TurnedAway(w)
      BY <2>3 DEF Arrive, TurnedAway, observer, NothingForgiven
    <2>4. CASE \E w \in Worker : Admitted(w) \/ Refused(w)
      BY <2>1, <2>4 DEF Admitted, Refused
    <2>5. QED
      BY <2>2, <2>3, <2>4 DEF Next
  <1>4. QED
    BY <1>2, <1>3, LimiterInvariant, PTL DEF Spec

(* Whoever waits as long as a refusal said has a query to spend.            *)
THEOREM LimiterWaitIsEnough == Spec => []WaitIsEnough
  <1>1. LimiterInv => WaitIsEnough
    <2> SUFFICES ASSUME LimiterInv, NEW w \in Worker, call[w] # Idle,
                        promise[call[w].client] # 0,
                        call[w].stamp >= promise[call[w].client]
                 PROVE  Refilled(Retained(call[w].client, call[w].stamp),
                                 call[w].client, call[w].stamp) >= Cost
      BY DEF WaitIsEnough
    <2>1. call[w] \in Call
      BY DEF LimiterInv, TypeOK
    <2>2. call[w].client \in Client /\ call[w].stamp \in Nat
      BY <2>1 DEF Call
    <2>3. QED
      BY <2>2, PromiseKept
  <1>2. QED
    BY <1>1, LimiterInvariant, PTL
===============================================================================
