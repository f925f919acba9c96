------------------------------ MODULE ReorgProofs ------------------------------
(***************************************************************************)
(* The reorg tripwire of `--confirmations N`, for every chain, window,      *)
(* chunk size, number of addresses and of failed calls: a stored hash that  *)
(* still holds vouches for the map, and the watch covers what a repair      *)
(* would rewind over.  Until something fails, the watch keeps no more than  *)
(* that, and the PIR side has every holder a repair has not changed.        *)
(*                                                                         *)
(* After a repair the map is a patchwork: a corrected address stands at the *)
(* rewound cursor, any other where the watch began.  What the proof follows *)
(* is that every address stands somewhere between the cursor and the end of *)
(* the pass that reads those blocks again.                                  *)
(***************************************************************************)
EXTENDS ReorgWatch, SyncerProofs

(* A slot of address a is what the chain has at block p (as in SlotExact).  *)
Fits(slot, a, p) ==
    IF slot = Absent
      THEN IsZero(BalanceAt(p)[a]) \/ \A n \in 1..p : chain[n].touch[a] = {}
      ELSE slot.balance = BalanceAt(p)[a] /\ ~IsZero(BalanceAt(p)[a])

Running == pc \in {"logs", "apply", "finish"}

(* How far ahead of the cursor a slot may stand: to the end of the pass     *)
(* under way or next, and nowhere once a hash is stored.                    *)
Ahead == IF watch.hash # NoHash THEN balances.cursor ELSE IF Running THEN run.to ELSE TipNow

StandsAt(slot, a, p) == (p = balances.cursor \/ p <= Ahead) /\ Fits(slot, a, p)

(* The watch has address a filed under block n or a later one.              *)
Recorded(recent, n, a) ==
    \E i \in 1..Len(recent) : a \in recent[i].addrs /\ recent[i].through >= n

Covered ==
    \A n \in (Reachable + 1)..balances.cursor, a \in Addr :
        chain[n].touch[a] # {} => Recorded(watch.recent, n, a)

(* No block at or below the cursor has been replaced since it was read.     *)
Clean ==
    /\ balances.cursor <= Height
    /\ \A a \in Addr : \E p \in balances.cursor..Height : StandsAt(balances.inner[a], a, p)
    /\ Covered

(* A block was replaced.  The next check cannot but notice it, and what the *)
(* watch does not name has not moved since the block a rewind can reach.    *)
Replaced ==
    \/ watch.hash[1] # balances.cursor
    \/ /\ watch.hash[2] < branch
       /\ balances.cursor <= Height => chain[balances.cursor].branch > watch.hash[2]

Dirty ==
    /\ pc \in {"poll", "repair"} /\ watch.hash # NoHash
    /\ Replaced
    /\ \A a \in Addr \ Stale : Fits(balances.inner[a], a, Reachable)

Bounds ==
    /\ crashes = 0 /\ Origin <= final
    /\ \A n \in 1..Height : chain[n].branch <= branch
    /\ watchedFrom \in 1..balances.cursor
    /\ Running => run.to <= TipNow /\ run.to > Window
    /\ pc \in {"logs", "apply"} => run.lo = balances.cursor + 1
    /\ pc = "finish" => balances.cursor = run.to
    /\ pc = "repair" => watch.hash # NoHash
    /\ watch.hash # NoHash => /\ mode = "follow" /\ balances.cursor > Window
                              /\ Reachable <= TipNow /\ watch.hash[2] <= branch

WatchInv ==
    /\ TypeOK /\ RunOK /\ ChainMoves /\ SeenCurrent /\ Bounds
    /\ Clean \/ Dirty

-------------------------------------------------------------------------------
(* A slot fits as long as its address is not moved, in both directions.     *)
LEMMA FitsAlong ==
    ASSUME ChainTypeOK, ChainMoves, NEW slot, NEW a \in Addr,
           NEW p \in 1..Height, NEW q \in p..Height,
           \A n \in (p + 1)..q : chain[n].touch[a] = {}
    PROVE  Fits(slot, a, p) <=> Fits(slot, a, q)
  <1>1. Height \in Nat /\ p \in Nat /\ q \in Nat /\ p <= q
    BY ChainReads
  <1>2. BalanceAt(q)[a] = BalanceAt(p)[a]
    BY WholeMoves
  <1>3. (\A n \in 1..p : chain[n].touch[a] = {}) <=> (\A n \in 1..q : chain[n].touch[a] = {})
    BY <1>1
  <1>4. QED
    BY <1>2, <1>3 DEF Fits

(* ChainWatch::trim keeps every entry of a block a rewind can reach.        *)
LEMMA TrimKeeps ==
    ASSUME NEW recent \in Seq(WatchedChunk), NEW keepFrom \in Nat, NEW n \in Nat, NEW a,
           n >= keepFrom, Recorded(recent, n, a)
    PROVE  Recorded(Trim(recent, keepFrom), n, a)
  <1> DEFINE droppable == {k \in 0..Len(recent) :
                             \A i \in 1..k : recent[i].through < keepFrom}
             m == Max(droppable)
             kept == SubSeq(recent, m + 1, Len(recent))
  <1>1. Len(recent) \in Nat /\ 0 \in droppable
    BY LenProperties
  <1>2. m \in droppable /\ m \in 0..Len(recent)
    <2>1. droppable \in SUBSET (0..Len(recent))
      OBVIOUS
    <2>2. Max(droppable) \in droppable
      BY <1>1, <2>1, MaxNat
    <2>3. QED
      BY <2>1, <2>2
  <1>3. PICK i \in 1..Len(recent) : a \in recent[i].addrs /\ recent[i].through >= n
    BY DEF Recorded
  <1>4. i > m
    <2>1. \A k \in 1..m : recent[k].through < keepFrom
      BY <1>2
    <2>2. recent[i].through \in Nat
      <3>1. recent[i] \in WatchedChunk
        BY ElementOfSeq
      <3>2. QED
        BY <3>1 DEF WatchedChunk
    <2> HIDE DEF m
    <2>3. QED
      BY <1>1, <1>2, <1>3, <2>1, <2>2
  <1>5. /\ Len(kept) = Len(recent) - m
        /\ \A j \in 1..(Len(recent) - m) : kept[j] = recent[m + j]
    <2> HIDE DEF m
    <2>1. m + 1 \in Int /\ Len(recent) \in Int /\ m \in Nat /\ m <= Len(recent)
      BY <1>1, <1>2
    <2>2. \A k \in (m + 1)..Len(recent) : recent[k] \in WatchedChunk
      BY <2>1, ElementOfSeq
    <2>3. /\ Len(kept) = IF m + 1 <= Len(recent) THEN Len(recent) - (m + 1) + 1 ELSE 0
          /\ \A j \in 1..(Len(recent) - (m + 1) + 1) : kept[j] = recent[(m + 1) + j - 1]
      BY <2>1, <2>2, SubSeqProperties
    <2> HIDE DEF kept
    <2>4. i \in Nat /\ i <= Len(recent) /\ i > m
      BY <1>1, <1>3, <1>4
    <2>5. m + 1 <= Len(recent) /\ Len(recent) - (m + 1) + 1 = Len(recent) - m
      BY <2>1, <2>4
    <2>6. \A j \in 1..(Len(recent) - m) : (m + 1) + j - 1 = m + j
      BY <2>1
    <2>7. QED
      BY <2>3, <2>5, <2>6
  <1>6. Trim(recent, keepFrom) = kept
    BY DEF Trim
  <1> HIDE DEF m, kept
  <1>7. i - m \in 1..Len(kept) /\ kept[i - m] = recent[i]
    BY <1>1, <1>2, <1>3, <1>4, <1>5
  <1>8. QED
    BY <1>3, <1>6, <1>7 DEF Recorded

LEMMA ReachableIs ==
    ASSUME TypeOK, watchedFrom \in 1..balances.cursor
    PROVE  /\ Reachable \in 1..balances.cursor
           /\ RewindTo \in 0..Reachable
           /\ balances.cursor > Window => RewindTo >= 1
           /\ watchedFrom <= Reachable
  <1>1. balances.cursor \in Nat /\ Window \in Nat
    BY SyncerAssumption DEF TypeOK
  <1>2. RewindTo = IF balances.cursor >= Window THEN balances.cursor - Window ELSE 0
    BY DEF RewindTo, Minus
  <1>3. Reachable = IF watchedFrom > RewindTo THEN watchedFrom ELSE RewindTo
    BY DEF Reachable
  <1>4. watchedFrom \in Nat /\ watchedFrom >= 1 /\ watchedFrom <= balances.cursor
    BY <1>1
  <1>5. QED
    BY <1>1, <1>2, <1>3, <1>4

LEMMA TipIs ==
    ASSUME ChainTypeOK, ~Finalized
    PROVE  TipNow \in Nat /\ TipNow <= Height /\ Height \in Nat
  <1>1. Height \in Nat /\ Confirmations \in Nat
    BY ChainReads, SyncerAssumption
  <1>2. QED
    BY <1>1 DEF TipNow, Minus

(* Whoever the watch does not name has not moved since the block a rewind   *)
(* can reach.                                                               *)
LEMMA CleanReach ==
    ASSUME WatchInv, Clean, watch.hash # NoHash, NEW a \in Addr \ Stale
    PROVE  Fits(balances.inner[a], a, Reachable)
  <1>1. /\ Reachable \in 1..balances.cursor /\ balances.cursor \in Nat /\ Height \in Nat
        /\ balances.cursor <= Height /\ Reachable \in 1..Height
        /\ balances.cursor \in Reachable..Height
    <2>1. Reachable \in 1..balances.cursor
      BY ReachableIs DEF WatchInv, Bounds
    <2>2. balances.cursor \in Nat /\ Height \in Nat /\ balances.cursor <= Height
      BY ChainReads DEF WatchInv, TypeOK, Clean
    <2> HIDE DEF Reachable
    <2>3. QED
      BY <2>1, <2>2
  <1>2. Fits(balances.inner[a], a, balances.cursor)
    <2>1. PICK p \in balances.cursor..Height : StandsAt(balances.inner[a], a, p)
      BY DEF Clean
    <2>2. p = balances.cursor
      BY <1>1, <2>1 DEF StandsAt, Ahead
    <2>3. QED
      BY <2>1, <2>2 DEF StandsAt
  <1>3. \A n \in (Reachable + 1)..balances.cursor : chain[n].touch[a] = {}
    <2>1. ASSUME NEW n \in (Reachable + 1)..balances.cursor, chain[n].touch[a] # {}
          PROVE  a \in Stale
      <3>1. Recorded(watch.recent, n, a)
        BY <2>1 DEF Clean, Covered
      <3>2. QED
        BY <3>1 DEF Recorded, Stale
    <2>2. QED
      BY <2>1
  <1>4. QED
    BY <1>1, <1>2, <1>3, FitsAlong DEF WatchInv, TypeOK

-------------------------------------------------------------------------------
(* The steps.  What WatchNext adds to a step of Next.                       *)
WatchFollows ==
    watchedFrom' = IF watch' = FreshWatch THEN balances'.cursor ELSE watchedFrom

(* A step that leaves chain and map alone keeps the map clean, whether the  *)
(* watch is kept or begun anew.                                             *)
LEMMA CleanStill ==
    ASSUME WatchInv, Clean, UNCHANGED <<chainVars, balances>>, WatchFollows,
           watch' \in {watch, FreshWatch}, Ahead' >= Ahead,
           Ahead \in Nat, Ahead' \in Nat
    PROVE  Clean'
  <1>1. /\ balances' = balances /\ chain' = chain /\ balances.cursor \in Nat
        /\ Height' = Height /\ Height \in Nat
    BY ChainReads DEF WatchInv, TypeOK, chainVars, Height
  <1>2. ASSUME NEW a \in Addr
        PROVE  \E p \in balances.cursor..Height : StandsAt(balances.inner[a], a, p)'
    <2>1. PICK p \in balances.cursor..Height : StandsAt(balances.inner[a], a, p)
      BY DEF Clean
    <2>2. p \in Nat
      BY <1>1
    <2>3. p = balances'.cursor \/ p <= Ahead'
      <3> HIDE DEF Ahead
      <3>1. QED
        BY <1>1, <2>1, <2>2 DEF StandsAt
    <2>4. Fits(balances.inner[a], a, p)'
      BY <1>1, <2>1 DEF StandsAt, Fits, BalanceAt
    <2>5. QED
      BY <2>3, <2>4 DEF StandsAt
  <1>3. Covered'
    <2>1. CASE watch' = FreshWatch
      <3>1. watchedFrom' = balances'.cursor
        BY <2>1 DEF WatchFollows
      <3>2. \A n \in (Reachable' + 1)..balances'.cursor : FALSE
        BY <1>1, <3>1, SyncerAssumption DEF Reachable, RewindTo, Minus
      <3>3. QED
        BY <3>2 DEF Covered
    <2>2. CASE watch' = watch /\ watch # FreshWatch
      <3>1. Reachable' = Reachable
        BY <1>1, <2>2 DEF WatchFollows, Reachable, RewindTo
      <3>2. QED
        BY <1>1, <2>2, <3>1 DEF Clean, Covered, Recorded
    <2>3. QED
      BY <2>1, <2>2
  <1>4. QED
    BY <1>1, <1>2, <1>3 DEF Clean

(* Nor does anything happen to a map with a replaced block while the task   *)
(* has not noticed.                                                         *)
LEMMA DirtyStill ==
    ASSUME WatchInv, Dirty, UNCHANGED <<chainVars, balances, watch>>, WatchFollows,
           pc' \in {"poll", "repair"}
    PROVE  Dirty'
  <1>1. /\ balances' = balances /\ chain' = chain /\ Height' = Height /\ watch' = watch
        /\ branch' = branch
    BY DEF chainVars, Height
  <1>2. watch' # FreshWatch
    BY <1>1 DEF Dirty, FreshWatch
  <1>3. Reachable' = Reachable /\ Stale' = Stale
    BY <1>1, <1>2 DEF WatchFollows, Reachable, RewindTo, Stale
  <1>4. \A a \in Addr \ Stale' : Fits(balances.inner[a], a, Reachable)'
    BY <1>1, <1>3 DEF Dirty, Fits, BalanceAt
  <1>5. Replaced'
    BY <1>1 DEF Dirty, Replaced
  <1>6. QED
    BY <1>1, <1>4, <1>5 DEF Dirty

(* A chunk takes the map to its end: whoever moved in it is read there, and *)
(* whoever did not stands where it stood, or at the chunk's end too.        *)
LEMMA CleanChunk ==
    ASSUME ~Finalized, WatchInv, ChunkApplied, WatchFollows,
           Ahead' \in Nat, watch.hash = NoHash => Ahead' >= Ahead
    PROVE  Clean' /\ balances'.cursor = run.hi /\ run.hi \in (balances.cursor + 1)..run.to
  <1> DEFINE at == IF Touched = {} THEN NothingSeen ELSE BalanceAt(run.hi)
             c  == balances.cursor
  <1>1. pc = "apply" /\ Clean
    BY DEF ChunkApplied, WatchInv, Dirty
  <1>2. /\ c \in Nat /\ c >= 1 /\ run.lo = c + 1 /\ run.hi \in Nat /\ run.to \in Nat
        /\ run.lo <= run.hi /\ run.hi <= run.to /\ run.to <= TipNow
    <2>1. c \in Nat /\ run.hi \in Nat /\ run.to \in Nat
      BY DEF WatchInv, TypeOK
    <2>2. run.lo \in 1..run.hi /\ run.hi <= run.to
      BY <1>1 DEF WatchInv, RunOK
    <2>3. run.lo = c + 1 /\ run.to <= TipNow /\ watchedFrom \in 1..c
      BY <1>1 DEF WatchInv, Bounds, Running
    <2>4. QED
      BY <2>1, <2>2, <2>3
  <1>3. /\ TipNow \in Nat /\ TipNow <= Height /\ Height \in Nat
        /\ ChainTypeOK /\ ChainMoves /\ TypeOK
    BY TipIs DEF WatchInv, TypeOK
  <1>4. run.hi \in 1..Height /\ run.hi > c /\ run.hi <= Height
    BY <1>2, <1>3
  <1>5. /\ balances' = [inner  |-> ApplyAll(balances.inner, Touched, at, seen),
                        cursor |-> run.hi]
        /\ watch' = [watch EXCEPT !.recent = Record(@, run.hi, Touched)]
        /\ UNCHANGED <<chainVars, mode>>
    BY DEF ChunkApplied
  <1>6. /\ balances'.cursor = run.hi /\ chain' = chain /\ Height' = Height
        /\ watch'.hash = watch.hash
        /\ watch'.recent = Record(watch.recent, run.hi, Touched)
    BY <1>3, <1>5 DEF chainVars, Height, TypeOK
  <1>7. \A a \in Addr : balances.inner[a] \in Slot /\ seen[a] \in Touch
    BY <1>3 DEF TypeOK
  <1>8. ASSUME NEW a \in Addr, a \notin Touched, NEW n \in (c + 1)..run.hi
        PROVE  chain[n].touch[a] = {}
    <2>1. SeenIn(run.lo, run.hi)[a] = NoTouch
      BY <1>1, <1>8 DEF Touched, WatchInv, SeenCurrent
    <2>2. run.lo \in Nat \ {0} /\ chain \in Seq(Block)
      BY <1>2, <1>3 DEF ChainTypeOK
    <2>3. \A k \in run.lo..run.hi : k <= Height => chain[k].touch[a] = {}
      BY <1>2, <2>1, <2>2, SeenInComplete
    <2>4. QED
      BY <1>2, <1>3, <1>4, <1>8, <2>3
  <1>9. ASSUME NEW a \in Addr
        PROVE  \E p \in run.hi..Height : StandsAt(balances.inner[a], a, p)'
    <2>1. CASE a \in Touched
      <3>1. at = BalanceAt(run.hi)
        BY <2>1
      <3>2. at[a] = BalanceAt(run.hi)[a] /\ at[a] \in Reading
        <4>1. BalanceAt(run.hi) \in [Addr -> Reading]
          BY <1>3, <1>4, ChainReads
        <4> HIDE DEF at
        <4>2. QED
          BY <3>1, <4>1
      <3> HIDE DEF at
      <3>3. balances'.inner[a] = ApplySlot(balances.inner[a], at[a], seen[a])
        BY <1>5, <2>1 DEF ApplyAll
      <3>4. /\ balances'.inner[a] = Absent <=> IsZero(at[a])
            /\ balances'.inner[a] # Absent => balances'.inner[a].balance = at[a]
        BY <1>7, <3>2, <3>3, ApplySlotExact
      <3>5. PICK h : h = run.hi
        OBVIOUS
      <3>6. Fits(balances.inner[a], a, h)'
        BY <1>6, <3>2, <3>4, <3>5 DEF Fits, BalanceAt
      <3>7. QED
        BY <1>3, <1>4, <1>6, <3>5, <3>6 DEF StandsAt
    <2>2. CASE a \notin Touched
      <3>1. balances'.inner[a] = balances.inner[a]
        BY <1>5, <2>2 DEF ApplyAll
      <3>2. PICK p \in c..Height : StandsAt(balances.inner[a], a, p)
        BY <1>1 DEF Clean
      <3>3. p \in Nat /\ p \in 1..Height
        BY <1>2, <1>3, <3>2
      <3>4. CASE p <= run.hi
        <4>1. \A n \in (p + 1)..run.hi : chain[n].touch[a] = {}
          BY <1>2, <1>8, <2>2, <3>2, <3>3
        <4>2. run.hi \in p..Height
          BY <1>3, <1>4, <3>3, <3>4
        <4>3. Fits(balances.inner[a], a, run.hi)
          BY <1>3, <3>2, <3>3, <4>1, <4>2, FitsAlong DEF StandsAt
        <4>4. PICK q : q = run.hi
          OBVIOUS
        <4>5. Fits(balances.inner[a], a, q)'
          BY <1>6, <3>1, <4>3, <4>4 DEF Fits, BalanceAt
        <4>6. QED
          BY <1>3, <1>4, <1>6, <4>4, <4>5 DEF StandsAt
      <3>5. CASE p > run.hi
        <4>1. p # c /\ p <= Ahead
          BY <1>2, <3>2, <3>3, <3>5 DEF StandsAt
        <4>2. watch.hash = NoHash
          BY <1>2, <3>3, <3>5, <4>1 DEF Ahead
        <4>3. p <= Ahead'
          <5>1. Ahead \in Nat
            BY <1>1, <1>2, <4>2 DEF Ahead, Running
          <5> HIDE DEF Ahead
          <5>2. QED
            BY <3>3, <4>1, <4>2, <5>1
        <4>4. Fits(balances.inner[a], a, p)'
          BY <1>6, <3>1, <3>2 DEF Fits, BalanceAt, StandsAt
        <4>5. QED
          BY <1>3, <1>4, <3>3, <3>5, <4>3, <4>4 DEF StandsAt
      <3>6. QED
        BY <1>2, <3>3, <3>4, <3>5
    <2>3. QED
      BY <2>1, <2>2
  <1>10. Covered'
    <2>1. CASE watch' = FreshWatch
      <3>1. watchedFrom' = balances'.cursor
        BY <2>1 DEF WatchFollows
      <3>2. \A n \in (Reachable' + 1)..balances'.cursor : FALSE
        BY <1>2, <1>6, <3>1, SyncerAssumption DEF Reachable, RewindTo, Minus
      <3>3. QED
        BY <3>2 DEF Covered
    <2>2. CASE watch' # FreshWatch
      <3>1. watchedFrom' = watchedFrom /\ watchedFrom \in 1..c
        BY <2>2 DEF WatchFollows, WatchInv, Bounds
      <3>2. Reachable \in Nat /\ Reachable' \in Nat /\ Reachable' >= Reachable
        BY <1>2, <1>6, <3>1, SyncerAssumption DEF Reachable, RewindTo, Minus
      <3>3. /\ Len(watch.recent) \in Nat /\ watch.recent \in Seq(WatchedChunk)
            /\ Touched \in SUBSET Addr
        BY <1>3, LenProperties, WatchReads DEF TypeOK
      <3>4. PICK reach \in Nat, reached \in Nat :
              reach = Reachable /\ reached = Reachable' /\ reached >= reach
        BY <3>2
      <3>5. ASSUME NEW n \in (reached + 1)..run.hi, NEW a \in Addr,
                   chain[n].touch[a] # {}
            PROVE  Recorded(watch'.recent, n, a)
        <4>1. n \in Nat /\ reached < n /\ n <= run.hi /\ reach < n
          <5>1. run.hi \in Nat /\ reached >= reach
            BY <1>2, <3>4
          <5>2. QED
            BY <5>1
        <4>2. CASE n <= c
          <5>1. n \in (reach + 1)..c
            BY <1>2, <4>1, <4>2
          <5>2. PICK i \in 1..Len(watch.recent) :
                  a \in watch.recent[i].addrs /\ watch.recent[i].through >= n
            BY <1>1, <3>4, <3>5, <5>1 DEF Clean, Covered, Recorded
          <5>3. CASE Touched = {}
            BY <1>6, <5>2, <5>3 DEF Record, Recorded
          <5>4. CASE Touched # {}
            <6>1. [through |-> run.hi, addrs |-> Touched] \in WatchedChunk
              BY <1>2, <3>3 DEF WatchedChunk
            <6>2. /\ watch'.recent = Append(watch.recent, [through |-> run.hi, addrs |-> Touched])
              BY <1>6, <5>4 DEF Record
            <6>3. /\ Len(watch'.recent) = Len(watch.recent) + 1
                  /\ \A j \in 1..Len(watch.recent) : watch'.recent[j] = watch.recent[j]
              BY <3>3, <6>1, <6>2, AppendProperties
            <6>4. i \in 1..Len(watch'.recent) /\ watch'.recent[i] = watch.recent[i]
              BY <3>3, <5>2, <6>3
            <6>5. QED
              BY <5>2, <6>4 DEF Recorded
          <5>5. QED
            BY <5>3, <5>4
        <4>3. CASE n > c
          <5>1. n \in (c + 1)..run.hi
            BY <1>2, <4>1, <4>3
          <5>2. a \in Touched
            BY <1>8, <3>5, <5>1
          <5>3. [through |-> run.hi, addrs |-> Touched] \in WatchedChunk
            BY <1>2, <3>3 DEF WatchedChunk
          <5>4. watch'.recent = Append(watch.recent, [through |-> run.hi, addrs |-> Touched])
            BY <1>6, <5>2 DEF Record
          <5>5. /\ Len(watch'.recent) = Len(watch.recent) + 1
                /\ watch'.recent[Len(watch.recent) + 1] = [through |-> run.hi, addrs |-> Touched]
            BY <3>3, <5>3, <5>4, AppendProperties
          <5>6. Len(watch.recent) + 1 \in 1..Len(watch'.recent)
            BY <3>3, <5>5
          <5>7. run.hi >= n
            BY <1>2, <5>1
          <5>8. QED
            BY <5>2, <5>5, <5>6, <5>7 DEF Recorded
        <4>4. QED
          BY <1>2, <4>1, <4>2, <4>3
      <3>6. QED
        BY <1>6, <3>4, <3>5 DEF Covered, Recorded
    <2>3. QED
      BY <2>1, <2>2
  <1>11. balances'.cursor <= Height'
    BY <1>4, <1>6
  <1>12. Clean'
    <2>1. \A a \in Addr : \E p \in balances'.cursor..Height' : StandsAt(balances.inner[a], a, p)'
      BY <1>6, <1>9
    <2>2. QED
      BY <1>10, <1>11, <2>1 DEF Clean
  <1>13. QED
    BY <1>2, <1>4, <1>6, <1>12

(* prune_transient finds nothing to prune.                                  *)
LEMMA CleanPruned ==
    ASSUME TypeOK, Clean
    PROVE  Pruned = balances
  <1>1. \A a \in Addr : balances.inner[a] # Absent => ~IsZero(balances.inner[a].balance)
    BY DEF Clean, StandsAt, Fits
  <1>2. PruneZero(balances.inner, inserted) = balances.inner
    BY <1>1, PruneZeroKeeps DEF TypeOK
  <1>3. QED
    BY <1>2 DEF Pruned, TypeOK

(* At the end of a pass the map stands at the cursor, and the trimmed watch *)
(* still names whoever moved in the blocks a rewind can reach.              *)
LEMMA CleanFinish ==
    ASSUME ~Finalized, WatchInv, pc = "finish", UNCHANGED <<chainVars, balances>>,
           watch' = WatchAtCursor, WatchFollows
    PROVE  /\ Clean'
           /\ Reachable' <= TipNow /\ balances.cursor > Window
           /\ watch'.hash[2] <= branch
  <1>1. Clean /\ TypeOK /\ ChainTypeOK
    BY DEF WatchInv, Dirty, TypeOK
  <1>2. /\ balances.cursor = run.to /\ run.to <= TipNow /\ run.to > Window
        /\ watchedFrom \in 1..balances.cursor /\ balances.cursor \in Nat
        /\ \A n \in 1..Height : chain[n].branch <= branch
    BY <1>1 DEF WatchInv, Bounds, Running, TypeOK
  <1>3. /\ chain' = chain /\ Height' = Height /\ balances' = balances
        /\ Height \in Nat /\ balances.cursor \in 1..Height
    BY <1>1, <1>2, TipIs DEF chainVars, Height, Clean
  <1>4. /\ watch'.hash = <<balances.cursor, chain[balances.cursor].branch>>
        /\ watch'.recent = Trim(watch.recent, RewindTo)
    BY <1>3 DEF WatchAtCursor, HashAt
  <1>5. watch'.hash # NoHash /\ watch' # FreshWatch
    <2>1. watch'.hash # NoHash
      BY <1>3, <1>4 DEF NoHash
    <2>2. QED
      BY <2>1 DEF FreshWatch
  <1>6. Reachable' = Reachable /\ Reachable \in 1..balances.cursor /\ RewindTo \in 0..Reachable
    <2>1. watchedFrom' = watchedFrom
      BY <1>5 DEF WatchFollows
    <2>2. Reachable' = Reachable
      BY <1>3, <2>1 DEF Reachable, RewindTo
    <2>3. QED
      BY <1>1, <1>2, <2>2, ReachableIs
  <1>7. Reachable' <= TipNow
    <2>1. TipNow \in Nat
      BY <1>1, TipIs
    <2> HIDE DEF Reachable, TipNow
    <2>2. QED
      BY <1>2, <1>6, <2>1
  <1>8. ASSUME NEW a \in Addr
        PROVE  StandsAt(balances.inner[a], a, balances.cursor)'
    <2>1. PICK p \in balances.cursor..Height : StandsAt(balances.inner[a], a, p)
      BY <1>1 DEF Clean
    <2>2. Ahead = balances.cursor
      BY <1>2 DEF Ahead, Running
    <2>3. p = balances.cursor
      BY <1>2, <2>1, <2>2 DEF StandsAt
    <2>4. Fits(balances.inner[a], a, p)'
      BY <1>3, <2>1 DEF StandsAt, Fits, BalanceAt
    <2>5. StandsAt(balances.inner[a], a, p)'
      BY <1>3, <2>3, <2>4 DEF StandsAt
    <2>6. QED
      BY <1>3, <2>3, <2>5 DEF StandsAt, Fits
  <1>9. Covered'
    <2>1. ASSUME NEW n \in (Reachable + 1)..balances.cursor, NEW a \in Addr,
                 chain[n].touch[a] # {}
          PROVE  Recorded(watch'.recent, n, a)
      <3>1. Recorded(watch.recent, n, a)
        BY <1>1, <2>1 DEF Clean, Covered
      <3>2. n \in Nat /\ n >= RewindTo
        <4>1. Reachable \in Nat /\ RewindTo \in Nat /\ RewindTo <= Reachable
          BY <1>2, <1>6
        <4> HIDE DEF Reachable, RewindTo
        <4>2. QED
          BY <1>2, <4>1
      <3>3. watch.recent \in Seq(WatchedChunk) /\ RewindTo \in Nat
        BY <1>1, WatchReads DEF TypeOK
      <3>4. QED
        BY <1>4, <3>1, <3>2, <3>3, TrimKeeps
    <2>2. QED
      BY <1>3, <1>6, <2>1 DEF Covered, Recorded
  <1>10. Clean'
    <2>1. \A a \in Addr : \E p \in balances'.cursor..Height' : StandsAt(balances.inner[a], a, p)'
      <3>1. PICK h : h = balances.cursor
        OBVIOUS
      <3>2. h \in balances'.cursor..Height'
        BY <1>3, <3>1
      <3>3. \A a \in Addr : StandsAt(balances.inner[a], a, h)'
        BY <1>3, <1>8, <3>1 DEF StandsAt, Fits
      <3>4. QED
        BY <3>2, <3>3
    <2>2. balances'.cursor <= Height'
      BY <1>3
    <2>3. QED
      BY <1>9, <2>1, <2>2 DEF Clean
  <1>11. watch'.hash[2] <= branch
    BY <1>2, <1>3, <1>4
  <1>12. QED
    BY <1>2, <1>7, <1>10, <1>11

(* Rewound, the map stands at the new cursor where the watch names the      *)
(* address and elsewhere as far ahead as the watch began; the tip is past   *)
(* it, so that the pass that follows reads up to there.                     *)
LEMMA CleanRewound ==
    ASSUME ~Finalized, WatchInv, watch.hash # NoHash, UNCHANGED chainVars, pc' = "resolve",
           NEW r \in Nat, r = RewindTo, balances'.cursor = r,
           watch' = FreshWatch, WatchFollows,
           \A a \in Stale : Fits(balances.inner[a], a, r)',
           \A a \in Addr \ Stale : balances'.inner[a] = balances.inner[a]
    PROVE  Clean' /\ r >= 1
  <1>1. TypeOK /\ ChainTypeOK
    BY DEF WatchInv, TypeOK
  <1>2. /\ chain' = chain /\ Height' = Height /\ TipNow' = TipNow
        /\ TipNow \in Nat /\ TipNow <= Height /\ Height \in Nat
    BY <1>1, TipIs DEF chainVars, Height, TipNow
  <1>3. /\ Reachable \in 1..balances.cursor /\ r \in 0..Reachable /\ r >= 1
        /\ Reachable <= TipNow
    <2>1. /\ watchedFrom \in 1..balances.cursor /\ balances.cursor > Window
          /\ Reachable <= TipNow
      BY DEF WatchInv, Bounds
    <2>2. QED
      BY <1>1, <2>1, ReachableIs
  <1>4. PICK reach \in Nat : reach = Reachable /\ r <= reach /\ reach <= TipNow
    <2>1. balances.cursor \in Nat
      BY <1>1 DEF TypeOK
    <2> HIDE DEF Reachable
    <2>2. QED
      BY <1>3, <2>1
  <1>5. Ahead' = TipNow
    BY <1>2 DEF Ahead, Running, FreshWatch
  <1>6. ASSUME NEW a \in Addr
        PROVE  \E p \in r..Height : StandsAt(balances.inner[a], a, p)'
    <2>1. CASE a \in Stale
      <3>1. Fits(balances.inner[a], a, r)'
        BY <2>1
      <3>2. StandsAt(balances.inner[a], a, r)'
        BY <3>1 DEF StandsAt
      <3>3. r \in r..Height
        BY <1>2, <1>4
      <3>4. QED
        BY <3>2, <3>3
    <2>2. CASE a \notin Stale
      <3>1. Fits(balances.inner[a], a, Reachable)
        BY <2>2, CleanReach DEF WatchInv, Dirty
      <3>2. Fits(balances.inner[a], a, reach)'
        BY <1>2, <1>4, <2>2, <3>1 DEF Fits, BalanceAt
      <3>3. StandsAt(balances.inner[a], a, reach)'
        BY <1>4, <1>5, <3>2 DEF StandsAt
      <3>4. reach \in r..Height
        BY <1>2, <1>4
      <3>5. QED
        BY <3>3, <3>4
    <2>3. QED
      BY <2>1, <2>2
  <1>7. Covered'
    <2>1. watchedFrom' = balances'.cursor
      BY DEF WatchFollows
    <2>2. \A n \in (Reachable' + 1)..balances'.cursor : FALSE
      BY <2>1, SyncerAssumption DEF Reachable, RewindTo, Minus
    <2>3. QED
      BY <2>2 DEF Covered
  <1>8. balances'.cursor <= Height'
    BY <1>2, <1>4
  <1>9. Clean'
    <2>1. \A a \in Addr : \E p \in balances'.cursor..Height' : StandsAt(balances.inner[a], a, p)'
      BY <1>2, <1>6
    <2>2. QED
      BY <1>7, <1>8, <2>1 DEF Clean
  <1>10. QED
    BY <1>3, <1>9

(* A new block changes nothing below it.                                    *)
LEMMA MineKeeps ==
    ASSUME ChainTypeOK, Mine, ~Finalized
    PROVE  /\ Height' = Height + 1 /\ Height \in Nat /\ branch' = branch
           /\ TipNow' >= TipNow /\ TipNow \in Nat /\ TipNow' \in Nat
           /\ \A n \in 1..Height : chain'[n] = chain[n]
           /\ chain'[Height + 1].branch = branch
  <1>1. PICK touch \in [Addr -> SUBSET Token], bal \in [Addr -> [Token -> 0..MaxBalance]] :
          chain' = Append(chain, [branch |-> branch, touch |-> touch, balance |-> bal])
    BY DEF Mine
  <1>2. [branch |-> branch, touch |-> touch, balance |-> bal] \in Block
    BY <1>1, ChainAssumption DEF Block, Reading, ChainTypeOK
  <1>3. /\ Height' = Height + 1 /\ Height \in Nat
        /\ \A n \in 1..Height : chain'[n] = chain[n]
        /\ chain'[Height + 1].branch = branch
    BY <1>1, <1>2, AppendProperties, MineType, ChainReads DEF ChainTypeOK, Height
  <1>4. TipNow' >= TipNow /\ TipNow \in Nat /\ TipNow' \in Nat
    <2>1. Confirmations \in Nat
      BY SyncerAssumption
    <2>2. TipNow = IF Height >= Confirmations THEN Height - Confirmations ELSE 0
      BY DEF TipNow, Minus
    <2>3. TipNow' = IF Height' >= Confirmations THEN Height' - Confirmations ELSE 0
      BY DEF TipNow, Minus
    <2> HIDE DEF Height, TipNow
    <2>4. QED
      BY <1>3, <2>1, <2>2, <2>3
  <1>5. QED
    BY <1>3, <1>4 DEF Mine

(* A kept watch stays where it began.                                       *)
LEMMA WatchKept ==
    ASSUME WatchInv, UNCHANGED <<balances, watch>>, WatchFollows
    PROVE  /\ watchedFrom' \in 1..balances'.cursor
           /\ watch.hash # NoHash => watchedFrom' = watchedFrom /\ Reachable' = Reachable
  <1>1. watchedFrom \in 1..balances.cursor /\ balances.cursor \in Nat
    BY DEF WatchInv, Bounds, TypeOK
  <1>2. watchedFrom' \in 1..balances'.cursor
    BY <1>1 DEF WatchFollows
  <1>3. watch.hash # NoHash => watchedFrom' = watchedFrom
    BY DEF WatchFollows, FreshWatch
  <1>4. QED
    BY <1>2, <1>3 DEF Reachable, RewindTo

(* The chain grows while the task is suspended.                             *)
LEMMA WatchMine ==
    ASSUME ~Finalized, WatchInv, Mine, UNCHANGED <<syncVars, budget>>, WatchFollows
    PROVE  SeenCurrent' /\ Bounds' /\ (Clean' \/ Dirty')
  <1>1. TypeOK /\ ChainTypeOK /\ balances.cursor \in Nat
    BY DEF WatchInv, TypeOK
  <1>2. /\ Height' = Height + 1 /\ Height \in Nat /\ branch' = branch
        /\ TipNow' >= TipNow /\ TipNow \in Nat /\ TipNow' \in Nat
        /\ \A n \in 1..Height : chain'[n] = chain[n]
        /\ chain'[Height + 1].branch = branch
    BY <1>1, MineKeeps
  <1>3. /\ balances' = balances /\ watch' = watch /\ run' = run /\ seen' = seen
        /\ pc' = pc /\ mode' = mode /\ crashes' = crashes
    BY DEF syncVars, budget
  <1>4. /\ watchedFrom' \in 1..balances'.cursor
        /\ watch.hash # NoHash => watchedFrom' = watchedFrom /\ Reachable' = Reachable
    BY <1>3, WatchKept
  <1>5. /\ Running => run.to <= TipNow /\ run.to \in Nat
        /\ watch.hash # NoHash => Reachable <= TipNow /\ Reachable \in 1..balances.cursor
        /\ TipNow <= Height
    BY <1>1, TipIs, ReachableIs DEF WatchInv, Bounds, TypeOK
  <1>6. Bounds'
    <2>1. Origin <= final'
      <3>1. final' \in final..Height' /\ final \in 1..Height
        BY <1>1, FinalPrefix DEF ChainNext
      <3>2. QED
        BY <1>2, <3>1, ChainAssumption DEF WatchInv, Bounds
    <2>2. \A n \in 1..Height' : chain'[n].branch <= branch'
      <3>1. \A n \in 1..Height : chain[n].branch <= branch
        BY DEF WatchInv, Bounds
      <3>2. branch \in Nat
        BY <1>1 DEF ChainTypeOK
      <3>3. QED
        BY <1>2, <3>1, <3>2
    <2>3. Running' => run'.to <= TipNow' /\ run'.to > Window
      <3>1. Running => run.to > Window
        BY DEF WatchInv, Bounds
      <3> HIDE DEF TipNow
      <3>2. QED
        BY <1>2, <1>3, <1>5, <3>1 DEF Running
    <2>4. watch'.hash # NoHash => /\ mode' = "follow" /\ balances'.cursor > Window
                                 /\ Reachable' <= TipNow' /\ watch'.hash[2] <= branch'
      <3>1. watch.hash # NoHash => /\ mode = "follow" /\ balances.cursor > Window
                                  /\ watch.hash[2] <= branch
        BY DEF WatchInv, Bounds
      <3>2. watch.hash # NoHash => Reachable <= TipNow'
        <4> HIDE DEF Reachable, TipNow
        <4>1. QED
          BY <1>1, <1>2, <1>5
      <3>3. QED
        BY <1>2, <1>3, <1>4, <3>1, <3>2
    <2>5. QED
      BY <1>3, <1>4, <2>1, <2>2, <2>3, <2>4 DEF WatchInv, Bounds
  <1>7. SeenCurrent'
    <2>1. SUFFICES ASSUME pc = "apply"
                   PROVE  SeenIn(run.lo, run.hi)' = SeenIn(run.lo, run.hi)
      BY <1>3 DEF SeenCurrent, WatchInv
    <2>2. run.lo \in Nat /\ run.hi \in Nat /\ run.lo >= 1 /\ run.hi <= Height
      <3>1. run.lo \in Nat /\ run.hi \in Nat /\ run.to \in Nat
        BY <1>1 DEF TypeOK
      <3>2. run.lo \in 1..run.hi /\ run.hi <= run.to /\ run.to <= TipNow
        BY <1>5, <2>1 DEF WatchInv, RunOK, Running
      <3> HIDE DEF TipNow
      <3>3. QED
        BY <1>2, <1>5, <3>1, <3>2
    <2>3. ASSUME NEW a \in Addr, NEW t \in Token
          PROVE  {n \in run.lo..run.hi : n <= Height' /\ t \in chain'[n].touch[a]}
                   = {n \in run.lo..run.hi : n <= Height /\ t \in chain[n].touch[a]}
      <3>1. \A n \in run.lo..run.hi : n <= Height /\ n <= Height' /\ n \in 1..Height
        BY <1>2, <2>2
      <3>2. QED
        BY <1>2, <3>1
    <2>4. QED
      BY <1>3, <2>3 DEF SeenIn, LastTouch
  <1>8. CASE Clean
    <2>1. Ahead' >= Ahead /\ Ahead \in Nat /\ Ahead' \in Nat
      <3>1. Ahead' = IF watch.hash # NoHash THEN balances.cursor
                     ELSE IF Running THEN run.to ELSE TipNow'
        BY <1>3 DEF Ahead, Running
      <3> HIDE DEF TipNow
      <3>2. QED
        BY <1>1, <1>2, <1>5, <3>1 DEF Ahead
    <2>2. ASSUME NEW a \in Addr
          PROVE  \E p \in balances.cursor..Height : StandsAt(balances.inner[a], a, p)'
      <3>1. PICK p \in balances.cursor..Height : StandsAt(balances.inner[a], a, p)
        BY <1>8 DEF Clean
      <3>2. p \in 1..Height /\ p \in Nat
        <4>1. balances.cursor >= 1
          BY <1>1 DEF WatchInv, Bounds
        <4>2. QED
          BY <1>1, <1>2, <4>1
      <3>3. Fits(balances.inner[a], a, p)'
        <4>1. \A n \in 1..p : chain'[n] = chain[n]
          BY <1>2, <3>2
        <4>2. QED
          BY <1>3, <3>1, <3>2, <4>1 DEF StandsAt, Fits, BalanceAt
      <3>4. p = balances'.cursor \/ p <= Ahead'
        <4> HIDE DEF Ahead
        <4>1. QED
          BY <1>3, <2>1, <3>1, <3>2 DEF StandsAt
      <3>5. QED
        BY <3>1, <3>3, <3>4 DEF StandsAt
    <2>3. Covered'
      <3>1. CASE watch = FreshWatch
        <4>1. watchedFrom' = balances'.cursor
          BY <1>3, <3>1 DEF WatchFollows
        <4>2. \A n \in (Reachable' + 1)..balances'.cursor : FALSE
          BY <1>1, <1>3, <4>1, SyncerAssumption DEF Reachable, RewindTo, Minus
        <4>3. QED
          BY <4>2 DEF Covered
      <3>2. CASE watch # FreshWatch
        <4>1. Reachable' = Reachable
          BY <1>3, <3>2 DEF WatchFollows, Reachable, RewindTo
        <4>2. Reachable \in Nat /\ balances.cursor <= Height
          BY <1>1, <1>8, ReachableIs DEF WatchInv, Bounds, Clean
        <4>3. ASSUME NEW n \in (Reachable + 1)..balances.cursor
              PROVE  chain'[n] = chain[n]
          <5> HIDE DEF Reachable
          <5>1. n \in 1..Height
            BY <1>1, <1>2, <4>2
          <5>2. QED
            BY <1>2, <5>1
        <4>4. QED
          BY <1>3, <1>8, <4>1, <4>3 DEF Clean, Covered, Recorded
      <3>3. QED
        BY <3>1, <3>2
    <2>4. Clean'
      <3>1. balances'.cursor <= Height'
        BY <1>1, <1>2, <1>3, <1>8 DEF Clean
      <3>2. \A a \in Addr : \E p \in balances'.cursor..Height' : StandsAt(balances.inner[a], a, p)'
        <4>1. \A p \in balances.cursor..Height : p \in balances'.cursor..Height'
          BY <1>1, <1>2, <1>3
        <4>2. QED
          BY <2>2, <4>1
      <3>3. QED
        BY <2>3, <3>1, <3>2 DEF Clean
    <2>5. QED
      BY <1>6, <1>7, <2>4
  <1>9. CASE Dirty
    <2>1. watch.hash # NoHash /\ Reachable' = Reachable /\ Stale' = Stale
      BY <1>3, <1>4, <1>9 DEF Dirty, Stale
    <2>2. PICK reach \in Nat : reach = Reachable /\ reach \in 1..Height
      <3>1. Reachable \in 1..balances.cursor /\ Reachable <= TipNow
        BY <1>5, <2>1
      <3> HIDE DEF Reachable, TipNow
      <3>2. QED
        BY <1>1, <1>2, <1>5, <3>1
    <2>3. ASSUME NEW a \in Addr \ Stale
          PROVE  Fits(balances.inner[a], a, reach)'
      <3>1. Fits(balances.inner[a], a, reach)
        BY <1>9, <2>2 DEF Dirty
      <3>2. \A n \in 1..reach : chain'[n] = chain[n]
        BY <1>2, <2>2
      <3>3. QED
        BY <1>3, <2>2, <3>1, <3>2 DEF Fits, BalanceAt
    <2>4. Replaced'
      <3>1. CASE watch.hash[1] # balances.cursor
        BY <1>3, <3>1 DEF Replaced
      <3>2. CASE watch.hash[1] = balances.cursor
        <4>1. /\ watch.hash[2] < branch
              /\ balances.cursor <= Height => chain[balances.cursor].branch > watch.hash[2]
          BY <1>9, <3>2 DEF Dirty, Replaced
        <4>2. balances.cursor >= 1
          BY <1>1 DEF WatchInv, Bounds
        <4>3. balances.cursor <= Height' =>
                 chain'[balances.cursor].branch > watch.hash[2]
          <5>1. CASE balances.cursor <= Height
            BY <1>1, <1>2, <4>1, <4>2, <5>1
          <5>2. CASE balances.cursor = Height + 1
            <6>1. branch \in Nat /\ watch.hash[2] \in Nat
              BY <1>1 DEF TypeOK, ChainTypeOK
            <6>2. QED
              BY <1>2, <4>1, <5>2, <6>1
          <5>3. QED
            BY <1>1, <1>2, <5>1, <5>2
        <4>4. QED
          BY <1>2, <1>3, <4>1, <4>3 DEF Replaced
      <3>3. QED
        BY <3>1, <3>2
    <2>5. Dirty'
      <3>1. \A a \in Addr \ Stale' : Fits(balances.inner[a], a, Reachable)'
        BY <2>1, <2>2, <2>3 DEF Fits
      <3>2. QED
        BY <1>3, <1>9, <2>4, <3>1 DEF Dirty
    <2>6. QED
      BY <1>6, <1>7, <2>5
  <1>10. QED
    BY <1>8, <1>9 DEF WatchInv

(* A branch is replaced between two passes, above the block a rewind can    *)
(* reach.                                                                   *)
LEMMA WatchReorg ==
    ASSUME ~Finalized, WatchInv, Reorg, WithinWatch, UNCHANGED <<syncVars, budget>>,
           WatchFollows
    PROVE  SeenCurrent' /\ Bounds' /\ (Clean' \/ Dirty')
  <1>1. TypeOK /\ ChainTypeOK /\ balances.cursor \in Nat
    BY DEF WatchInv, TypeOK
  <1>2. /\ ChainTypeOK' /\ Height' \in final..(Height - 1)
        /\ \A n \in 1..Height' : chain'[n] = chain[n]
    BY <1>1, ReorgType
  <1>3. /\ Height \in Nat /\ Height' \in Nat /\ Height' < Height /\ final' = final
        /\ branch' = branch + 1 /\ branch \in Nat
        /\ \A n \in 1..Height' : n \in 1..Height
    <2>1. Height \in Nat /\ final \in 1..Height
      BY <1>1, ChainReads DEF ChainTypeOK
    <2>2. Height' \in Nat /\ Height' < Height
      <3> HIDE DEF Height
      <3>1. QED
        BY <1>2, <2>1
    <2>3. \A n \in 1..Height' : n \in 1..Height
      <3> HIDE DEF Height
      <3>1. QED
        BY <2>1, <2>2
    <2>4. QED
      BY <1>1, <2>1, <2>2, <2>3 DEF Reorg, ChainTypeOK
  <1>4. pc = "poll" /\ watch.hash # NoHash /\ mode = "follow" /\ TipNow' >= Reachable
    BY <1>3 DEF WithinWatch, Armed
  <1>5. /\ balances' = balances /\ watch' = watch /\ run' = run /\ seen' = seen
        /\ pc' = pc /\ mode' = mode /\ crashes' = crashes
    BY DEF syncVars, budget
  <1>6. /\ watchedFrom' \in 1..balances'.cursor
        /\ watchedFrom' = watchedFrom /\ Reachable' = Reachable
    BY <1>4, <1>5, WatchKept
  <1>7. PICK reach \in Nat : /\ reach = Reachable /\ reach \in 1..balances.cursor
                             /\ reach <= TipNow' /\ reach \in 1..Height'
    <2>1. Reachable \in 1..balances.cursor
      BY <1>1, ReachableIs DEF WatchInv, Bounds
    <2>2. TipNow' \in Nat /\ TipNow' <= Height'
      <3>1. Confirmations \in Nat
        BY SyncerAssumption
      <3>2. PICK h \in Nat : h = Height'
        BY <1>3
      <3>3. TipNow' = IF h >= Confirmations THEN h - Confirmations ELSE 0
        BY <3>2 DEF TipNow, Minus
      <3>4. PICK tip : tip = TipNow'
        OBVIOUS
      <3>5. tip \in Nat /\ tip <= h
        BY <3>1, <3>3, <3>4
      <3>6. QED
        BY <3>2, <3>4, <3>5
    <2> HIDE DEF Reachable, TipNow
    <2>3. QED
      BY <1>1, <1>3, <1>4, <2>1, <2>2
  <1>8. SeenCurrent'
    BY <1>4, <1>5 DEF SeenCurrent
  <1>9. Bounds'
    <2>1. \A n \in 1..Height' : chain'[n].branch <= branch'
      <3>1. \A n \in 1..Height' : chain[n].branch <= branch /\ chain[n].branch \in Nat
        BY <1>1, <1>3, ChainReads DEF WatchInv, Bounds, Block
      <3>2. QED
        BY <1>2, <1>3, <3>1
    <2>2. Reachable' <= TipNow'
      BY <1>6, <1>7
    <2>3. watch'.hash[2] <= branch' /\ balances'.cursor > Window
      <3>1. watch.hash[2] <= branch /\ balances.cursor > Window /\ watch.hash[2] \in Nat
        BY <1>1, <1>4 DEF WatchInv, Bounds, TypeOK
      <3>2. QED
        BY <1>3, <1>5, <3>1
    <2>4. QED
      BY <1>3, <1>4, <1>5, <1>6, <2>1, <2>2, <2>3 DEF WatchInv, Bounds, Running
  <1>10. CASE Clean /\ balances.cursor <= Height'
    <2>1. ASSUME NEW a \in Addr
          PROVE  \E p \in balances.cursor..Height' : StandsAt(balances.inner[a], a, p)'
      <3>1. PICK p \in balances.cursor..Height : StandsAt(balances.inner[a], a, p)
        BY <1>10 DEF Clean
      <3>2. p = balances.cursor /\ p \in 1..Height'
        <4>1. Ahead = balances.cursor
          BY <1>4 DEF Ahead
        <4>2. balances.cursor >= 1 /\ p >= balances.cursor
          BY <1>1, <1>3, <3>1 DEF WatchInv, Bounds
        <4>3. QED
          BY <1>1, <1>3, <1>10, <3>1, <4>1, <4>2 DEF StandsAt
      <3>3. Fits(balances.inner[a], a, p)'
        <4>1. \A n \in 1..p : chain'[n] = chain[n]
          BY <1>2, <1>3, <3>2
        <4>2. QED
          BY <1>5, <3>1, <3>2, <4>1 DEF StandsAt, Fits, BalanceAt
      <3>4. p \in balances.cursor..Height'
        BY <1>1, <1>3, <1>10, <3>2
      <3>5. QED
        BY <1>5, <3>2, <3>3, <3>4 DEF StandsAt
    <2>2. Covered'
      <3>1. ASSUME NEW n \in (reach + 1)..balances.cursor
            PROVE  chain'[n] = chain[n]
        <4>1. n \in 1..Height'
          BY <1>1, <1>3, <1>7, <1>10
        <4>2. QED
          BY <1>2, <4>1
      <3>2. \A n \in (reach + 1)..balances.cursor, a \in Addr :
                chain[n].touch[a] # {} => Recorded(watch.recent, n, a)
        BY <1>7, <1>10 DEF Clean, Covered
      <3>3. QED
        BY <1>5, <1>6, <1>7, <3>1, <3>2 DEF Covered, Recorded
    <2>3. Clean'
      BY <1>5, <1>10, <2>1, <2>2 DEF Clean
    <2>4. QED
      BY <1>8, <1>9, <2>3
  <1>11. CASE Dirty \/ balances.cursor > Height'
    <2>1. ASSUME NEW a \in Addr \ Stale
          PROVE  Fits(balances.inner[a], a, reach)'
      <3>1. Fits(balances.inner[a], a, reach)
        BY <1>4, <1>7, CleanReach DEF WatchInv, Dirty
      <3>2. \A n \in 1..reach : chain'[n] = chain[n]
        BY <1>2, <1>3, <1>7
      <3>3. QED
        BY <1>5, <1>7, <3>1, <3>2 DEF Fits, BalanceAt
    <2>2. watch.hash[2] < branch'
      <3>1. watch.hash[2] <= branch /\ watch.hash[2] \in Nat
        BY <1>1, <1>4 DEF WatchInv, Bounds, TypeOK
      <3>2. QED
        BY <1>3, <3>1
    <2>3. Replaced'
      <3>1. CASE watch.hash[1] # balances.cursor
        BY <1>5, <3>1 DEF Replaced
      <3>2. CASE balances.cursor > Height'
        BY <1>1, <1>3, <1>5, <2>2, <3>2 DEF Replaced
      <3>3. CASE watch.hash[1] = balances.cursor /\ Dirty /\ balances.cursor <= Height'
        <4>1. balances.cursor \in 1..Height' /\ balances.cursor <= Height
          BY <1>1, <1>3, <3>3 DEF WatchInv, Bounds
        <4>2. chain[balances.cursor].branch > watch.hash[2]
          BY <3>3, <4>1 DEF Dirty, Replaced
        <4>3. QED
          BY <1>2, <1>5, <2>2, <4>1, <4>2 DEF Replaced
      <3>4. QED
        BY <1>1, <1>3, <1>11, <3>1, <3>2, <3>3
    <2>4. Dirty'
      <3>1. Stale' = Stale
        BY <1>5 DEF Stale
      <3>2. \A a \in Addr \ Stale' : Fits(balances.inner[a], a, Reachable)'
        BY <1>6, <1>7, <2>1, <3>1 DEF Fits
      <3>3. QED
        BY <1>4, <1>5, <2>3, <3>2 DEF Dirty
    <2>5. QED
      BY <1>8, <1>9, <2>4
  <1>12. QED
    BY <1>1, <1>3, <1>10, <1>11 DEF WatchInv

-------------------------------------------------------------------------------
(* The steps of the task, one lemma for each way they leave map and watch.  *)

(* What a step of the task finds of the chain is what it leaves.            *)
LEMMA ChainStill ==
    ASSUME ~Finalized, WatchInv, UNCHANGED chainVars
    PROVE  /\ Height' = Height /\ TipNow' = TipNow /\ branch' = branch
           /\ TipNow \in Nat /\ TipNow <= Height /\ Height \in Nat
           /\ ChainMoves' /\ Origin <= final'
           /\ \A n \in 1..Height' : chain'[n].branch <= branch'
  <1>1. /\ Height' = Height /\ TipNow' = TipNow /\ branch' = branch /\ chain' = chain
        /\ final' = final
    BY DEF chainVars, Height, TipNow
  <1>2. TipNow \in Nat /\ TipNow <= Height /\ Height \in Nat
    BY TipIs DEF WatchInv, TypeOK
  <1>3. ChainMoves'
    BY <1>1 DEF WatchInv, ChainMoves, BalanceAt
  <1>4. QED
    BY <1>1, <1>2, <1>3 DEF WatchInv, Bounds

(* A pass ends, or is about to ask for the tip, with map and watch as they  *)
(* are.                                                                     *)
LEMMA StillPoll ==
    ASSUME ~Finalized, WatchInv, UNCHANGED <<chainVars, balances, watch, mode, crashes>>,
           WatchFollows, pc' = "poll" \/ (pc' = "resolve" /\ Clean)
    PROVE  ChainMoves' /\ SeenCurrent' /\ Bounds' /\ (Clean' \/ Dirty')
  <1>1. /\ Height' = Height /\ TipNow' = TipNow /\ branch' = branch
        /\ TipNow \in Nat /\ ChainMoves' /\ Origin <= final'
        /\ \A n \in 1..Height' : chain'[n].branch <= branch'
    BY ChainStill
  <1>2. /\ balances' = balances /\ watch' = watch /\ balances.cursor \in Nat
        /\ mode' = mode /\ crashes' = crashes
    BY DEF WatchInv, TypeOK
  <1>3. /\ watchedFrom' \in 1..balances'.cursor
        /\ watch.hash # NoHash => watchedFrom' = watchedFrom /\ Reachable' = Reachable
    BY WatchKept
  <1>4. Bounds' /\ SeenCurrent'
    <2>1. ~Running' /\ pc' \notin {"repair", "logs", "apply", "finish"}
      BY DEF Running
    <2>2. QED
      BY <1>1, <1>2, <1>3, <2>1 DEF WatchInv, Bounds, SeenCurrent
  <1>5. CASE Clean
    <2>1. Ahead \in Nat /\ Ahead' \in Nat /\ Ahead' >= Ahead
      <3>1. Ahead' = IF watch.hash # NoHash THEN balances.cursor ELSE TipNow
        BY <1>1, <1>2 DEF Ahead, Running
      <3>2. Running => run.to <= TipNow /\ run.to \in Nat
        BY DEF WatchInv, Bounds, TypeOK
      <3> HIDE DEF TipNow
      <3>3. QED
        BY <1>1, <1>2, <3>1, <3>2 DEF Ahead
    <2>2. Clean'
      BY <1>5, <2>1, CleanStill
    <2>3. QED
      BY <1>1, <1>4, <2>2
  <1>6. CASE Dirty
    <2>1. CASE pc' = "poll"
      BY <1>1, <1>4, <1>6, <2>1, DirtyStill
    <2>2. QED
      BY <1>5, <2>1
  <1>7. QED
    BY <1>5, <1>6 DEF WatchInv

LEMMA CheckStep ==
    ASSUME ~Finalized, WatchInv, CheckCursorHash, WatchFollows
    PROVE  ChainMoves' /\ SeenCurrent' /\ Bounds' /\ (Clean' \/ Dirty')
  <1>1. /\ UNCHANGED <<chainVars, mode, crashes>> /\ pc = "poll" /\ watch.hash # NoHash
    BY DEF CheckCursorHash, Armed, budget
  <1>2. CASE HashAt(balances.cursor) = watch.hash
    <2>1. pc' = "resolve" /\ UNCHANGED <<balances, watch>>
      BY <1>2 DEF CheckCursorHash
    <2>2. Clean
      <3>1. ASSUME Dirty
            PROVE  FALSE
        <4>1. balances.cursor \in 1..Height
          BY <1>1, <1>2 DEF HashAt
        <4>2. watch.hash[1] = balances.cursor /\ watch.hash[2] = chain[balances.cursor].branch
          BY <1>2, <4>1 DEF HashAt
        <4>3. chain[balances.cursor].branch > watch.hash[2]
          BY <3>1, <4>1, <4>2 DEF Dirty, Replaced
        <4>4. watch.hash[2] \in Nat
          BY DEF WatchInv, TypeOK
        <4>5. QED
          BY <4>2, <4>3, <4>4
      <3>2. QED
        BY <3>1 DEF WatchInv
    <2>3. QED
      BY <1>1, <2>1, <2>2, StillPoll
  <1>3. CASE HashAt(balances.cursor) # watch.hash /\ Stale # {}
    <2>1. pc' = "repair" /\ UNCHANGED <<balances, watch>>
      BY <1>3 DEF CheckCursorHash
    <2>2. /\ Height' = Height /\ TipNow' = TipNow /\ branch' = branch
          /\ TipNow \in Nat /\ ChainMoves' /\ Origin <= final'
          /\ \A n \in 1..Height' : chain'[n].branch <= branch'
      BY <1>1, ChainStill
    <2>3. /\ watchedFrom' \in 1..balances'.cursor
          /\ watchedFrom' = watchedFrom /\ Reachable' = Reachable
      BY <1>1, <2>1, WatchKept
    <2>4. Bounds' /\ SeenCurrent'
      BY <1>1, <2>1, <2>2, <2>3 DEF WatchInv, Bounds, SeenCurrent, Running
    <2>5. CASE Clean
      <3>1. Ahead' = Ahead /\ Ahead \in Nat
        BY <1>1, <2>1 DEF Ahead, WatchInv, TypeOK
      <3>2. Ahead' >= Ahead
        <4> HIDE DEF Ahead
        <4>1. QED
          BY <3>1
      <3>3. Clean'
        BY <1>1, <2>1, <2>5, <3>1, <3>2, CleanStill
      <3>4. QED
        BY <2>2, <2>4, <3>3
    <2>6. CASE Dirty
      BY <1>1, <2>1, <2>2, <2>4, <2>6, DirtyStill
    <2>7. QED
      BY <2>5, <2>6 DEF WatchInv
  <1>4. CASE HashAt(balances.cursor) # watch.hash /\ Stale = {}
    <2>1. pc' = "resolve" /\ watch' = FreshWatch
          /\ balances' = [balances EXCEPT !.cursor = RewindTo]
      BY <1>4 DEF CheckCursorHash
    <2>2. RewindTo \in Nat /\ balances'.cursor = RewindTo /\ balances'.inner = balances.inner
      BY <2>1, WatchReads DEF WatchInv, TypeOK
    <2>3. PICK r \in Nat : r = RewindTo
      BY <2>2
    <2>4. Clean' /\ r >= 1
      BY <1>1, <1>4, <2>1, <2>2, <2>3, CleanRewound
    <2>5. /\ Height' = Height /\ TipNow' = TipNow /\ branch' = branch
          /\ TipNow \in Nat /\ ChainMoves' /\ Origin <= final'
          /\ \A n \in 1..Height' : chain'[n].branch <= branch'
      BY <1>1, ChainStill
    <2>6. watchedFrom' \in 1..balances'.cursor
      BY <2>1, <2>2, <2>3, <2>4 DEF WatchFollows
    <2>7. Bounds' /\ SeenCurrent'
      BY <1>1, <2>1, <2>5, <2>6 DEF WatchInv, Bounds, SeenCurrent, Running, FreshWatch
    <2>8. QED
      BY <2>4, <2>5, <2>7
  <1>5. QED
    BY <1>2, <1>3, <1>4

LEMMA RepairStep ==
    ASSUME ~Finalized, WatchInv, Repair, WatchFollows
    PROVE  ChainMoves' /\ SeenCurrent' /\ Bounds' /\ (Clean' \/ Dirty')
  <1>1. /\ UNCHANGED <<chainVars, mode, crashes>> /\ pc = "repair" /\ watch.hash # NoHash
        /\ pc' = "resolve" /\ watch' = FreshWatch
    BY DEF Repair, budget, WatchInv, Bounds
  <1>2. PICK r \in Nat : r = RewindTo /\ r \in 1..Height
    BY WatchReads DEF Repair, WatchInv
  <1>3. /\ balances'.cursor = r /\ chain' = chain
        /\ balances'.inner = ApplyAll(balances.inner, Stale, BalanceAt(r), NothingSeen)
    BY <1>1, <1>2 DEF Repair, chainVars
  <1>4. BalanceAt(r) \in [Addr -> Reading] /\ NothingSeen \in [Addr -> Touch]
    BY <1>2, ChainReads, WatchReads DEF WatchInv, TypeOK
  <1>5. ASSUME NEW a \in Stale
        PROVE  Fits(balances.inner[a], a, r)'
    <2>1. a \in Addr /\ balances.inner[a] \in Slot
      BY WatchReads DEF WatchInv, TypeOK
    <2>2. balances'.inner[a] = ApplySlot(balances.inner[a], BalanceAt(r)[a], NothingSeen[a])
      BY <1>3, <2>1 DEF ApplyAll
    <2>3. /\ balances'.inner[a] = Absent <=> IsZero(BalanceAt(r)[a])
          /\ balances'.inner[a] # Absent => balances'.inner[a].balance = BalanceAt(r)[a]
      BY <1>4, <2>1, <2>2, ApplySlotExact
    <2>4. QED
      BY <1>3, <2>3 DEF Fits, BalanceAt
  <1>6. \A a \in Addr \ Stale : balances'.inner[a] = balances.inner[a]
    BY <1>3 DEF ApplyAll
  <1>7. Clean' /\ r >= 1
    BY <1>1, <1>2, <1>3, <1>5, <1>6, CleanRewound
  <1>8. /\ Height' = Height /\ TipNow' = TipNow /\ branch' = branch
        /\ TipNow \in Nat /\ ChainMoves' /\ Origin <= final'
        /\ \A n \in 1..Height' : chain'[n].branch <= branch'
    BY <1>1, ChainStill
  <1>9. watchedFrom' \in 1..balances'.cursor
    BY <1>1, <1>2, <1>3, <1>7 DEF WatchFollows
  <1>10. Bounds' /\ SeenCurrent'
    BY <1>1, <1>8, <1>9 DEF WatchInv, Bounds, SeenCurrent, Running, FreshWatch
  <1>11. QED
    BY <1>7, <1>8, <1>10

(* A pass that asks for the tip has found nothing replaced.                 *)
LEMMA ResolvingClean == ASSUME ~Finalized, WatchInv, Resolving PROVE Clean /\ ~Running
  <1>1. ASSUME Dirty
        PROVE  FALSE
    <2>1. pc = "poll" /\ ~Armed
      BY <1>1 DEF Resolving, Dirty
    <2>2. QED
      BY <1>1, <2>1 DEF Armed, Dirty, WatchInv, Bounds
  <1>2. QED
    BY <1>1 DEF WatchInv, Resolving, Running

LEMMA StartStep ==
    ASSUME ~Finalized, Origin > Confirmations + Window, WatchInv, StartSync, WatchFollows
    PROVE  ChainMoves' /\ SeenCurrent' /\ Bounds' /\ (Clean' \/ Dirty')
  <1>1. /\ UNCHANGED <<chainVars, balances, mode, crashes>> /\ pc' = "logs"
        /\ watch' = IF mode = "catchup" THEN FreshWatch ELSE watch
        /\ run' = [lo |-> balances.cursor + 1,
                   hi |-> Smaller(balances.cursor + 1 + Chunk - 1, TipNow),
                   to |-> TipNow, chunk |-> Chunk]
    BY DEF StartSync, budget
  <1>2. /\ Height' = Height /\ TipNow' = TipNow /\ branch' = branch
        /\ TipNow \in Nat /\ Height \in Nat /\ ChainMoves' /\ Origin <= final'
        /\ \A n \in 1..Height' : chain'[n].branch <= branch'
    BY <1>1, ChainStill
  <1>3. Clean /\ ~Running
    BY ResolvingClean DEF StartSync
  <1>4. run'.to = TipNow /\ run'.lo = balances.cursor + 1
    BY <1>1
  <1>5. TipNow > Window
    <2>1. Origin <= Height
      <3>1. final \in 1..Height /\ Origin <= final /\ Origin \in Nat
        BY ChainAssumption DEF WatchInv, TypeOK, ChainTypeOK, Bounds
      <3> HIDE DEF Height
      <3>2. QED
        BY <1>2, <3>1
    <2>2. {Confirmations, Window} \subseteq Nat /\ Origin \in Nat
      BY SyncerAssumption, ChainAssumption
    <2>3. TipNow = IF Height >= Confirmations THEN Height - Confirmations ELSE 0
      BY DEF TipNow, Minus
    <2> HIDE DEF TipNow, Height
    <2>4. QED
      BY <1>2, <2>1, <2>2, <2>3
  <1>6. watch.hash # NoHash => watch' = watch
    BY <1>1 DEF WatchInv, Bounds
  <1>7. watchedFrom' \in 1..balances'.cursor
    <2>1. watchedFrom \in 1..balances.cursor /\ balances.cursor \in Nat
      BY DEF WatchInv, Bounds, TypeOK
    <2>2. QED
      BY <1>1, <2>1 DEF WatchFollows
  <1>8. Bounds' /\ SeenCurrent'
    <2>1. watch'.hash # NoHash => /\ mode' = "follow" /\ balances'.cursor > Window
                                 /\ Reachable' <= TipNow' /\ watch'.hash[2] <= branch'
      <3>1. CASE watch.hash # NoHash
        BY <1>1, <1>2, <1>6, <3>1, WatchKept DEF WatchInv, Bounds
      <3>2. CASE watch.hash = NoHash
        BY <1>1, <3>2 DEF FreshWatch
      <3>3. QED
        BY <3>1, <3>2
    <2>2. QED
      BY <1>1, <1>2, <1>4, <1>5, <1>7, <2>1 DEF WatchInv, Bounds, SeenCurrent, Running
  <1>9. Ahead' = Ahead /\ Ahead \in Nat
    <2>1. Running'
      BY <1>1 DEF Running
    <2>2. balances.cursor \in Nat /\ (watch.hash = NoHash => watch'.hash = NoHash)
      BY <1>1 DEF WatchInv, TypeOK, FreshWatch
    <2>3. QED
      BY <1>1, <1>2, <1>3, <1>4, <1>6, <2>1, <2>2 DEF Ahead
  <1>10. Clean'
    <2>1. Ahead' >= Ahead /\ Ahead' \in Nat
      <3> HIDE DEF Ahead
      <3>1. QED
        BY <1>9
    <2>2. QED
      BY <1>1, <1>3, <1>9, <2>1, CleanStill
  <1>11. QED
    BY <1>2, <1>8, <1>10

(* The watch begins anew between passes.                                    *)
LEMMA FreshStep ==
    ASSUME ~Finalized, WatchInv, Clean, UNCHANGED <<chainVars, balances, crashes>>,
           watch.hash = NoHash, watch' = FreshWatch, pc' = "poll", WatchFollows
    PROVE  ChainMoves' /\ SeenCurrent' /\ Bounds' /\ (Clean' \/ Dirty')
  <1>1. /\ Height' = Height /\ TipNow' = TipNow /\ branch' = branch
        /\ TipNow \in Nat /\ ChainMoves' /\ Origin <= final'
        /\ \A n \in 1..Height' : chain'[n].branch <= branch'
    BY ChainStill
  <1>2. /\ watchedFrom' \in 1..balances'.cursor /\ watch'.hash = NoHash
        /\ crashes' = crashes /\ ~Running'
    <2>1. watchedFrom \in 1..balances.cursor /\ balances.cursor \in Nat
      BY DEF WatchInv, Bounds, TypeOK
    <2>2. QED
      BY <2>1 DEF WatchFollows, FreshWatch, Running
  <1>3. Bounds' /\ SeenCurrent'
    BY <1>1, <1>2 DEF WatchInv, Bounds, SeenCurrent, Running
  <1>4. Ahead \in Nat /\ Ahead' \in Nat /\ Ahead' >= Ahead
    <2>1. Ahead' = TipNow
      BY <1>1, <1>2 DEF Ahead
    <2>2. Running => run.to <= TipNow /\ run.to \in Nat
      BY DEF WatchInv, Bounds, TypeOK
    <2>3. Ahead = IF Running THEN run.to ELSE TipNow
      BY DEF Ahead
    <2> HIDE DEF TipNow, Ahead
    <2>4. QED
      BY <1>1, <2>1, <2>2, <2>3
  <1>5. Clean'
    BY <1>4, CleanStill
  <1>6. QED
    BY <1>1, <1>3, <1>5

LEMMA AtTipStep ==
    ASSUME ~Finalized, WatchInv, AtTip, WatchFollows
    PROVE  ChainMoves' /\ SeenCurrent' /\ Bounds' /\ (Clean' \/ Dirty')
  <1>1. UNCHANGED <<chainVars, balances, crashes>> /\ pc' = "poll" /\ Clean
    BY ResolvingClean DEF AtTip, budget
  <1>2. CASE mode = "catchup"
    <2>1. watch' = FreshWatch /\ watch.hash = NoHash
      BY <1>2 DEF AtTip, Spawned, WatchInv, Bounds
    <2>2. QED
      BY <1>1, <2>1, FreshStep
  <1>3. CASE mode # "catchup"
    <2>1. UNCHANGED <<mode, watch>>
      BY <1>3 DEF AtTip
    <2>2. QED
      BY <1>1, <2>1, StillPoll
  <1>4. QED
    BY <1>2, <1>3

(* Between two awaits of a pass the logs are read or the range narrowed.    *)
LEMMA LogsStep ==
    ASSUME ~Finalized, WatchInv, FetchLogs \/ NarrowRange, WatchFollows
    PROVE  ChainMoves' /\ SeenCurrent' /\ Bounds' /\ (Clean' \/ Dirty')
  <1>1. /\ UNCHANGED <<chainVars, balances, watch, mode, crashes>>
        /\ pc = "logs" /\ pc' \in {"logs", "apply"}
        /\ run'.to = run.to /\ run'.lo = run.lo
    <2>1. CASE FetchLogs
      BY <2>1 DEF FetchLogs, budget
    <2>2. CASE NarrowRange
      BY <2>2, NarrowRun DEF NarrowRange, RunType, WatchInv, TypeOK, RunOK, budget
    <2>3. QED
      BY <2>1, <2>2
  <1>2. /\ Height' = Height /\ TipNow' = TipNow /\ branch' = branch
        /\ TipNow \in Nat /\ ChainMoves' /\ Origin <= final'
        /\ \A n \in 1..Height' : chain'[n].branch <= branch'
    BY <1>1, ChainStill
  <1>3. /\ watchedFrom' \in 1..balances'.cursor
        /\ watch.hash # NoHash => watchedFrom' = watchedFrom /\ Reachable' = Reachable
    BY <1>1, WatchKept
  <1>4. Bounds'
    BY <1>1, <1>2, <1>3 DEF WatchInv, Bounds, Running
  <1>5. SeenCurrent'
    <2>1. CASE FetchLogs
      <3>1. seen' = SeenIn(run.lo, run.hi) /\ run' = run /\ chain' = chain
        BY <2>1 DEF FetchLogs, chainVars
      <3>2. QED
        BY <3>1 DEF SeenCurrent, SeenIn, LastTouch, Height
    <2>2. CASE NarrowRange
      BY <1>1, <2>2 DEF NarrowRange, SeenCurrent
    <2>3. QED
      BY <2>1, <2>2
  <1>6. Clean
    BY <1>1 DEF WatchInv, Dirty
  <1>7. Ahead' = Ahead /\ Ahead \in Nat
    BY <1>1 DEF Ahead, Running, WatchInv, TypeOK
  <1>8. Ahead' >= Ahead
    <2> HIDE DEF Ahead
    <2>1. QED
      BY <1>7
  <1>9. Clean'
    BY <1>1, <1>6, <1>7, <1>8, CleanStill
  <1>10. QED
    BY <1>2, <1>4, <1>5, <1>9

(* A chunk is folded in, and its save may fail.                             *)
LEMMA ChunkStep ==
    ASSUME ~Finalized, WatchInv, ApplyChunk \/ ChunkSaveFails, TypeOK', WatchFollows
    PROVE  ChainMoves' /\ SeenCurrent' /\ Bounds' /\ (Clean' \/ Dirty')
  <1>1. ChunkApplied /\ pc = "apply" /\ UNCHANGED <<chainVars, mode, crashes>>
    BY DEF ApplyChunk, ChunkSaveFails, ChunkApplied, budget
  <1>2. /\ pc' \in {"logs", "finish", "poll"}
        /\ pc' = "logs" => run'.to = run.to /\ run'.lo = run.hi + 1
        /\ pc' = "finish" => run'.to = run.to /\ run.hi = run.to
    <2>1. CASE ApplyChunk
      <3>1. /\ run \in RunType /\ run.lo \in 1..run.hi /\ run.hi <= run.to /\ AfterChunk
            /\ run.hi \in Nat /\ run.to \in Nat
        BY <1>1, <2>1 DEF ApplyChunk, RunType, WatchInv, TypeOK, RunOK
      <3>2. /\ pc' \in {"logs", "finish"}
            /\ pc' = "logs" => run'.to = run.to /\ run'.lo = run.hi + 1
        BY <3>1, AfterChunkRun
      <3>3. pc' = "finish" => run' = run /\ run.hi = run.to
        BY <3>1 DEF AfterChunk
      <3>4. QED
        BY <3>2, <3>3
    <2>2. CASE ChunkSaveFails
      BY <2>2 DEF ChunkSaveFails, GiveUp
    <2>3. QED
      BY <2>1, <2>2
  <1>3. /\ Height' = Height /\ TipNow' = TipNow /\ branch' = branch
        /\ TipNow \in Nat /\ TipNow <= Height /\ ChainMoves' /\ Origin <= final'
        /\ \A n \in 1..Height' : chain'[n].branch <= branch'
    BY <1>1, ChainStill
  <1>4. /\ run.to <= TipNow /\ run.to > Window /\ run.to \in Nat /\ run.hi \in Nat
        /\ balances.cursor \in Nat /\ watchedFrom \in 1..balances.cursor
        /\ watch'.hash = watch.hash
    BY <1>1 DEF WatchInv, Bounds, Running, TypeOK, ChunkApplied
  <1>5. /\ Ahead' \in Nat
        /\ watch.hash = NoHash => Ahead' >= Ahead
    <2>1. Ahead' = IF watch.hash # NoHash THEN balances'.cursor
                   ELSE IF pc' = "poll" THEN TipNow ELSE run.to
      BY <1>2, <1>3, <1>4 DEF Ahead, Running
    <2>2. balances'.cursor \in Nat
      BY DEF TypeOK
    <2>3. watch.hash = NoHash => Ahead = run.to
      BY <1>1 DEF Ahead, Running
    <2> HIDE DEF Ahead, TipNow
    <2>4. QED
      BY <1>3, <1>4, <2>1, <2>2, <2>3
  <1>6. Clean' /\ balances'.cursor = run.hi /\ run.hi \in (balances.cursor + 1)..run.to
    BY <1>1, <1>5, CleanChunk
  <1>7. watchedFrom' \in 1..balances'.cursor
    BY <1>4, <1>6 DEF WatchFollows
  <1>8. Reachable' \in 1..balances'.cursor
    <2>1. balances'.cursor \in Nat /\ Window \in Nat
      BY <1>4, <1>6, SyncerAssumption
    <2>2. PICK w : w = RewindTo' /\ w = IF balances'.cursor >= Window
                                          THEN balances'.cursor - Window ELSE 0
      BY DEF RewindTo, Minus
    <2>3. Reachable' = IF watchedFrom' > w THEN watchedFrom' ELSE w
      BY <2>2 DEF Reachable
    <2>4. QED
      BY <1>7, <2>1, <2>2, <2>3
  <1>9. Bounds'
    <2>1. Reachable' <= TipNow'
      <3>1. PICK reach : reach = Reachable' /\ reach \in 1..run.hi
        BY <1>6, <1>8
      <3>2. run.hi <= run.to
        BY <1>4, <1>6
      <3> HIDE DEF TipNow
      <3>3. reach <= TipNow
        BY <1>3, <1>4, <3>1, <3>2
      <3>4. QED
        BY <1>3, <3>1, <3>3
    <2>2. watch.hash # NoHash => balances'.cursor > Window
      <3>1. watch.hash # NoHash => balances.cursor > Window
        BY DEF WatchInv, Bounds
      <3>2. QED
        BY <1>4, <1>6, <3>1, SyncerAssumption
    <2>3. QED
      BY <1>1, <1>2, <1>3, <1>4, <1>6, <1>7, <2>1, <2>2 DEF WatchInv, Bounds, Running
  <1>10. SeenCurrent'
    BY <1>2 DEF SeenCurrent
  <1>11. QED
    BY <1>3, <1>6, <1>9, <1>10

(* A pass that has folded in its last chunk ends, well or with an error.    *)
LEMMA FinishStep ==
    ASSUME ~Finalized, WatchInv, FinishPass \/ FinishCatchUp \/ HashFails \/ FinalSaveFails,
           WatchFollows
    PROVE  ChainMoves' /\ SeenCurrent' /\ Bounds' /\ (Clean' \/ Dirty')
  <1>1. /\ pc = "finish" /\ pc' = "poll" /\ balances' = Pruned
        /\ UNCHANGED <<chainVars, crashes>>
        /\ \/ watch' = WatchAtCursor /\ mode' = mode /\ mode = "follow"
           \/ watch' = watch /\ mode' = mode
           \/ watch' = FreshWatch /\ mode = "catchup"
    BY DEF FinishPass, FinishCatchUp, HashFails, FinalSaveFails, Spawned, GiveUp, budget
  <1>2. Clean
    BY <1>1 DEF WatchInv, Dirty
  <1>3. balances' = balances
    BY <1>1, <1>2, CleanPruned DEF WatchInv
  <1>4. CASE watch' = WatchAtCursor /\ mode' = mode /\ mode = "follow"
    <2>1. /\ Clean' /\ Reachable' <= TipNow /\ balances.cursor > Window
          /\ watch'.hash[2] <= branch
      BY <1>1, <1>3, <1>4, CleanFinish
    <2>2. /\ Height' = Height /\ TipNow' = TipNow /\ branch' = branch
          /\ ChainMoves' /\ Origin <= final'
          /\ \A n \in 1..Height' : chain'[n].branch <= branch'
      BY <1>1, ChainStill
    <2>3. watchedFrom' \in 1..balances'.cursor
      <3>1. watchedFrom \in 1..balances.cursor /\ balances.cursor \in Nat
        BY DEF WatchInv, Bounds, TypeOK
      <3>2. QED
        BY <1>3, <3>1 DEF WatchFollows
    <2>4. Bounds' /\ SeenCurrent'
      BY <1>1, <1>3, <1>4, <2>1, <2>2, <2>3 DEF WatchInv, Bounds, SeenCurrent, Running
    <2>5. QED
      BY <2>1, <2>2, <2>4
  <1>5. CASE watch' = watch /\ mode' = mode
    BY <1>1, <1>3, <1>5, StillPoll
  <1>6. CASE watch' = FreshWatch /\ mode = "catchup"
    <2>1. watch.hash = NoHash
      BY <1>6 DEF WatchInv, Bounds
    <2>2. QED
      BY <1>1, <1>2, <1>3, <1>6, <2>1, FreshStep
  <1>7. QED
    BY <1>1, <1>4, <1>5, <1>6

-------------------------------------------------------------------------------
(* The invariant. *)

LEMMA WatchStart == ASSUME ~Finalized, WatchInit PROVE WatchInv
  <1>1. /\ TypeOK /\ RunOK /\ ChainMoves /\ SeenCurrent /\ MapExact
        /\ Init /\ watchedFrom = balances.cursor
    BY FinalInit DEF WatchInit, FinalInv
  <1>2. /\ balances.cursor = Origin /\ final = Origin /\ branch = 1 /\ crashes = 0
        /\ pc = "poll" /\ watch = FreshWatch /\ Origin \in Nat /\ Origin >= 1
    BY <1>1, ChainAssumption DEF Init, ChainInit
  <1>3. /\ Height \in Nat /\ balances.cursor \in 1..Height
        /\ \A n \in 1..Height : chain[n].branch <= branch
    <2>1. PICK start \in [Addr -> [Token -> 0..MaxBalance]] :
            chain = [n \in 1..Origin |->
                       [branch |-> 1, touch |-> [a \in Addr |-> {}], balance |-> start]]
      BY <1>1 DEF Init, ChainInit
    <2>2. [branch |-> 1, touch |-> [a \in Addr |-> {}], balance |-> start] \in Block
      BY <2>1, ChainAssumption DEF Block, Reading
    <2>3. chain \in [1..Origin -> Block]
      BY <2>1, <2>2
    <2>4. Height = Origin
      BY <2>3, ChainAssumption, IsASeq, LenProperties DEF Height
    <2>5. \A n \in 1..Origin : chain[n].branch = 1
      BY <2>1
    <2>6. QED
      BY <1>2, <2>4, <2>5
  <1>4. Bounds
    BY <1>1, <1>2, <1>3 DEF Bounds, Running, FreshWatch
  <1>5. ASSUME NEW a \in Addr
        PROVE  \E p \in balances.cursor..Height : StandsAt(balances.inner[a], a, p)
    <2>1. Fits(balances.inner[a], a, balances.cursor)
      BY <1>1 DEF MapExact, Exact, SlotExact, Fits
    <2>2. StandsAt(balances.inner[a], a, balances.cursor)
      BY <2>1 DEF StandsAt
    <2>3. balances.cursor \in balances.cursor..Height
      BY <1>2, <1>3
    <2>4. QED
      BY <2>2, <2>3
  <1>6. Covered
    <2>1. \A n \in (Reachable + 1)..balances.cursor : FALSE
      BY <1>1, <1>2, SyncerAssumption DEF Reachable, RewindTo, Minus
    <2>2. QED
      BY <2>1 DEF Covered
  <1>7. Clean
    BY <1>2, <1>3, <1>5, <1>6 DEF Clean
  <1>8. QED
    BY <1>1, <1>4, <1>7 DEF WatchInv

LEMMA WatchStep ==
    ASSUME ~Finalized, MaxCrashes = 0, Origin > Confirmations + Window,
           WatchInv, [WatchNext]_watchVars
    PROVE  WatchInv'
  <1>1. TypeOK' /\ RunOK'
    BY TypeStep DEF WatchInv, WatchNext, watchVars
  <1>2. CASE WatchNext
    <2>1. Next /\ WithinWatch /\ WatchFollows
      BY <1>2 DEF WatchNext, WatchFollows
    <2>2. CASE CheckCursorHash
      BY <1>1, <2>1, <2>2, CheckStep DEF WatchInv
    <2>3. CASE Repair
      BY <1>1, <2>1, <2>3, RepairStep DEF WatchInv
    <2>4. CASE StartSync
      BY <1>1, <2>1, <2>4, StartStep DEF WatchInv
    <2>5. CASE AtTip
      BY <1>1, <2>1, <2>5, AtTipStep DEF WatchInv
    <2>6. CASE FetchLogs \/ NarrowRange
      BY <1>1, <2>1, <2>6, LogsStep DEF WatchInv
    <2>7. CASE ApplyChunk \/ ChunkSaveFails
      BY <1>1, <2>1, <2>7, ChunkStep DEF WatchInv
    <2>8. CASE FinishPass \/ FinishCatchUp \/ HashFails \/ FinalSaveFails
      BY <1>1, <2>1, <2>8, FinishStep DEF WatchInv
    <2>9. CASE BlockMissing \/ RpcFails
      <3>1. /\ UNCHANGED <<chainVars, balances, watch, mode, crashes>> /\ pc' = "poll"
        BY <2>9 DEF BlockMissing, RpcFails, GiveUp, budget
      <3>2. QED
        BY <1>1, <2>1, <3>1, StillPoll DEF WatchInv
    <2>10. CASE Restart
      <3>1. crashes < 0 /\ crashes = 0
        BY <2>10 DEF Restart, WatchInv, Bounds
      <3>2. QED
        BY <3>1
    <2>11. CASE Environment
      <3>1. ChainNext /\ UNCHANGED <<syncVars, budget>> /\ ChainMoves'
        BY <2>11, ChainMovesKept DEF Environment, WatchInv, TypeOK
      <3>2. SeenCurrent' /\ Bounds' /\ (Clean' \/ Dirty')
        BY <2>1, <3>1, WatchMine, WatchReorg DEF ChainNext
      <3>3. QED
        BY <1>1, <3>1, <3>2 DEF WatchInv
    <2>12. QED
      BY <2>1, <2>2, <2>3, <2>4, <2>5, <2>6, <2>7, <2>8, <2>9, <2>10, <2>11
      DEF Next, Step, Fault
  <1>3. CASE UNCHANGED watchVars
    <2>1. /\ UNCHANGED <<chainVars, balances, watch, run, seen, mode, pc, crashes>>
          /\ watchedFrom' = watchedFrom
      BY <1>3 DEF watchVars, vars, syncVars, budget
    <2>2. /\ ChainMoves' /\ SeenCurrent' /\ Bounds'
      BY <2>1 DEF WatchInv, Bounds, ChainMoves, SeenCurrent, SeenIn, LastTouch, Height,
                  BalanceAt, TipNow, Reachable, RewindTo, Running, chainVars
    <2>3. Clean' <=> Clean
      BY <2>1 DEF Clean, Covered, Recorded, StandsAt, Ahead, Running, Fits, Height,
                  BalanceAt, TipNow, Reachable, RewindTo, chainVars
    <2>4. Dirty' <=> Dirty
      BY <2>1 DEF Dirty, Replaced, Fits, Stale, Height, BalanceAt, Reachable, RewindTo,
                  chainVars
    <2>5. QED
      BY <1>1, <2>2, <2>3, <2>4 DEF WatchInv
  <1>4. QED
    BY <1>2, <1>3

(* A stored hash that still holds is one of a map nothing was replaced in.  *)
LEMMA HoldingIsClean == ASSUME WatchInv, HashHolds PROVE Clean
  <1>1. ASSUME Dirty
        PROVE  FALSE
    <2>1. balances.cursor \in 1..Height
      BY DEF HashHolds, HashAt
    <2>2. watch.hash[1] = balances.cursor /\ watch.hash[2] = chain[balances.cursor].branch
      BY <2>1 DEF HashHolds, HashAt
    <2>3. chain[balances.cursor].branch > watch.hash[2] /\ watch.hash[2] \in Nat
      BY <1>1, <2>1, <2>2 DEF Dirty, Replaced, WatchInv, TypeOK
    <2>4. QED
      BY <2>2, <2>3
  <1>2. QED
    BY <1>1 DEF WatchInv

(* Whatever fails, and however often blocks above the reachable one are     *)
(* replaced between passes: while block `cursor` has the hash that          *)
(* store_cursor_hash kept, the map is the chain at the cursor.              *)
THEOREM ReorgHashVouches ==
    ASSUME ~Finalized, MaxCrashes = 0, Origin > Confirmations + Window
    PROVE  WatchSpec => []HashVouches
  <1>1. WatchInit => WatchInv
    BY WatchStart
  <1>2. WatchInv /\ [WatchNext]_watchVars => WatchInv'
    BY WatchStep
  <1>3. ASSUME WatchInv
        PROVE  HashVouches
    <2>1. SUFFICES ASSUME HashHolds
                   PROVE  Exact(balances)
      BY DEF HashVouches
    <2>2. Clean /\ watch.hash # NoHash /\ balances.cursor \in 1..Height
      BY <1>3, <2>1, HoldingIsClean DEF HashHolds, HashAt
    <2>3. ASSUME NEW a \in Addr
          PROVE  SlotExact(balances, a)
      <3>1. PICK p \in balances.cursor..Height : StandsAt(balances.inner[a], a, p)
        BY <2>2 DEF Clean
      <3>2. p = balances.cursor
        <4>1. balances.cursor \in Nat /\ Height \in Nat
          BY <1>3, ChainReads DEF WatchInv, TypeOK
        <4>2. QED
          BY <2>2, <3>1, <4>1 DEF StandsAt, Ahead
      <3>3. QED
        BY <3>1, <3>2 DEF StandsAt, Fits, SlotExact
    <2>4. QED
      BY <2>2, <2>3 DEF Exact
  <1>4. QED
    BY <1>1, <1>2, <1>3, PTL DEF WatchSpec

(* The watch never forgets an address a repair would have to read again:    *)
(* neither trim, nor a chunk across the window's edge, nor a failed pass.   *)
THEOREM ReorgWatchCovers ==
    ASSUME ~Finalized, MaxCrashes = 0, Origin > Confirmations + Window
    PROVE  WatchSpec => []WatchCoversWindow
  <1>1. WatchInit => WatchInv
    BY WatchStart
  <1>2. WatchInv /\ [WatchNext]_watchVars => WatchInv'
    BY WatchStep
  <1>3. ASSUME WatchInv
        PROVE  WatchCoversWindow
    <2>1. HashHolds => Covered
      BY <1>3, HoldingIsClean DEF Clean
    <2>2. QED
      BY <2>1 DEF WatchCoversWindow, Covered, Recorded, Stale
  <1>4. QED
    BY <1>1, <1>2, <1>3, PTL DEF WatchSpec

-------------------------------------------------------------------------------
(* What holds of every run of WatchSpec, whatever the tip policy and        *)
(* however often the process restarts.                                      *)

NoZeros(m) == \A a \in Addr : m.inner[a] # Absent => ~IsZero(m.inner[a].balance)

(* A pass works on the blocks after the cursor and never above the tip: no  *)
(* block is replaced under it.                                              *)
Steady ==
    /\ TypeOK /\ RunOK
    /\ Running => run.to <= TipNow
    /\ pc \in {"logs", "apply"} => run.lo = balances.cursor + 1
    /\ NoZeros(balances) /\ NoZeros(snapshot)

LEMMA TipRises ==
    ASSUME ChainTypeOK, ChainNext, WithinWatch, pc # "poll"
    PROVE  TipNow' >= TipNow /\ TipNow \in Nat /\ TipNow' \in Nat
  <1>1. Height \in Nat /\ final \in 1..Height /\ Confirmations \in Nat
    BY ChainReads, SyncerAssumption DEF ChainTypeOK
  <1>2. Height' \in Nat /\ Height' >= Height /\ final' \in Nat /\ final' >= final
    <2>1. CASE Mine
      <3>1. ChainTypeOK' /\ Height' = Height + 1
        BY <2>1, MineType
      <3>2. final' \in 1..Height' /\ FinalityLag \in Nat
        BY <3>1, ChainAssumption DEF ChainTypeOK
      <3>3. final' = IF Height + 1 >= final + FinalityLag THEN Height + 1 - FinalityLag
                     ELSE final
        BY <2>1 DEF Mine
      <3> HIDE DEF Height
      <3>4. QED
        BY <1>1, <3>1, <3>2, <3>3
    <2>2. CASE Reorg
      <3>1. Height' \in final..(Height - 1)
        BY <2>2, ReorgType
      <3>2. Height' < Height
        BY <1>1, <3>1
      <3>3. QED
        BY <3>2 DEF WithinWatch
    <2>3. QED
      BY <2>1, <2>2 DEF ChainNext
  <1>3. CASE Finalized
    BY <1>1, <1>2, <1>3 DEF TipNow
  <1>4. CASE ~Finalized
    <2>1. \A low \in Nat : \A high \in Nat : low <= high =>
            /\ Minus(low, Confirmations) <= Minus(high, Confirmations)
            /\ Minus(low, Confirmations) \in Nat /\ Minus(high, Confirmations) \in Nat
      BY <1>1 DEF Minus
    <2>2. TipNow = Minus(Height, Confirmations) /\ TipNow' = Minus(Height', Confirmations)
      BY <1>4 DEF TipNow
    <2>3. /\ Minus(Height, Confirmations) <= Minus(Height', Confirmations)
          /\ Minus(Height, Confirmations) \in Nat /\ Minus(Height', Confirmations) \in Nat
      BY <1>1, <1>2, <2>1
    <2>4. QED
      BY <2>2, <2>3
  <1>5. QED
    BY <1>3, <1>4

LEMMA ApplyAllNoZeros ==
    ASSUME NEW inner \in [Addr -> Slot], NEW touched \in SUBSET Addr,
           NEW readings \in [Addr -> Reading], NEW touch \in [Addr -> Touch],
           \A a \in Addr : inner[a] # Absent => ~IsZero(inner[a].balance)
    PROVE  \A a \in Addr : ApplyAll(inner, touched, readings, touch)[a] # Absent =>
               ~IsZero(ApplyAll(inner, touched, readings, touch)[a].balance)
  <1>1. ASSUME NEW a \in touched, ApplySlot(inner[a], readings[a], touch[a]) # Absent
        PROVE  ~IsZero(ApplySlot(inner[a], readings[a], touch[a]).balance)
    <2>1. inner[a] \in Slot /\ readings[a] \in Reading /\ touch[a] \in Touch
      OBVIOUS
    <2>2. /\ ~IsZero(readings[a])
          /\ ApplySlot(inner[a], readings[a], touch[a]).balance = readings[a]
      BY <1>1, <2>1, ApplySlotExact
    <2>3. QED
      BY <2>2
  <1>2. QED
    BY <1>1 DEF ApplyAll

LEMMA SteadyPruned == ASSUME Steady PROVE Pruned = balances
  <1>1. PruneZero(balances.inner, inserted) = balances.inner
    BY PruneZeroKeeps DEF Steady, NoZeros, TypeOK
  <1>2. QED
    BY <1>1 DEF Pruned, Steady, TypeOK

(* A chunk of a running pass is read at its end, which is there.            *)
LEMMA SteadyChunk ==
    ASSUME Steady, ChunkApplied
    PROVE  /\ NoZeros(balances') /\ balances'.cursor = run.hi
           /\ run.hi \in Nat /\ run.lo = balances.cursor + 1 /\ run.lo <= run.hi
  <1> DEFINE at == IF Touched = {} THEN NothingSeen ELSE BalanceAt(run.hi)
  <1>1. /\ pc = "apply" /\ TypeOK /\ RunOK
        /\ balances' = [inner  |-> ApplyAll(balances.inner, Touched, at, seen),
                        cursor |-> run.hi]
    BY DEF ChunkApplied, Steady
  <1>2. /\ run.hi \in Nat /\ run.lo \in 1..run.hi /\ run.lo = balances.cursor + 1
        /\ run.lo <= run.hi /\ run.hi \in 1..run.hi
    <2>1. run.hi \in Nat /\ run.lo \in 1..run.hi /\ run.lo = balances.cursor + 1
      BY <1>1 DEF RunOK, TypeOK, Steady
    <2>2. QED
      BY <2>1
  <1>3. at \in [Addr -> Reading]
    <2>1. Height \in Nat
      BY <1>1, ChainReads DEF TypeOK
    <2>2. Touched # {} => run.hi \in 1..Height
      BY <1>2, <2>1 DEF ChunkApplied
    <2>3. NothingSeen \in [Addr -> Reading]
      BY <1>1, WatchReads DEF Touch, Reading
    <2>4. Touched # {} => BalanceAt(run.hi) \in [Addr -> Reading]
      BY <1>1, <2>2, ChainReads DEF TypeOK
    <2>5. QED
      BY <2>3, <2>4
  <1> HIDE DEF at
  <1>4. NoZeros(balances')
    <2>1. /\ balances.inner \in [Addr -> Slot] /\ seen \in [Addr -> Touch]
          /\ Touched \in SUBSET Addr
          /\ \A a \in Addr : balances.inner[a] # Absent => ~IsZero(balances.inner[a].balance)
      BY <1>1 DEF TypeOK, Touched, Steady, NoZeros
    <2>2. \A a \in Addr : ApplyAll(balances.inner, Touched, at, seen)[a] # Absent =>
            ~IsZero(ApplyAll(balances.inner, Touched, at, seen)[a].balance)
      BY <1>3, <2>1, ApplyAllNoZeros
    <2>3. QED
      BY <1>1, <2>2 DEF NoZeros
  <1>5. QED
    BY <1>1, <1>2, <1>4

LEMMA SteadyVars == ASSUME Steady, UNCHANGED vars PROVE Steady'
  <1>1. TypeOK' /\ RunOK'
    BY TypeStep DEF Steady
  <1>2. TipNow' = TipNow
    BY DEF vars, chainVars, TipNow, Height
  <1>3. QED
    BY <1>1, <1>2 DEF Steady, Running, NoZeros, vars, syncVars

LEMMA SteadyStep ==
    ASSUME Steady, Next, WithinWatch
    PROVE  Steady'
  <1>1. TypeOK' /\ RunOK'
    BY TypeStep DEF Steady
  <1>2. UNCHANGED chainVars => TipNow' = TipNow
    BY DEF chainVars, TipNow, Height
  <1>3. ASSUME UNCHANGED chainVars, NoZeros(balances'),
               snapshot' \in {snapshot, balances'} , pc' \in {"poll", "repair", "resolve"}
        PROVE  Steady'
    BY <1>1, <1>3 DEF Steady, Running
  <1>4. ASSUME Pruned = balances
        PROVE  balances' = Pruned => NoZeros(balances')
    BY <1>4 DEF Steady
  <1>5. CASE CheckCursorHash \/ AtTip \/ BlockMissing \/ RpcFails
    <2>1. /\ UNCHANGED chainVars /\ balances'.inner = balances.inner
          /\ pc' \in {"poll", "repair", "resolve"} /\ snapshot' \in {snapshot, balances'}
      BY <1>5 DEF CheckCursorHash, AtTip, BlockMissing, RpcFails, GiveUp, Steady, TypeOK
    <2>2. QED
      BY <1>3, <2>1 DEF Steady, NoZeros
  <1>6. CASE Repair
    <2>1. /\ UNCHANGED <<chainVars, snapshot>> /\ pc' = "resolve" /\ RewindTo \in 1..Height
          /\ balances'.inner
               = ApplyAll(balances.inner, Stale, BalanceAt(RewindTo), NothingSeen)
      BY <1>6 DEF Repair
    <2>2. /\ balances.inner \in [Addr -> Slot] /\ NothingSeen \in [Addr -> Touch]
          /\ Stale \in SUBSET Addr /\ BalanceAt(RewindTo) \in [Addr -> Reading]
      BY <2>1, ChainReads, WatchReads DEF Steady, TypeOK
    <2>3. NoZeros(balances')
      BY <2>1, <2>2, ApplyAllNoZeros DEF NoZeros, Steady
    <2>4. QED
      BY <1>3, <2>1, <2>3
  <1>7. CASE StartSync
    <2>1. /\ UNCHANGED <<chainVars, balances, snapshot>> /\ pc' = "logs"
          /\ run'.lo = balances.cursor + 1 /\ run'.to = TipNow
      BY <1>7 DEF StartSync
    <2>2. TipNow \in Nat
      BY ChainReads DEF Steady, TypeOK
    <2> HIDE DEF TipNow
    <2>3. QED
      BY <1>1, <1>2, <2>1, <2>2 DEF Steady, Running, NoZeros
  <1>8. CASE FetchLogs \/ NarrowRange
    <2>1. /\ UNCHANGED <<chainVars, balances, snapshot>> /\ pc = "logs"
          /\ run'.lo = run.lo /\ run'.to = run.to
      BY <1>8 DEF FetchLogs, NarrowRange, Steady, TypeOK
    <2>2. QED
      BY <1>1, <1>2, <2>1 DEF Steady, Running, NoZeros
  <1>9. CASE ApplyChunk
    <2>1. ChunkApplied /\ AfterChunk /\ pc = "apply" /\ snapshot' \in {snapshot, balances'}
          /\ UNCHANGED chainVars
      BY <1>9 DEF ApplyChunk, ChunkApplied
    <2>2. run \in RunType /\ run.lo \in 1..run.hi /\ run.hi <= run.to
      BY <2>1 DEF Steady, TypeOK, RunOK, RunType
    <2>3. /\ pc' \in {"logs", "finish"} /\ run'.to = run.to
          /\ pc' = "logs" => run'.lo = run.hi + 1
      <3>1. /\ pc' \in {"logs", "finish"}
            /\ pc' = "logs" => run'.to = run.to /\ run'.lo = run.hi + 1
        BY <2>1, <2>2, AfterChunkRun
      <3>2. pc' = "finish" => run' = run
        BY <2>1 DEF AfterChunk
      <3>3. QED
        BY <3>1, <3>2
    <2>4. NoZeros(balances') /\ balances'.cursor = run.hi
      BY <2>1, SteadyChunk
    <2>5. run.to <= TipNow
      BY <2>1 DEF Steady, Running
    <2>6. QED
      BY <1>1, <1>2, <2>1, <2>3, <2>4, <2>5 DEF Steady
  <1>10. CASE FinishPass \/ FinishCatchUp \/ HashFails \/ FinalSaveFails
    <2>1. /\ UNCHANGED chainVars /\ balances' = Pruned /\ pc' = "poll"
          /\ snapshot' \in {snapshot, balances'}
      BY <1>10 DEF FinishPass, FinishCatchUp, HashFails, FinalSaveFails, GiveUp
    <2>2. QED
      BY <1>3, <1>4, <2>1, SteadyPruned
  <1>11. CASE ChunkSaveFails
    <2>1. ChunkApplied /\ pc' = "poll" /\ snapshot' \in {snapshot, balances'}
          /\ UNCHANGED chainVars
      BY <1>11 DEF ChunkSaveFails, GiveUp
    <2>2. QED
      BY <1>3, <2>1, SteadyChunk
  <1>12. CASE Restart
    BY <1>3, <1>12 DEF Restart, Steady
  <1>13. CASE Environment
    <2>1. ChainNext /\ WithinWatch /\ UNCHANGED <<balances, snapshot, run, pc>>
      BY <1>13 DEF Environment, Next, syncVars
    <2>2. Running => TipNow' >= TipNow /\ TipNow \in Nat /\ TipNow' \in Nat
      BY <2>1, TipRises DEF Running, Steady, TypeOK
    <2>3. Running => run.to <= TipNow'
      <3>1. Running => run.to <= TipNow /\ run.to \in Nat
        BY DEF Steady, TypeOK
      <3> HIDE DEF TipNow
      <3>2. QED
        BY <2>2, <3>1
    <2>4. QED
      BY <1>1, <2>1, <2>3 DEF Steady, Running, NoZeros
  <1>14. QED
    BY <1>5, <1>6, <1>7, <1>8, <1>9, <1>10, <1>11, <1>12, <1>13 DEF Next, Step, Fault

LEMMA SteadyWatch ==
    ASSUME Steady, [WatchNext]_watchVars
    PROVE  Steady' /\ [Next]_vars
  <1>1. CASE WatchNext
    <2>1. Next /\ WithinWatch
      BY <1>1 DEF WatchNext
    <2>2. QED
      BY <2>1, SteadyStep
  <1>2. CASE UNCHANGED watchVars
    <2>1. UNCHANGED vars
      BY <1>2 DEF watchVars
    <2>2. Steady'
      BY <2>1, SteadyVars
    <2>3. QED
      BY <2>1, <2>2
  <1>3. QED
    BY <1>1, <1>2

LEMMA SteadyStart == ASSUME WatchInit PROVE Steady
  <1>1. TypeOK /\ RunOK
    BY TypeInit DEF WatchInit
  <1>2. pc = "poll" /\ snapshot = balances
    BY DEF WatchInit, Init
  <1>3. NoZeros(balances)
    <2>1. PICK held \in SUBSET {a \in Addr : ~IsZero(BalanceAt(Origin)[a])} :
            balances = [inner |-> [a \in Addr |->
                                     IF a \in held
                                       THEN [balance |-> BalanceAt(Origin)[a],
                                             stamp |-> NoTouch]
                                       ELSE Absent],
                        cursor |-> Origin]
      BY DEF WatchInit, Init
    <2>2. QED
      BY <2>1 DEF NoZeros
  <1>4. QED
    BY <1>1, <1>2, <1>3 DEF Steady, Running

-------------------------------------------------------------------------------
(* What the watch remembers.                                                *)

(* Entries are in the order of their blocks, none above the cursor; until   *)
(* something fails, those a rewind cannot reach are gone when a pass is     *)
(* over.                                                                    *)
InOrder(recent) ==
    \A i, j \in 1..Len(recent) : i <= j => recent[i].through <= recent[j].through
AllFrom(recent, n) == \A i \in 1..Len(recent) : recent[i].through >= n
AllUpTo(recent, n) == \A i \in 1..Len(recent) : recent[i].through <= n

KeptInv ==
    faults = 0 =>
        /\ InOrder(watch.recent) /\ AllUpTo(watch.recent, balances.cursor)
        /\ mode = "follow" /\ pc \in {"poll", "repair", "resolve"} =>
              AllFrom(watch.recent, RewindTo)

LEMMA RecentReads ==
    ASSUME NEW recent \in Seq(WatchedChunk)
    PROVE  /\ Len(recent) \in Nat
           /\ \A i \in 1..Len(recent) : recent[i].through \in Nat
  <1>1. \A i \in 1..Len(recent) : recent[i] \in WatchedChunk
    BY ElementOfSeq
  <1>2. QED
    BY <1>1, LenProperties DEF WatchedChunk

LEMMA FreshKept ==
    ASSUME NEW n
    PROVE  /\ InOrder(FreshWatch.recent) /\ AllUpTo(FreshWatch.recent, n)
           /\ AllFrom(FreshWatch.recent, n)
  <1>1. FreshWatch.recent = <<>> /\ Len(<<>>) = 0
    BY DEF FreshWatch
  <1>2. QED
    BY <1>1 DEF InOrder, AllUpTo, AllFrom

(* ChainWatch::record: the chunk is past all of them.                       *)
LEMMA RecordInOrder ==
    ASSUME NEW recent \in Seq(WatchedChunk), NEW through \in Nat, NEW addrs \in SUBSET Addr,
           NEW c \in Nat, c <= through, InOrder(recent), AllUpTo(recent, c)
    PROVE  /\ InOrder(Record(recent, through, addrs))
           /\ AllUpTo(Record(recent, through, addrs), through)
  <1> DEFINE last == [through |-> through, addrs |-> addrs]
             longer == Append(recent, last)
             n == Len(recent)
  <1>1. n \in Nat /\ \A i \in 1..n : recent[i].through \in Nat
    BY RecentReads
  <1>2. \A i \in 1..n : recent[i].through <= through
    BY <1>1 DEF AllUpTo
  <1>3. CASE addrs = {}
    BY <1>2, <1>3 DEF Record, AllUpTo
  <1>4. CASE addrs # {}
    <2>1. Record(recent, through, addrs) = longer
      BY <1>4 DEF Record
    <2>2. last \in WatchedChunk /\ last.through = through
      BY DEF WatchedChunk
    <2>3. /\ Len(longer) = n + 1 /\ \A i \in 1..n : longer[i] = recent[i]
          /\ longer[n + 1] = last
      BY <2>2, AppendProperties
    <2>4. \A i, j \in 1..n : i <= j => recent[i].through <= recent[j].through
      BY DEF InOrder
    <2> HIDE DEF last, longer, n
    <2>5. \A i \in 1..(n + 1) : longer[i].through <= through
      BY <1>1, <1>2, <2>2, <2>3
    <2>6. ASSUME NEW i \in 1..(n + 1), NEW j \in 1..(n + 1), i <= j
          PROVE  longer[i].through <= longer[j].through
      <3>1. CASE j = n + 1
        BY <2>2, <2>3, <2>5, <3>1
      <3>2. CASE j # n + 1
        <4>1. i \in 1..n /\ j \in 1..n
          BY <1>1, <2>6, <3>2
        <4>2. QED
          BY <2>3, <2>4, <2>6, <4>1
      <3>3. QED
        BY <3>1, <3>2
    <2>7. QED
      BY <2>1, <2>3, <2>5, <2>6 DEF InOrder, AllUpTo
  <1>5. QED
    BY <1>3, <1>4

(* ChainWatch::trim drops a prefix; what is left of entries in order is all *)
(* from keepFrom on.                                                        *)
LEMMA TrimInOrder ==
    ASSUME NEW recent \in Seq(WatchedChunk), NEW keepFrom \in Nat, NEW c, InOrder(recent),
           AllUpTo(recent, c)
    PROVE  /\ InOrder(Trim(recent, keepFrom)) /\ AllUpTo(Trim(recent, keepFrom), c)
           /\ AllFrom(Trim(recent, keepFrom), keepFrom)
  <1> DEFINE n == Len(recent)
             droppable == {k \in 0..n : \A i \in 1..k : recent[i].through < keepFrom}
             m == Max(droppable)
             kept == SubSeq(recent, m + 1, n)
  <1>1. n \in Nat /\ \A i \in 1..n : recent[i].through \in Nat
    BY RecentReads
  <1>2. /\ m \in 0..n /\ \A i \in 1..m : recent[i].through < keepFrom
        /\ \A k \in droppable : k <= m
    <2>1. droppable \in SUBSET (0..n) /\ 0 \in droppable
      BY <1>1
    <2>2. m \in droppable /\ \A k \in droppable : k <= m
      <3> HIDE DEF droppable, n
      <3>1. QED
        BY <1>1, <2>1, MaxNat
    <2>3. QED
      BY <2>1, <2>2
  <1>3. m < n => recent[m + 1].through >= keepFrom
    <2>1. SUFFICES ASSUME m < n, recent[m + 1].through < keepFrom
                   PROVE  FALSE
      <3> HIDE DEF m
      <3>1. m < n => recent[m + 1].through \in Nat
        BY <1>1, <1>2
      <3>2. QED
        BY <3>1
    <2>2. m + 1 \in 0..n /\ m \in Nat
      <3> HIDE DEF m
      <3>1. QED
        BY <1>1, <1>2, <2>1
    <2>3. \A i \in 1..(m + 1) : recent[i].through < keepFrom
      <3> HIDE DEF m
      <3>1. \A i \in 1..(m + 1) : i \in 1..m \/ i = m + 1
        BY <2>2
      <3>2. QED
        BY <1>2, <2>1, <3>1
    <2>4. m + 1 \in droppable
      BY <2>2, <2>3
    <2>5. m + 1 <= m
      BY <1>2, <2>4
    <2> HIDE DEF m
    <2>6. QED
      BY <2>2, <2>5
  <1>4. Trim(recent, keepFrom) = kept
    BY DEF Trim
  <1>5. /\ Len(kept) = n - m
        /\ \A i \in 1..(n - m) : m + i \in (m + 1)..n /\ kept[i] = recent[m + i]
    <2> HIDE DEF m
    <2>1. m + 1 \in Int /\ n \in Int /\ m \in Nat /\ m <= n
      BY <1>1, <1>2
    <2>2. \A k \in (m + 1)..n : recent[k] \in WatchedChunk
      BY <2>1, ElementOfSeq
    <2> HIDE DEF n
    <2>3. /\ Len(kept) = IF m + 1 <= n THEN n - (m + 1) + 1 ELSE 0
          /\ \A i \in 1..(n - (m + 1) + 1) : kept[i] = recent[(m + 1) + i - 1]
      BY <2>1, <2>2, SubSeqProperties
    <2> HIDE DEF kept
    <2>4. n - (m + 1) + 1 = n - m /\ (m + 1 > n => n - m = 0)
      BY <2>1
    <2>5. \A i \in 1..(n - m) : (m + 1) + i - 1 = m + i /\ m + i \in (m + 1)..n
      BY <2>1
    <2>6. QED
      BY <2>1, <2>3, <2>4, <2>5
  <1>6. \A i, j \in 1..n : i <= j => recent[i].through <= recent[j].through
    BY DEF InOrder
  <1>7. \A i \in 1..n : recent[i].through <= c
    BY DEF AllUpTo
  <1> HIDE DEF n, m, droppable, kept
  <1>8. \A i \in 1..(n - m) : kept[i].through >= keepFrom /\ kept[i].through <= c
    <2> TAKE i \in 1..(n - m)
    <2>1. m + 1 \in 1..n /\ m + i \in 1..n /\ m + 1 <= m + i /\ m < n
      BY <1>1, <1>2
    <2>2. recent[m + 1].through <= recent[m + i].through
      BY <1>6, <2>1
    <2>3. recent[m + 1].through \in Nat /\ recent[m + i].through \in Nat
      BY <1>1, <2>1
    <2>4. QED
      BY <1>3, <1>5, <1>7, <2>1, <2>2, <2>3
  <1>9. ASSUME NEW i \in 1..(n - m), NEW j \in 1..(n - m), i <= j
        PROVE  kept[i].through <= kept[j].through
    <2>1. m + i \in 1..n /\ m + j \in 1..n /\ m + i <= m + j
      BY <1>1, <1>2, <1>9
    <2>2. QED
      BY <1>5, <1>6, <2>1
  <1>10. QED
    BY <1>4, <1>5, <1>8, <1>9 DEF InOrder, AllUpTo, AllFrom

LEMMA NothingFailed ==
    ASSUME TypeOK, Next, faults' = 0
    PROVE  /\ faults = 0
           /\ Environment \/ Restart \/ (Step /\ UNCHANGED budget)
  <1>1. faults \in Nat
    BY DEF TypeOK
  <1>2. CASE RpcFails \/ ChunkSaveFails \/ HashFails \/ FinalSaveFails
    BY <1>1, <1>2 DEF RpcFails, ChunkSaveFails, HashFails, FinalSaveFails
  <1>3. CASE Environment
    BY <1>3 DEF Environment, budget
  <1>4. CASE Restart
    BY <1>4 DEF Restart
  <1>5. CASE Step
    <2>1. UNCHANGED budget
      BY <1>5 DEF Step, CheckCursorHash, Repair, StartSync, AtTip, FetchLogs, NarrowRange,
                  ApplyChunk, FinishPass, FinishCatchUp, BlockMissing
    <2>2. QED
      BY <1>5, <2>1 DEF budget
  <1>6. QED
    BY <1>2, <1>3, <1>4, <1>5 DEF Next, Fault

(* The block a chunk is read at is there: no block is replaced under a pass. *)
LEMMA ChunkBlockThere ==
    ASSUME Steady, BlockMissing
    PROVE  /\ UNCHANGED <<balances, watch, changed, published, mode>>
           /\ pc = "repair" /\ pc' = "poll"
  <1>1. CASE pc = "apply" /\ run.hi > Height
    <2>1. run.hi <= run.to /\ run.to <= TipNow /\ run.hi \in Nat /\ run.to \in Nat
      BY <1>1 DEF Steady, RunOK, Running, TypeOK
    <2>2. TipNow \in Nat /\ TipNow <= Height /\ Height \in Nat
      BY TipBelowHeight, ChainReads DEF Steady, TypeOK
    <2> HIDE DEF TipNow
    <2>3. QED
      BY <1>1, <2>1, <2>2
  <1>2. QED
    BY <1>1 DEF BlockMissing, GiveUp

LEMMA KeptStep ==
    ASSUME ~Finalized, Steady, KeptInv, [Next]_vars
    PROVE  KeptInv'
  <1> SUFFICES ASSUME faults' = 0 PROVE KeptInv'
    BY DEF KeptInv
  <1>1. /\ TypeOK /\ balances.cursor \in Nat /\ watch.recent \in Seq(WatchedChunk)
        /\ RewindTo \in Nat
    <2>1. TypeOK
      BY DEF Steady
    <2>2. balances.cursor \in Nat /\ Window \in Nat
      BY <2>1, SyncerAssumption DEF TypeOK
    <2>3. watch.recent \in Seq(WatchedChunk)
      BY <2>1 DEF TypeOK
    <2>4. RewindTo = IF balances.cursor >= Window THEN balances.cursor - Window ELSE 0
      BY DEF RewindTo, Minus
    <2> HIDE DEF RewindTo
    <2>5. QED
      BY <2>1, <2>2, <2>3, <2>4
  <1>2. CASE watch' = FreshWatch
    BY <1>2, FreshKept DEF KeptInv
  <1>3. ASSUME faults = 0, UNCHANGED <<balances, watch>>, mode' = mode \/ mode' = "catchup",
               pc' \in {"poll", "repair", "resolve"} => pc \in {"poll", "repair", "resolve"}
        PROVE  KeptInv'
    BY <1>3 DEF KeptInv, InOrder, AllUpTo, AllFrom, RewindTo, Minus
  <1>4. CASE UNCHANGED vars
    BY <1>3, <1>4 DEF vars, syncVars, budget
  <1>5. CASE Next
    <2>1. faults = 0 /\ (Environment \/ Restart \/ (Step /\ UNCHANGED budget))
      BY <1>1, <1>5, NothingFailed
    <2>2. CASE Environment
      BY <1>3, <2>1, <2>2 DEF Environment, syncVars
    <2>3. CASE Restart
      BY <1>2, <2>3 DEF Restart
    <2>4. CASE CheckCursorHash
      BY <1>2, <1>3, <2>1, <2>4 DEF CheckCursorHash
    <2>5. CASE Repair
      BY <1>2, <2>5 DEF Repair
    <2>6. CASE StartSync
      BY <1>2, <1>3, <2>1, <2>6 DEF StartSync
    <2>7. CASE AtTip
      BY <1>2, <1>3, <2>1, <2>7 DEF AtTip, Spawned, Resolving
    <2>8. CASE FetchLogs \/ NarrowRange
      BY <1>3, <2>1, <2>8 DEF FetchLogs, NarrowRange
    <2>9. CASE ApplyChunk
      <3>1. /\ ChunkApplied /\ pc' \in {"logs", "finish"}
        BY <2>9 DEF ApplyChunk, AfterChunk
      <3>2. /\ balances'.cursor = run.hi /\ pc = "apply"
            /\ watch' = [watch EXCEPT !.recent = Record(@, run.hi, Touched)]
        BY <3>1 DEF ChunkApplied
      <3>3. run.hi \in Nat /\ balances.cursor <= run.hi
        <4>1. run.hi \in Nat /\ run.lo = balances.cursor + 1 /\ run.lo <= run.hi
          BY <3>1, SteadyChunk
        <4>2. QED
          BY <1>1, <4>1
      <3>4. watch'.recent = Record(watch.recent, run.hi, Touched)
        BY <1>1, <3>2 DEF TypeOK
      <3>5. Touched \in SUBSET Addr
        BY DEF Touched
      <3>6. InOrder(watch.recent) /\ AllUpTo(watch.recent, balances.cursor)
        BY <2>1 DEF KeptInv
      <3>7. InOrder(watch'.recent) /\ AllUpTo(watch'.recent, run.hi)
        BY <1>1, <3>3, <3>4, <3>5, <3>6, RecordInOrder
      <3>8. QED
        BY <3>1, <3>2, <3>7 DEF KeptInv
    <2>10. CASE FinishPass
      <3>1. balances' = Pruned /\ watch' = WatchAtCursor /\ pc' = "poll"
        BY <2>10 DEF FinishPass
      <3>2. balances'.cursor = balances.cursor
        BY <1>1, <3>1 DEF Pruned, TypeOK
      <3>3. RewindTo' = RewindTo
        BY <3>2 DEF RewindTo
      <3>4. watch'.recent = Trim(watch.recent, RewindTo)
        BY <3>1 DEF WatchAtCursor
      <3>5. InOrder(watch.recent) /\ AllUpTo(watch.recent, balances.cursor)
        BY <2>1 DEF KeptInv
      <3>6. /\ InOrder(watch'.recent) /\ AllUpTo(watch'.recent, balances.cursor)
            /\ AllFrom(watch'.recent, RewindTo)
        <4> HIDE DEF RewindTo
        <4>1. QED
          BY <1>1, <3>4, <3>5, TrimInOrder
      <3>7. QED
        BY <3>2, <3>3, <3>6 DEF KeptInv
    <2>11. CASE FinishCatchUp
      BY <1>2, <2>11 DEF FinishCatchUp, Spawned
    <2>12. CASE BlockMissing
      BY <1>3, <2>1, <2>12, ChunkBlockThere
    <2>13. QED
      BY <2>1, <2>2, <2>3, <2>4, <2>5, <2>6, <2>7, <2>8, <2>9, <2>10, <2>11, <2>12 DEF Step
  <1>6. QED
    BY <1>4, <1>5

(* Until something fails the watch has nothing older than a repair can use  *)
(* when a pass is over: it does not grow with the chain.                    *)
THEOREM ReorgWatchKeepsOnlyReachable ==
    ASSUME ~Finalized
    PROVE  WatchSpec => []WatchKeepsOnlyReachable
  <1>1. WatchInit => Steady /\ KeptInv
    BY SteadyStart, FreshKept DEF WatchInit, Init, KeptInv
  <1>2. Steady /\ KeptInv /\ [WatchNext]_watchVars => Steady' /\ KeptInv'
    BY SteadyWatch, KeptStep
  <1>3. KeptInv => WatchKeepsOnlyReachable
    BY DEF KeptInv, AllFrom, WatchKeepsOnlyReachable, AtRest
  <1>4. QED
    BY <1>1, <1>2, <1>3, PTL DEF WatchSpec

-------------------------------------------------------------------------------
(* What the PIR side holds.                                                 *)

(* As long as nothing has failed, a holder whose entry no repair changed is *)
(* on the PIR side once it has the changes of the running pass, and what is *)
(* queued for a holder is its entry.                                        *)
PirInv ==
    faults = 0 /\ mode = "follow" =>
        \A a \in Addr : balances.inner[a] # Absent =>
            /\ a \notin repaired =>
                  balances.inner[a] = IF pc \in Passing THEN AbsorbSlot(published[a], changed[a])
                                      ELSE published[a]
            /\ pc \in Passing /\ changed[a] # Absent => changed[a] = balances.inner[a]

(* What record_current_entry queues for an entry that stays is the entry.   *)
LEMMA QueuedIsEntry ==
    ASSUME NEW slot \in Slot, NEW change \in Slot, NEW a, NEW added, NEW reading \in Reading,
           NEW stamps \in Touch, ApplySlot(slot, reading, stamps) # Absent,
           ChangedSlot(change, a \in added, slot, reading, stamps) # Absent
    PROVE  ChangedSlot(change, a \in added, slot, reading, stamps)
             = ApplySlot(slot, reading, stamps)
  <1>1. ~IsZero(reading)
    BY DEF ApplySlot
  <1>2. Outcome(slot, reading, stamps) \in {"Inserted", "Updated", "Unchanged"}
    BY <1>1 DEF Outcome
  <1>3. QED
    BY <1>2 DEF ChangedSlot

LEMMA ChunkQueues ==
    ASSUME Steady, PirInv, ChunkApplied, faults = 0, mode = "follow"
    PROVE  \A a \in Addr : balances'.inner[a] # Absent =>
               /\ a \notin repaired =>
                     balances'.inner[a] = AbsorbSlot(published[a], changed'[a])
               /\ changed'[a] # Absent => changed'[a] = balances'.inner[a]
  <1> DEFINE at == IF Touched = {} THEN NothingSeen ELSE BalanceAt(run.hi)
  <1>1. /\ balances'.inner = ApplyAll(balances.inner, Touched, at, seen)
        /\ changed' = ChangedAfter(changed, inserted, balances.inner, Touched, at, seen)
        /\ pc = "apply" /\ pc \in Passing
    BY DEF ChunkApplied, Passing
  <1>2. \A a \in Addr : /\ balances.inner[a] \in Slot /\ seen[a] \in Touch
                        /\ published[a] \in Slot /\ changed[a] \in Slot
    BY DEF Steady, TypeOK
  <1>3. Touched # {} => BalanceAt(run.hi) \in [Addr -> Reading]
    <2>1. run.hi \in Nat /\ run.hi \in 1..run.hi /\ Height \in Nat
      <3>1. run.lo \in 1..run.hi /\ run.hi \in Nat /\ ChainTypeOK
        BY <1>1 DEF Steady, TypeOK, RunOK
      <3>2. Height \in Nat
        BY <3>1, ChainReads
      <3>3. run.hi \in 1..run.hi
        BY <3>1
      <3>4. QED
        BY <3>1, <3>2, <3>3
    <2>2. Touched # {} => run.hi \in 1..Height
      BY <2>1 DEF ChunkApplied
    <2>3. QED
      BY <2>2, ChainReads DEF Steady, TypeOK
  <1>4. SUFFICES ASSUME NEW a \in Addr, balances'.inner[a] # Absent
                 PROVE  /\ a \notin repaired =>
                              balances'.inner[a] = AbsorbSlot(published[a], changed'[a])
                        /\ changed'[a] # Absent => changed'[a] = balances'.inner[a]
    OBVIOUS
  <1>5. balances.inner[a] # Absent =>
          /\ a \notin repaired => AbsorbSlot(published[a], changed[a]) = balances.inner[a]
          /\ changed[a] # Absent => changed[a] = balances.inner[a]
    BY <1>1 DEF PirInv
  <1>6. CASE a \notin Touched
    <2>1. balances'.inner[a] = balances.inner[a] /\ changed'[a] = changed[a]
      BY <1>1, <1>6 DEF ApplyAll, ChangedAfter
    <2>2. QED
      BY <1>4, <1>5, <2>1
  <1>7. CASE a \in Touched
    <2>1. at[a] \in Reading
      <3>1. at = BalanceAt(run.hi) /\ Touched # {}
        BY <1>7
      <3> HIDE DEF at
      <3>2. QED
        BY <1>3, <3>1
    <2> HIDE DEF at
    <2>2. /\ balances'.inner[a] = ApplySlot(balances.inner[a], at[a], seen[a])
          /\ changed'[a] = ChangedSlot(changed[a], a \in inserted, balances.inner[a],
                                       at[a], seen[a])
      BY <1>1, <1>7 DEF ApplyAll, ChangedAfter
    <2>3. ApplySlot(balances.inner[a], at[a], seen[a]) # Absent
      BY <1>4, <2>2
    <2>4. ChangedSlot(changed[a], a \in inserted, balances.inner[a], at[a], seen[a]) # Absent
          => ChangedSlot(changed[a], a \in inserted, balances.inner[a], at[a], seen[a])
               = ApplySlot(balances.inner[a], at[a], seen[a])
      BY <1>2, <2>1, <2>3, QueuedIsEntry
    <2>5. a \notin repaired =>
            AbsorbSlot(published[a], ChangedSlot(changed[a], a \in inserted, balances.inner[a],
                                                 at[a], seen[a]))
              = ApplySlot(balances.inner[a], at[a], seen[a])
      BY <1>2, <1>5, <2>1, <2>3, ChangeHandsOver
    <2>6. QED
      BY <2>2, <2>4, <2>5
  <1>8. QED
    BY <1>6, <1>7

LEMMA PirStep ==
    ASSUME Steady, PirInv, [WatchNext]_watchVars
    PROVE  PirInv'
  <1> SUFFICES ASSUME faults' = 0, mode' = "follow"
               PROVE  \A a \in Addr : balances'.inner[a] # Absent =>
                        /\ a \notin repaired' =>
                              balances'.inner[a] =
                                  IF pc' \in Passing THEN AbsorbSlot(published'[a], changed'[a])
                                  ELSE published'[a]
                        /\ pc' \in Passing /\ changed'[a] # Absent =>
                              changed'[a] = balances'.inner[a]
    BY DEF PirInv
  <1>1. ASSUME faults = 0, mode = "follow", UNCHANGED <<balances, published, repaired>>,
               pc \in Passing <=> pc' \in Passing, pc' \in Passing => changed' = changed
        PROVE  PirInv'
    BY <1>1 DEF PirInv
  <1>2. CASE UNCHANGED watchVars
    BY <1>1, <1>2 DEF watchVars, vars, syncVars, budget, PirInv
  <1>3. CASE WatchNext
    <2>1. /\ faults = 0
          /\ Environment \/ Restart \/ (Step /\ UNCHANGED budget)
      BY <1>3, NothingFailed DEF WatchNext, Steady
    <2>2. pc # "repair" /\ published' = published => repaired' = repaired
      BY <1>3 DEF WatchNext, HandedOver
    <2>3. CASE Environment
      <3>1. UNCHANGED <<balances, published, changed, mode, pc>>
        BY <2>3 DEF Environment, syncVars
      <3>2. CASE pc # "repair"
        BY <1>1, <2>1, <2>2, <3>1, <3>2 DEF PirInv
      <3>3. CASE pc = "repair"
        <4>1. repaired' = repaired
          BY <1>3, <3>1, <3>3 DEF WatchNext
        <4>2. QED
          BY <1>1, <2>1, <3>1, <4>1 DEF PirInv
      <3>4. QED
        BY <3>2, <3>3
    <2>4. CASE Restart
      BY <2>4 DEF Restart
    <2>5. CASE CheckCursorHash
      <3>1. /\ pc = "poll" /\ pc' \in {"resolve", "repair"} /\ UNCHANGED <<published, mode>>
            /\ balances'.inner = balances.inner
        BY <2>5 DEF CheckCursorHash, Steady, TypeOK
      <3>2. QED
        BY <2>1, <2>2, <3>1 DEF PirInv, Passing
    <2>6. CASE Repair
      <3>1. pc = "repair" /\ pc' = "resolve" /\ UNCHANGED <<published, mode>>
        BY <2>6 DEF Repair
      <3>2. repaired' = repaired \union {a \in Addr : balances'.inner[a] # balances.inner[a]}
        BY <1>3, <3>1 DEF WatchNext
      <3>3. QED
        BY <2>1, <3>1, <3>2 DEF PirInv, Passing
    <2>7. CASE StartSync
      <3>1. /\ pc \in {"poll", "resolve"} /\ pc' = "logs" /\ changed' = EmptyMap
            /\ UNCHANGED <<balances, published, mode>>
        BY <2>7 DEF StartSync, Resolving
      <3>2. \A a \in Addr : /\ AbsorbSlot(published[a], changed'[a]) = published[a]
                            /\ changed'[a] = Absent
        BY <3>1 DEF EmptyMap, AbsorbSlot
      <3>3. QED
        BY <2>1, <2>2, <3>1, <3>2 DEF PirInv, Passing
    <2>8. CASE AtTip
      <3>1. pc \in {"poll", "resolve"} /\ pc' = "poll" /\ UNCHANGED balances
        BY <2>8 DEF AtTip, Resolving
      <3>2. CASE mode = "catchup"
        BY <2>8, <3>1, <3>2 DEF AtTip, Spawned, Passing
      <3>3. CASE mode # "catchup"
        <4>1. UNCHANGED <<mode, published, changed>>
          BY <2>8, <3>3 DEF AtTip
        <4>2. QED
          BY <2>1, <2>2, <3>1, <4>1 DEF PirInv, Passing
      <3>4. QED
        BY <3>2, <3>3
    <2>9. CASE FetchLogs \/ NarrowRange
      <3>1. /\ UNCHANGED <<balances, published, changed, mode>>
            /\ pc = "logs" /\ pc' \in {"logs", "apply"}
        BY <2>9 DEF FetchLogs, NarrowRange
      <3>2. QED
        BY <2>1, <2>2, <3>1 DEF PirInv, Passing
    <2>10. CASE ApplyChunk
      <3>1. /\ ChunkApplied /\ UNCHANGED <<published, mode>> /\ pc' \in {"logs", "finish"}
            /\ pc = "apply"
        BY <2>10 DEF ApplyChunk, ChunkApplied, AfterChunk
      <3>2. QED
        BY <2>1, <2>2, <3>1, ChunkQueues DEF Passing
    <2>11. CASE FinishPass
      <3>1. /\ pc = "finish" /\ pc' = "poll" /\ mode = "follow"
            /\ balances' = Pruned /\ published' = Absorb(published, changed)
        BY <2>11 DEF FinishPass
      <3>2. balances' = balances
        BY <3>1, SteadyPruned
      <3>3. \A a \in Addr : published'[a] = AbsorbSlot(published[a], changed[a])
        BY <3>1 DEF Absorb, AbsorbSlot
      <3>4. ASSUME NEW a \in Addr, balances.inner[a] # Absent, a \notin repaired'
            PROVE  balances.inner[a] = published'[a]
        <4>1. CASE a \notin repaired
          BY <2>1, <3>1, <3>3, <3>4, <4>1 DEF PirInv, Passing
        <4>2. CASE a \in repaired
          <5>1. a \in HandedOver
            BY <1>3, <3>1, <3>4, <4>2 DEF WatchNext
          <5>2. changed[a] # Absent
            BY <5>1 DEF HandedOver
          <5>3. changed[a] = balances.inner[a]
            BY <2>1, <3>1, <3>4, <5>2 DEF PirInv, Passing
          <5>4. ~IsZero(balances.inner[a].balance)
            BY <3>4 DEF Steady, NoZeros
          <5>5. QED
            BY <3>3, <5>2, <5>3, <5>4 DEF AbsorbSlot
        <4>3. QED
          BY <4>1, <4>2
      <3>5. QED
        BY <3>1, <3>2, <3>4 DEF Passing
    <2>12. CASE FinishCatchUp
      BY <2>12 DEF FinishCatchUp, Spawned, Passing
    <2>13. CASE BlockMissing
      <3>1. /\ UNCHANGED <<balances, published, changed, mode>> /\ pc = "repair" /\ pc' = "poll"
        BY <2>13, ChunkBlockThere DEF BlockMissing
      <3>2. repaired' = repaired
        BY <1>3, <3>1 DEF WatchNext
      <3>3. QED
        BY <2>1, <3>1, <3>2 DEF PirInv, Passing
    <2>14. QED
      BY <2>1, <2>3, <2>4, <2>5, <2>6, <2>7, <2>8, <2>9, <2>10, <2>11, <2>12, <2>13 DEF Step
  <1>4. QED
    BY <1>2, <1>3

(* Through reorganisations and until something fails, the PIR side has the  *)
(* current record of every holder after each pass, but for the entries a    *)
(* repair changed; and these too once a block of the new branch moves them. *)
THEOREM ReorgHoldersCurrent == WatchSpec => []HoldersCurrentUnlessRepaired
  <1>1. WatchInit => Steady /\ PirInv
    BY SteadyStart DEF WatchInit, Init, PirInv
  <1>2. Steady /\ PirInv /\ [WatchNext]_watchVars => Steady' /\ PirInv'
    BY SteadyWatch, PirStep
  <1>3. PirInv => HoldersCurrentUnlessRepaired
    BY DEF PirInv, HoldersCurrentUnlessRepaired, AtRest, Passing
  <1>4. QED
    BY <1>1, <1>2, <1>3, PTL DEF WatchSpec
===============================================================================
