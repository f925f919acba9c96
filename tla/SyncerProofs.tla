----------------------------- MODULE SyncerProofs -----------------------------
(***************************************************************************)
(* Theorems about Syncer and about what Monitor shows of it, for every      *)
(* chain, tip policy, chunk, window and number of faults and restarts:      *)
(*                                                                         *)
(*   - what the operators of the balance map, the chain and the watch       *)
(*     return, and type correctness;                                        *)
(*   - the rewind: only a reorganisation moves the cursor back;             *)
(*   - `--confirmations finalized`: map, snapshot, stamps and the PIR side; *)
(*   - /status never hides a lag.                                           *)
(***************************************************************************)
EXTENDS Monitor, SequenceTheorems, WellFoundedInduction, TLAPS

--------------------------------------------------------------------------------
(* What the balance map's operators return, for every address and token set.*)

(* Writing a reading over a slot gives a well-formed entry that carries     *)
(* exactly the reading.                                                     *)
LEMMA WrittenEntry ==
    ASSUME NEW slot \in Slot, NEW reading \in Reading, NEW touch \in Touch
    PROVE  /\ Written(slot, reading, touch) \in Entry
           /\ Written(slot, reading, touch).balance = reading
  <1>1. CASE slot = Absent
    BY <1>1 DEF Written, Entry
  <1>2. CASE slot # Absent
    <2>1. slot \in Entry
      BY <1>2 DEF Slot
    <2>2. Stamped(slot.stamp, touch) \in Touch
      BY <2>1 DEF Stamped, Entry, Touch
    <2>3. QED
      BY <1>2, <2>2 DEF Written, Entry
  <1>3. QED
    BY <1>1, <1>2

(* BalanceMap::apply leaves no slot behind for a zero reading, and an entry *)
(* with the balances read otherwise.                                        *)
LEMMA ApplySlotExact ==
    ASSUME NEW slot \in Slot, NEW reading \in Reading, NEW touch \in Touch
    PROVE  /\ ApplySlot(slot, reading, touch) \in Slot
           /\ ApplySlot(slot, reading, touch) = Absent <=> IsZero(reading)
           /\ ApplySlot(slot, reading, touch) # Absent =>
                 ApplySlot(slot, reading, touch).balance = reading
  <1>1. Written(slot, reading, touch) # Absent
    BY WrittenEntry, AbsentAssumption
  <1>2. QED
    BY <1>1, WrittenEntry DEF ApplySlot, Slot

(* What apply reports determines what happened to the slot. *)
LEMMA OutcomeCases ==
    ASSUME NEW slot \in Slot, NEW reading \in Reading, NEW touch \in Touch
    PROVE  Outcome(slot, reading, touch) \in
               {"SkippedNewZero", "Inserted", "Removed", "Unchanged", "Updated"}
  BY DEF Outcome

LEMMA ChangedSlotType ==
    ASSUME NEW change \in Slot, NEW isInserted \in BOOLEAN, NEW slot \in Slot,
           NEW reading \in Reading, NEW touch \in Touch
    PROVE  ChangedSlot(change, isInserted, slot, reading, touch) \in Slot
  <1>1. /\ ApplySlot(slot, reading, touch) \in Slot
        /\ Written(slot, reading, touch) \in Slot
        /\ Absent \in Slot
    BY ApplySlotExact, WrittenEntry DEF Slot
  <1>2. QED
    BY <1>1, OutcomeCases DEF ChangedSlot

(* Folding a batch of readings keeps the map a map. *)
LEMMA ApplyAllType ==
    ASSUME NEW inner \in [Addr -> Slot], NEW touched \in SUBSET Addr,
           NEW readings \in [Addr -> Reading], NEW touch \in [Addr -> Touch]
    PROVE  ApplyAll(inner, touched, readings, touch) \in [Addr -> Slot]
  BY ApplySlotExact DEF ApplyAll

LEMMA ChangedAfterType ==
    ASSUME NEW pending \in [Addr -> Slot], NEW fresh \in SUBSET Addr,
           NEW inner \in [Addr -> Slot], NEW touched \in SUBSET Addr,
           NEW readings \in [Addr -> Reading], NEW touch \in [Addr -> Touch]
    PROVE  ChangedAfter(pending, fresh, inner, touched, readings, touch) \in [Addr -> Slot]
  <1>1. ASSUME NEW a \in Addr
        PROVE  ChangedSlot(pending[a], a \in fresh, inner[a], readings[a], touch[a]) \in Slot
    <2>1. (a \in fresh) \in BOOLEAN
      OBVIOUS
    <2>2. QED
      BY <2>1, ChangedSlotType
  <1>2. QED
    BY <1>1 DEF ChangedAfter

LEMMA InsertedAfterType ==
    ASSUME NEW fresh \in SUBSET Addr, NEW inner, NEW touched \in SUBSET Addr,
           NEW readings, NEW touch
    PROVE  InsertedAfter(fresh, inner, touched, readings, touch) \in SUBSET Addr
  BY DEF InsertedAfter

LEMMA AbsorbType ==
    ASSUME NEW view \in [Addr -> Slot], NEW batch \in [Addr -> Slot]
    PROVE  Absorb(view, batch) \in [Addr -> Slot]
  <1>1. Absent \in Slot
    BY DEF Slot
  <1>2. QED
    BY <1>1 DEF Absorb

(* prune_zero finds nothing to prune in a map without zero entries. *)
LEMMA PruneZeroKeeps ==
    ASSUME NEW inner \in [Addr -> Slot], NEW candidates
    PROVE  /\ PruneZero(inner, candidates) \in [Addr -> Slot]
           /\ (\A a \in Addr : inner[a] # Absent => ~IsZero(inner[a].balance)) =>
                 PruneZero(inner, candidates) = inner
  <1>1. Absent \in Slot
    BY DEF Slot
  <1>2. QED
    BY <1>1 DEF PruneZero

--------------------------------------------------------------------------------
(* The chain, the watch and the running chunk.                              *)

(* A non-empty set of bounded naturals has the maximum the CHOOSE asks for. *)
LEMMA MaxNat ==
    ASSUME NEW n \in Nat, NEW S \in SUBSET (0..n), S # {}
    PROVE  /\ Max(S) \in S
           /\ \A y \in S : y <= Max(S)
  <1> DEFINE T == {n - x : x \in S}
  <1>1. T \subseteq Nat /\ T # {}
    <2>1. \A x \in S : x \in Nat /\ x <= n /\ n - x \in Nat
      OBVIOUS
    <2>2. T \subseteq Nat
      BY <2>1
    <2>3. T # {}
      <3>1. PICK x \in S : TRUE
        OBVIOUS
      <3>2. n - x \in T
        BY <3>1
      <3>3. QED
        BY <3>2
    <2>4. QED
      BY <2>2, <2>3
  <1>2. PICK d \in T : \A y \in T : ~(<<y, d>> \in OpToRel(<, Nat))
    BY <1>1, NatLessThanWellFounded, WFMin, Zenon
  <1>3. \A y \in T : d <= y
    <2>1. ASSUME NEW y \in T, y < d
          PROVE  FALSE
      <3>1. y \in Nat /\ d \in Nat
        BY <1>1
      <3>2. <<y, d>> \in OpToRel(<, Nat)
        BY <2>1, <3>1 DEF OpToRel
      <3>3. QED
        BY <1>2, <3>2
    <2> HIDE DEF T
    <2>2. \A y \in T : y \in Nat /\ d \in Nat
      BY <1>1
    <2>3. QED
      BY <2>1, <2>2
  <1>4. PICK m \in S : d = n - m
    BY <1>2
  <1>5. \A y \in S : m >= y
    <2>1. ASSUME NEW y \in S
          PROVE  m >= y
      <3>1. d <= n - y
        BY <1>3
      <3>2. QED
        BY <1>4, <3>1
    <2>2. QED
      BY <2>1
  <1>6. QED
    BY <1>5 DEF Max

-------------------------------------------------------------------------------
(* Operators of the syncer. *)

LEMMA LastTouchNat ==
    ASSUME NEW a \in Addr, NEW t \in Token, NEW lo \in Nat, NEW hi \in Nat
    PROVE  /\ LastTouch(a, t, lo, hi) \in Nat
           /\ (lo > 0 /\ LastTouch(a, t, lo, hi) = 0) =>
                 \A n \in lo..hi : n <= Height => t \notin chain[n].touch[a]
  <1> DEFINE moved == {n \in lo..hi : n <= Height /\ t \in chain[n].touch[a]}
  <1>1. CASE moved = {}
    BY <1>1 DEF LastTouch
  <1>2. CASE moved # {}
    <2>1. moved \in SUBSET (0..hi)
      OBVIOUS
    <2>2. Max(moved) \in moved
      BY <1>2, <2>1, MaxNat
    <2>3. LastTouch(a, t, lo, hi) = Max(moved)
      BY <1>2 DEF LastTouch
    <2>4. QED
      BY <2>2, <2>3
  <1>3. QED
    BY <1>1, <1>2

LEMMA SeenInType ==
    ASSUME NEW lo \in Nat, NEW hi \in Nat
    PROVE  SeenIn(lo, hi) \in [Addr -> Touch]
  BY LastTouchNat DEF SeenIn, Touch

(* collect_touched misses no address: one it leaves out was not moved. *)
LEMMA SeenInComplete ==
    ASSUME chain \in Seq(Block), NEW lo \in Nat \ {0}, NEW hi \in Nat, NEW a \in Addr,
           SeenIn(lo, hi)[a] = NoTouch
    PROVE  \A n \in lo..hi : n <= Height => chain[n].touch[a] = {}
  <1>1. \A t \in Token : LastTouch(a, t, lo, hi) = 0
    BY DEF SeenIn, NoTouch
  <1>2. ASSUME NEW n \in lo..hi, n <= Height
        PROVE  chain[n].touch[a] = {}
    <2>1. chain[n] \in Block
      BY <1>2, ElementOfSeq DEF Height
    <2>2. chain[n].touch[a] \subseteq Token
      BY <2>1 DEF Block
    <2>3. ASSUME NEW t \in Token
          PROVE  t \notin chain[n].touch[a]
      <3>1. LastTouch(a, t, lo, hi) = 0 =>
                 \A k \in lo..hi : k <= Height => t \notin chain[k].touch[a]
        BY LastTouchNat, lo > 0, lo \in Nat
      <3>2. QED
        BY <1>1, <1>2, <3>1
    <2>4. QED
      BY <2>2, <2>3
  <1>3. QED
    BY <1>2

LEMMA TrimType ==
    ASSUME NEW recent \in Seq(WatchedChunk), NEW keepFrom \in Nat
    PROVE  Trim(recent, keepFrom) \in Seq(WatchedChunk)
  <1> DEFINE droppable == {k \in 0..Len(recent) :
                             \A i \in 1..k : recent[i].through < keepFrom}
  <1>1. Len(recent) \in Nat /\ 0 \in droppable
    BY LenProperties
  <1>2. Max(droppable) \in 0..Len(recent)
    BY <1>1, MaxNat
  <1>3. \A i \in (Max(droppable) + 1)..Len(recent) : recent[i] \in WatchedChunk
    BY <1>1, <1>2, ElementOfSeq
  <1>4. SubSeq(recent, Max(droppable) + 1, Len(recent)) \in Seq(WatchedChunk)
    <2> DEFINE first == Max(droppable) + 1
    <2>1. first \in Int /\ Len(recent) \in Int
      BY <1>1, <1>2
    <2>2. \A i \in first..Len(recent) : recent[i] \in WatchedChunk
      BY <1>3
    <2> HIDE DEF first
    <2>3. SubSeq(recent, first, Len(recent)) \in Seq(WatchedChunk)
      BY <2>1, <2>2, SubSeqProperties
    <2>4. QED
      BY <2>3 DEF first
  <1>5. QED
    BY <1>4 DEF Trim

LEMMA RecordType ==
    ASSUME NEW recent \in Seq(WatchedChunk), NEW through \in Nat, NEW addrs \in SUBSET Addr
    PROVE  Record(recent, through, addrs) \in Seq(WatchedChunk)
  BY AppendProperties DEF Record, WatchedChunk

-------------------------------------------------------------------------------
(* Type correctness.  A sync always works on a non-empty range inside       *)
(* cursor + 1 .. to, which is what keeps every block it reads well-formed.  *)

RunOK == pc \in {"logs", "apply"} => run.lo \in 1..run.hi /\ run.hi <= run.to

LEMMA ChainReads ==
    ASSUME ChainTypeOK
    PROVE  /\ Height \in Nat
           /\ TipNow \in Nat
           /\ \A n \in 1..Height : chain[n] \in Block /\ BalanceAt(n) \in [Addr -> Reading]
           /\ \A n \in Nat : HashAt(n) \in Nat \X Nat
  <1>1. Height \in Nat
    BY LenProperties DEF ChainTypeOK, Height
  <1>2. TipNow \in Nat
    BY <1>1, SyncerAssumption DEF TipNow, Minus, ChainTypeOK
  <1>3. \A n \in 1..Height : chain[n] \in Block
    BY ElementOfSeq DEF ChainTypeOK, Height
  <1>4. QED
    BY <1>1, <1>2, <1>3 DEF BalanceAt, HashAt, NoHash, Block

LEMMA WatchReads ==
    ASSUME TypeOK
    PROVE  /\ Stale \in SUBSET Addr /\ Touched \in SUBSET Addr
           /\ RewindTo \in Nat
           /\ FreshWatch \in [hash : Nat \X Nat, recent : Seq(WatchedChunk)]
           /\ NothingSeen \in [Addr -> Touch] /\ NoTouch \in Touch
           /\ EmptyMap \in [Addr -> Slot]
           /\ NoRun \in [lo : Nat, hi : Nat, to : Nat, chunk : Nat \ {0}]
  <1>1. Stale \in SUBSET Addr
    <2>1. \A i \in 1..Len(watch.recent) : watch.recent[i] \in WatchedChunk
      BY ElementOfSeq DEF TypeOK
    <2>2. \A i \in 1..Len(watch.recent) : watch.recent[i].addrs \subseteq Addr
      BY <2>1 DEF WatchedChunk
    <2>3. QED
      BY <2>2 DEF Stale
  <1>2. RewindTo \in Nat
    BY SyncerAssumption DEF TypeOK, RewindTo, Minus
  <1>3. FreshWatch \in [hash : Nat \X Nat, recent : Seq(WatchedChunk)]
    BY EmptySeq DEF FreshWatch, NoHash
  <1>4. QED
    BY <1>1, <1>2, <1>3, SyncerAssumption
    DEF Touched, NothingSeen, NoTouch, Touch, EmptyMap, Slot, NoRun

LEMMA TypeInit == Init => TypeOK /\ RunOK
  <1> SUFFICES ASSUME Init
               PROVE  TypeOK /\ RunOK
    OBVIOUS
  <1>1. ChainTypeOK
    <2>1. PICK start \in [Addr -> [Token -> 0..MaxBalance]] :
            chain = [n \in 1..Origin |->
                       [branch |-> 1, touch |-> [a \in Addr |-> {}], balance |-> start]]
      BY DEF Init, ChainInit
    <2>2. start \in [Addr -> Reading]
      BY <2>1, ChainAssumption DEF Reading
    <2>3. chain \in [1..Origin -> Block]
      BY <2>1, <2>2 DEF Block
    <2>4. chain \in Seq(Block) /\ Len(chain) = Origin
      BY <2>3, ChainAssumption, IsASeq, LenProperties
    <2>5. QED
      BY <2>4, ChainAssumption DEF Init, ChainInit, ChainTypeOK, Height
  <1>2. balances \in [inner : [Addr -> Slot], cursor : Nat]
    <2>1. Origin \in 1..Height
      BY <1>1 DEF Init, ChainInit, ChainTypeOK
    <2>2. BalanceAt(Origin) \in [Addr -> Reading]
      BY <1>1, <2>1, ChainReads
    <2>3. NoTouch \in Touch
      BY DEF NoTouch, Touch
    <2>4. QED
      BY <2>2, <2>3, ChainAssumption DEF Init, Slot, Entry
  <1>3. /\ watch \in [hash : Nat \X Nat, recent : Seq(WatchedChunk)]
        /\ NothingSeen \in [Addr -> Touch]
        /\ EmptyMap \in [Addr -> Slot]
    BY EmptySeq DEF Init, FreshWatch, NoHash, NothingSeen, NoTouch, Touch, EmptyMap, Slot
  <1>4. QED
    BY <1>1, <1>2, <1>3, SyncerAssumption DEF Init, TypeOK, RunOK, WatchedChunk, NoRun

(* Type correctness is preserved by giving a pass up, whichever save went   *)
(* through.                                                                 *)
LEMMA GiveUpType ==
    ASSUME TypeOK, NEW saved \in BOOLEAN, GiveUp(saved),
           balances' \in [inner : [Addr -> Slot], cursor : Nat],
           watch' \in [hash : Nat \X Nat, recent : Seq(WatchedChunk)],
           changed' \in [Addr -> Slot],
           faults' \in Nat, crashes' \in Nat
    PROVE  TypeOK' /\ RunOK'
  <1>1. /\ pc' = "poll" /\ mode' = mode /\ published' = published
        /\ snapshot' = balances' \/ snapshot' = snapshot
        /\ run' = NoRun /\ seen' = NothingSeen /\ inserted' = {}
        /\ UNCHANGED chainVars
    BY DEF GiveUp, SyncOver
  <1>2. ChainTypeOK'
    BY <1>1 DEF TypeOK, ChainTypeOK, chainVars, Height
  <1>3. snapshot' \in [inner : [Addr -> Slot], cursor : Nat]
    <2>1. snapshot \in [inner : [Addr -> Slot], cursor : Nat]
      BY DEF TypeOK
    <2>2. QED
      BY <1>1, <2>1
  <1>4. /\ inserted' \in SUBSET Addr
        /\ run' \in [lo : Nat, hi : Nat, to : Nat, chunk : Nat \ {0}]
        /\ seen' \in [Addr -> Touch]
    BY <1>1, WatchReads
  <1>5. /\ mode' \in {"catchup", "follow"} /\ published' \in [Addr -> Slot]
        /\ pc' \in {"poll", "repair", "resolve", "logs", "apply", "finish"}
    BY <1>1 DEF TypeOK
  <1>6. RunOK'
    BY <1>1 DEF RunOK
  <1>7. QED
    BY <1>2, <1>3, <1>4, <1>5, <1>6 DEF TypeOK

LEMMA ChunkAppliedType ==
    ASSUME TypeOK, RunOK, ChunkApplied
    PROVE  /\ balances' \in [inner : [Addr -> Slot], cursor : Nat]
           /\ watch' \in [hash : Nat \X Nat, recent : Seq(WatchedChunk)]
           /\ changed' \in [Addr -> Slot]
           /\ inserted' \in SUBSET Addr
  <1> DEFINE at == IF Touched = {} THEN NothingSeen ELSE BalanceAt(run.hi)
  <1>1. /\ run.hi \in Nat /\ run.hi > 0
        /\ Touched \in SUBSET Addr /\ NothingSeen \in [Addr -> Reading]
    <2>1. run.lo \in Nat /\ run.hi \in Nat
      BY DEF TypeOK
    <2>2. run.lo \in 1..run.hi
      BY DEF RunOK, ChunkApplied
    <2>3. run.hi > 0
      BY <2>1, <2>2
    <2>4. Touched \in SUBSET Addr /\ NothingSeen \in [Addr -> Reading]
      BY WatchReads DEF Touch, Reading
    <2>5. QED
      BY <2>1, <2>3, <2>4
  <1>2. at \in [Addr -> Reading]
    <2>1. Touched # {} => run.hi \in 1..Height
      BY <1>1, ChainReads DEF ChunkApplied, TypeOK
    <2>2. QED
      BY <1>1, <2>1, ChainReads DEF TypeOK
  <1>3. balances'.inner \in [Addr -> Slot] /\ balances'.cursor = run.hi
    <2>1. balances' = [inner  |-> ApplyAll(balances.inner, Touched, at, seen),
                       cursor |-> run.hi]
      BY DEF ChunkApplied
    <2> HIDE DEF at
    <2>2. QED
      BY <1>1, <1>2, <2>1, ApplyAllType DEF TypeOK
  <1>4. balances' \in [inner : [Addr -> Slot], cursor : Nat]
    BY <1>1, <1>3 DEF ChunkApplied
  <1>5. changed' \in [Addr -> Slot] /\ inserted' \in SUBSET Addr
    <2>1. /\ changed' = ChangedAfter(changed, inserted, balances.inner, Touched, at, seen)
          /\ inserted' = InsertedAfter(inserted, balances.inner, Touched, at, seen)
      BY DEF ChunkApplied
    <2> HIDE DEF at
    <2>2. QED
      BY <1>1, <1>2, <2>1, ChangedAfterType, InsertedAfterType DEF TypeOK
  <1>6. watch' \in [hash : Nat \X Nat, recent : Seq(WatchedChunk)]
    <2>1. Record(watch.recent, run.hi, Touched) \in Seq(WatchedChunk)
      BY <1>1, RecordType DEF TypeOK
    <2>2. QED
      BY <2>1 DEF ChunkApplied, TypeOK
  <1>7. QED
    BY <1>4, <1>5, <1>6

LEMMA PrunedType ==
    ASSUME TypeOK
    PROVE  /\ Pruned \in [inner : [Addr -> Slot], cursor : Nat]
           /\ WatchAtCursor \in [hash : Nat \X Nat, recent : Seq(WatchedChunk)]
  <1>1. Pruned \in [inner : [Addr -> Slot], cursor : Nat]
    BY PruneZeroKeeps DEF Pruned, TypeOK
  <1>2. HashAt(balances.cursor) \in Nat \X Nat
    BY ChainReads DEF TypeOK
  <1>3. Trim(watch.recent, RewindTo) \in Seq(WatchedChunk)
    BY TrimType, WatchReads DEF TypeOK
  <1>4. QED
    BY <1>1, <1>2, <1>3 DEF WatchAtCursor, TypeOK

LEMMA MineType ==
    ASSUME ChainTypeOK, Mine
    PROVE  ChainTypeOK' /\ Height' = Height + 1
  <1>1. PICK touch \in [Addr -> SUBSET Token], bal \in [Addr -> [Token -> 0..MaxBalance]] :
          chain' = Append(chain, [branch |-> branch, touch |-> touch, balance |-> bal])
    BY DEF Mine
  <1>2. [branch |-> branch, touch |-> touch, balance |-> bal] \in Block
    BY <1>1, ChainAssumption DEF Block, Reading, ChainTypeOK
  <1>3. chain' \in Seq(Block) /\ Len(chain') = Len(chain) + 1
    BY <1>1, <1>2, AppendProperties DEF ChainTypeOK
  <1>4. Height \in Nat
    BY ChainReads
  <1>5. QED
    BY <1>3, <1>4, ChainAssumption DEF Mine, ChainTypeOK, Height

LEMMA ReorgType ==
    ASSUME ChainTypeOK, Reorg
    PROVE  /\ ChainTypeOK'
           /\ Height' \in final..(Height - 1)
           /\ \A n \in 1..Height' : chain'[n] = chain[n]
  <1>1. PICK h \in final..(Height - 1) : chain' = SubSeq(chain, 1, h)
    BY DEF Reorg
  <1>2. /\ Height \in Nat /\ h \in Nat /\ h >= 1 /\ h <= Height
        /\ \A i \in 1..h : chain[i] \in Block
    <2>1. Height \in Nat /\ final \in 1..Height
      BY ChainReads DEF ChainTypeOK
    <2>2. h \in Nat /\ h >= 1 /\ h <= Height
      BY <1>1, <2>1
    <2>3. \A i \in 1..Height : chain[i] \in Block
      BY ChainReads
    <2>4. QED
      BY <2>1, <2>2, <2>3
  <1>3. /\ chain' \in Seq(Block) /\ Len(chain') = h
        /\ \A i \in 1..h : chain'[i] = chain[i]
    <2>1. /\ SubSeq(chain, 1, h) \in Seq(Block)
          /\ Len(SubSeq(chain, 1, h)) = IF 1 <= h THEN h - 1 + 1 ELSE 0
          /\ \A i \in 1..(h - 1 + 1) : SubSeq(chain, 1, h)[i] = chain[1 + i - 1]
      BY <1>2, SubSeqProperties
    <2>2. QED
      BY <1>1, <1>2, <2>1
  <1>4. QED
    BY <1>1, <1>2, <1>3 DEF Reorg, ChainTypeOK, Height

RunType == [lo : Nat, hi : Nat, to : Nat, chunk : Nat \ {0}]

LEMMA StartSyncRun ==
    ASSUME TypeOK, StartSync
    PROVE  run' \in RunType /\ run'.lo \in 1..run'.hi /\ run'.hi <= run'.to
  <1>1. /\ TipNow \in Nat /\ balances.cursor \in Nat
        /\ Chunk \in Nat \ {0} /\ TipNow > balances.cursor
    BY ChainReads, SyncerAssumption DEF TypeOK, StartSync
  <1> DEFINE hi == Smaller(balances.cursor + 1 + Chunk - 1, TipNow)
  <1>2. hi \in Nat /\ hi >= balances.cursor + 1 /\ hi <= TipNow
    BY <1>1 DEF Smaller
  <1>3. run' = [lo |-> balances.cursor + 1, hi |-> hi, to |-> TipNow, chunk |-> Chunk]
    BY DEF StartSync
  <1> HIDE DEF hi
  <1>4. QED
    BY <1>1, <1>2, <1>3 DEF RunType

LEMMA AfterChunkRun ==
    ASSUME run \in RunType, run.lo \in 1..run.hi, run.hi <= run.to, AfterChunk
    PROVE  /\ run' \in RunType /\ pc' \in {"logs", "finish"}
           /\ pc' = "logs" => /\ run'.lo = run.hi + 1
                              /\ run'.lo \in 1..run'.hi /\ run'.hi <= run'.to
                              /\ run'.to = run.to
  <1>1. CASE run.hi < run.to
    <2> DEFINE hi == Smaller(run.hi + run.chunk, run.to)
    <2>1. run.hi \in Nat /\ run.to \in Nat /\ run.chunk \in Nat \ {0}
      BY DEF RunType
    <2>2. hi \in Nat /\ hi >= run.hi + 1 /\ hi <= run.to
      BY <1>1, <2>1 DEF Smaller
    <2>3. pc' = "logs" /\ run' = [run EXCEPT !.lo = run.hi + 1, !.hi = hi]
      BY <1>1 DEF AfterChunk
    <2> HIDE DEF hi
    <2>4. run' = [lo |-> run.hi + 1, hi |-> hi, to |-> run.to, chunk |-> run.chunk]
      BY <2>3 DEF RunType
    <2>5. run' \in RunType
      BY <2>1, <2>2, <2>4 DEF RunType
    <2>6. QED
      BY <2>1, <2>2, <2>3, <2>4, <2>5
  <1>2. CASE ~(run.hi < run.to)
    BY <1>2 DEF AfterChunk
  <1>3. QED
    BY <1>1, <1>2

LEMMA NarrowRun ==
    ASSUME run \in RunType, run.lo \in 1..run.hi, run.hi <= run.to, NarrowRange
    PROVE  /\ run' \in RunType /\ run'.lo = run.lo /\ run'.to = run.to
           /\ run'.lo \in 1..run'.hi /\ run'.hi <= run'.to
  <1> DEFINE hi == run.lo + (run.hi - run.lo) \div 2
             chunk == IF run.chunk \div 2 > 1 THEN run.chunk \div 2 ELSE 1
  <1>1. /\ run.lo \in Nat /\ run.hi \in Nat /\ run.to \in Nat /\ run.chunk \in Nat
        /\ run.hi > run.lo
    BY DEF RunType, NarrowRange
  <1>2. hi \in Nat /\ hi >= run.lo /\ hi <= run.hi
    BY <1>1
  <1>3. chunk \in Nat \ {0}
    BY <1>1
  <1>4. run' = [run EXCEPT !.hi = hi, !.chunk = chunk]
    BY DEF NarrowRange
  <1> HIDE DEF hi, chunk
  <1>5. run' \in RunType /\ run'.lo = run.lo /\ run'.to = run.to /\ run'.hi = hi
    BY <1>2, <1>3, <1>4 DEF RunType
  <1>6. QED
    BY <1>1, <1>2, <1>5

LEMMA TypeStep ==
    ASSUME TypeOK, RunOK, [Next]_vars
    PROVE  TypeOK' /\ RunOK'
  <1> USE DEF chainVars, budget, ChainTypeOK, Height
  <1>1. CASE CheckCursorHash
    BY <1>1, WatchReads DEF CheckCursorHash, TypeOK, RunOK
  <1>2. CASE Repair
    <2>1. BalanceAt(RewindTo) \in [Addr -> Reading]
      BY <1>2, ChainReads DEF Repair, TypeOK
    <2>2. ApplyAll(balances.inner, Stale, BalanceAt(RewindTo), NothingSeen) \in [Addr -> Slot]
      BY <2>1, WatchReads, ApplyAllType DEF TypeOK
    <2>3. QED
      BY <1>2, <2>2, WatchReads DEF Repair, TypeOK, RunOK
  <1>3. CASE StartSync
    BY <1>3, StartSyncRun, WatchReads DEF StartSync, RunType, TypeOK, RunOK
  <1>4. CASE AtTip
    BY <1>4, WatchReads DEF AtTip, Spawned, TypeOK, RunOK
  <1>5. CASE FetchLogs
    <2>1. SeenIn(run.lo, run.hi) \in [Addr -> Touch]
      BY SeenInType DEF TypeOK
    <2>2. QED
      BY <1>5, <2>1 DEF FetchLogs, TypeOK, RunOK
  <1>6. CASE NarrowRange
    BY <1>6, NarrowRun DEF NarrowRange, RunType, TypeOK, RunOK
  <1>7. CASE ApplyChunk
    <2>1. run \in RunType /\ run.lo \in 1..run.hi /\ run.hi <= run.to
      BY <1>7 DEF ApplyChunk, ChunkApplied, RunType, TypeOK, RunOK
    <2>2. ChunkApplied /\ AfterChunk
      BY <1>7 DEF ApplyChunk
    <2>3. /\ run' \in RunType /\ pc' \in {"logs", "finish"} /\ RunOK'
      BY <2>1, <2>2, AfterChunkRun DEF RunOK
    <2>4. /\ balances' \in [inner : [Addr -> Slot], cursor : Nat]
          /\ watch' \in [hash : Nat \X Nat, recent : Seq(WatchedChunk)]
          /\ changed' \in [Addr -> Slot] /\ inserted' \in SUBSET Addr
      BY <2>2, ChunkAppliedType
    <2>5. UNCHANGED <<chainVars, mode, published, faults, crashes>>
      BY <1>7, <2>2 DEF ApplyChunk, ChunkApplied
    <2>6. /\ snapshot' \in [inner : [Addr -> Slot], cursor : Nat]
          /\ seen' \in [Addr -> Touch]
      BY <1>7, <2>4, WatchReads DEF ApplyChunk, TypeOK
    <2>7. ChainTypeOK' /\ mode' = mode /\ published' = published
          /\ faults' \in Nat /\ crashes' \in Nat
      BY <2>5 DEF TypeOK
    <2>8. QED
      BY <2>3, <2>4, <2>6, <2>7 DEF RunType, TypeOK
  <1>8. CASE FinishPass
    BY <1>8, PrunedType, AbsorbType, WatchReads DEF FinishPass, SyncOver, TypeOK, RunOK
  <1>9. CASE FinishCatchUp
    BY <1>9, PrunedType, WatchReads DEF FinishCatchUp, Spawned, SyncOver, TypeOK, RunOK
  <1>10. CASE BlockMissing
    <2>1. GiveUp(TRUE) /\ UNCHANGED <<balances, watch, changed, faults, crashes>>
      BY <1>10 DEF BlockMissing
    <2>2. QED
      BY <2>1, GiveUpType DEF TypeOK
  <1>11. CASE RpcFails
    <2>1. PICK saved \in BOOLEAN : GiveUp(saved)
      BY <1>11 DEF RpcFails
    <2>2. /\ UNCHANGED <<balances, watch, changed, crashes>>
          /\ faults' = faults + 1
      BY <1>11 DEF RpcFails
    <2>3. /\ faults' \in Nat /\ crashes' \in Nat
          /\ balances' \in [inner : [Addr -> Slot], cursor : Nat]
          /\ watch' \in [hash : Nat \X Nat, recent : Seq(WatchedChunk)]
          /\ changed' \in [Addr -> Slot]
      BY <2>2 DEF TypeOK
    <2>4. QED
      BY <2>1, <2>3, GiveUpType
  <1>12. CASE ChunkSaveFails
    <2>1. PICK saved \in BOOLEAN : GiveUp(saved)
      BY <1>12 DEF ChunkSaveFails
    <2>2. ChunkApplied /\ crashes' = crashes /\ faults' = faults + 1
      BY <1>12 DEF ChunkSaveFails
    <2>3. faults' \in Nat /\ crashes' \in Nat
      BY <2>2 DEF TypeOK
    <2>4. QED
      BY <2>1, <2>2, <2>3, GiveUpType, ChunkAppliedType
  <1>13. CASE HashFails
    <2>1. PICK saved \in BOOLEAN : GiveUp(saved)
      BY <1>13 DEF HashFails
    <2>2. /\ balances' = Pruned /\ UNCHANGED <<watch, changed, crashes>>
          /\ faults' = faults + 1
      BY <1>13 DEF HashFails
    <2>3. /\ faults' \in Nat /\ crashes' \in Nat
          /\ watch' \in [hash : Nat \X Nat, recent : Seq(WatchedChunk)]
          /\ changed' \in [Addr -> Slot]
      BY <2>2 DEF TypeOK
    <2>4. balances' \in [inner : [Addr -> Slot], cursor : Nat]
      BY <2>2, PrunedType
    <2>5. QED
      BY <2>1, <2>3, <2>4, GiveUpType
  <1>14. CASE FinalSaveFails
    <2>1. PICK saved \in BOOLEAN : GiveUp(saved)
      BY <1>14 DEF FinalSaveFails
    <2>2. /\ balances' = Pruned /\ UNCHANGED <<changed, crashes>>
          /\ watch' \in {WatchAtCursor, watch}
          /\ faults' = faults + 1
      BY <1>14 DEF FinalSaveFails
    <2>3. /\ faults' \in Nat /\ crashes' \in Nat
          /\ watch' \in [hash : Nat \X Nat, recent : Seq(WatchedChunk)]
          /\ changed' \in [Addr -> Slot]
      <3>1. faults' \in Nat /\ crashes' \in Nat
        BY <2>2 DEF TypeOK
      <3>2. watch \in [hash : Nat \X Nat, recent : Seq(WatchedChunk)]
        BY DEF TypeOK
      <3>3. watch' \in [hash : Nat \X Nat, recent : Seq(WatchedChunk)]
        BY <2>2, <3>2, PrunedType
      <3>4. changed' \in [Addr -> Slot]
        BY <2>2 DEF TypeOK
      <3>5. QED
        BY <3>1, <3>3, <3>4
    <2>4. balances' \in [inner : [Addr -> Slot], cursor : Nat]
      BY <2>2, PrunedType
    <2>5. QED
      BY <2>1, <2>3, <2>4, GiveUpType
  <1>15. CASE Restart
    <2>1. /\ balances' = snapshot /\ watch' = FreshWatch /\ changed' = EmptyMap
          /\ mode' = "catchup" /\ pc' = "poll" /\ published' = EmptyMap
          /\ run' = NoRun /\ seen' = NothingSeen /\ inserted' = {}
          /\ crashes' = crashes + 1 /\ faults' = faults
          /\ snapshot' = snapshot /\ UNCHANGED chainVars
      BY <1>15 DEF Restart, SyncOver
    <2>2. ChainTypeOK'
      BY <2>1 DEF TypeOK, ChainTypeOK, chainVars, Height
    <2>3. /\ balances' \in [inner : [Addr -> Slot], cursor : Nat]
          /\ snapshot' \in [inner : [Addr -> Slot], cursor : Nat]
      BY <2>1 DEF TypeOK
    <2>4. /\ watch' \in [hash : Nat \X Nat, recent : Seq(WatchedChunk)]
          /\ changed' \in [Addr -> Slot] /\ published' \in [Addr -> Slot]
      BY <2>1, WatchReads
    <2>5. /\ inserted' \in SUBSET Addr
          /\ run' \in [lo : Nat, hi : Nat, to : Nat, chunk : Nat \ {0}]
          /\ seen' \in [Addr -> Touch]
      BY <2>1, WatchReads
    <2>6. faults' \in Nat /\ crashes' \in Nat
      BY <2>1 DEF TypeOK
    <2>7. /\ mode' \in {"catchup", "follow"}
          /\ pc' \in {"poll", "repair", "resolve", "logs", "apply", "finish"}
          /\ RunOK'
      BY <2>1 DEF RunOK
    <2>8. QED
      BY <2>2, <2>3, <2>4, <2>5, <2>6, <2>7 DEF TypeOK
  <1>16. CASE Environment
    <2>1. ChainTypeOK'
      BY <1>16, MineType, ReorgType DEF Environment, ChainNext, TypeOK
    <2>2. QED
      BY <1>16, <2>1 DEF Environment, syncVars, TypeOK, RunOK
  <1>17. CASE UNCHANGED vars
    BY <1>17 DEF vars, syncVars, TypeOK, RunOK
  <1>18. QED
    BY <1>1, <1>2, <1>3, <1>4, <1>5, <1>6, <1>7, <1>8, <1>9, <1>10, <1>11, <1>12, <1>13,
       <1>14, <1>15, <1>16, <1>17 DEF Next, Step, Fault

(* The state of the syncer is well-formed at every await, under every tip   *)
(* policy and every fault.                                                  *)
THEOREM SyncerTypeOK == Spec => []TypeOK
  <1>1. Init => TypeOK /\ RunOK
    BY TypeInit
  <1>2. TypeOK /\ RunOK /\ [Next]_vars => (TypeOK /\ RunOK)'
    BY TypeStep
  <1>3. QED
    BY <1>1, <1>2, PTL DEF Spec

--------------------------------------------------------------------------------
(* The rewind.                                                              *)

(* As long as nothing failed and no block was replaced: there is one        *)
(* branch, the syncer stays within it, and the hash stored when a pass ended *)
(* is that of the cursor block until the next one begins.                   *)
UndisturbedInv ==
    faults = 0 /\ branch = 1 =>
        /\ \A n \in 1..Height : chain[n].branch = 1
        /\ balances.cursor \in 1..Height /\ snapshot.cursor \in 1..Height
        /\ pc # "repair"
        /\ pc \in {"logs", "apply"} => run.lo = balances.cursor + 1
        /\ pc \in {"logs", "apply", "finish"} => run.to <= Height
        /\ pc \in {"poll", "resolve"} /\ ~Finalized /\ watch.hash # NoHash =>
              watch.hash = HashAt(balances.cursor)

LEMMA TipBelowHeight ==
    ASSUME ChainTypeOK
    PROVE  TipNow \in Nat /\ TipNow <= Height
  BY ChainReads, SyncerAssumption DEF TipNow, Minus, ChainTypeOK

(* The fold of a chunk takes the cursor forward, within the chain.          *)
LEMMA ChunkUndisturbed ==
    ASSUME TypeOK, RunOK, UndisturbedInv, ChunkApplied, faults = 0, branch = 1
    PROVE  /\ UNCHANGED chainVars
           /\ balances'.cursor = run.hi /\ run.hi \in 1..Height /\ run.hi > balances.cursor
  <1>1. pc = "apply" /\ UNCHANGED chainVars /\ balances'.cursor = run.hi
    BY DEF ChunkApplied
  <1>2. run.lo \in 1..run.hi /\ run.hi <= run.to /\ run.hi \in Nat /\ run.to \in Nat
    BY <1>1 DEF RunOK, TypeOK
  <1>3. run.lo = balances.cursor + 1 /\ run.to <= Height
    BY <1>1 DEF UndisturbedInv
  <1>4. balances.cursor \in Nat /\ Height \in Nat
    BY ChainReads DEF TypeOK
  <1>5. QED
    BY <1>1, <1>2, <1>3, <1>4

LEMMA UndisturbedStep ==
    ASSUME TypeOK, RunOK, UndisturbedInv, [Next]_vars
    PROVE  UndisturbedInv'
  <1> SUFFICES ASSUME faults' = 0, branch' = 1
               PROVE  UndisturbedInv'
    BY DEF UndisturbedInv
  <1>1. Height \in Nat /\ faults \in Nat /\ branch \in Nat \ {0} /\ balances.cursor \in Nat
    BY ChainReads DEF TypeOK, ChainTypeOK
  <1>2. CASE CheckCursorHash
    <2>1. /\ UNCHANGED <<chain, branch, snapshot, run, faults>> /\ pc = "poll"
          /\ watch.hash # NoHash /\ ~Finalized
      BY <1>2 DEF CheckCursorHash, Armed, chainVars, budget
    <2>2. HashAt(balances.cursor) = watch.hash
      BY <2>1 DEF UndisturbedInv
    <2>3. pc' = "resolve" /\ UNCHANGED <<balances, watch>>
      BY <1>2, <2>2 DEF CheckCursorHash
    <2>4. QED
      BY <2>1, <2>2, <2>3 DEF UndisturbedInv, Height, HashAt
  <1>3. CASE Repair
    BY <1>3 DEF Repair, UndisturbedInv, chainVars, budget
  <1>4. CASE StartSync
    <2>1. /\ UNCHANGED <<chain, branch, balances, snapshot, faults>> /\ pc' = "logs"
          /\ run'.lo = balances.cursor + 1 /\ run'.to = TipNow
      BY <1>4 DEF StartSync, chainVars, budget
    <2>2. TipNow <= Height
      BY TipBelowHeight DEF TypeOK
    <2>3. QED
      BY <2>1, <2>2 DEF UndisturbedInv, Height
  <1>5. CASE AtTip
    <2>1. /\ UNCHANGED <<chain, branch, balances, snapshot, faults>> /\ pc' = "poll"
          /\ pc \in {"poll", "resolve"}
      BY <1>5 DEF AtTip, Resolving, chainVars, budget
    <2>2. watch' = watch \/ watch'.hash = NoHash
      BY <1>5 DEF AtTip, Spawned, FreshWatch
    <2>3. QED
      BY <2>1, <2>2 DEF UndisturbedInv, Height, HashAt
  <1>6. CASE FetchLogs
    BY <1>6 DEF FetchLogs, UndisturbedInv, Height, chainVars, budget
  <1>7. CASE NarrowRange
    <2>1. run'.lo = run.lo /\ run'.to = run.to
      BY <1>7 DEF NarrowRange, TypeOK
    <2>2. QED
      BY <1>7, <2>1 DEF NarrowRange, UndisturbedInv, Height, chainVars, budget
  <1>8. CASE ApplyChunk
    <2>1. ChunkApplied /\ AfterChunk /\ faults' = faults /\ snapshot' \in {snapshot, balances'}
      BY <1>8 DEF ApplyChunk, budget
    <2>2. /\ UNCHANGED <<chain, branch>> /\ pc = "apply"
      BY <2>1 DEF ChunkApplied, chainVars
    <2>3. balances'.cursor = run.hi /\ run.hi \in 1..Height
      BY <2>1, <2>2, ChunkUndisturbed
    <2>4. /\ pc' \in {"logs", "finish"} /\ run'.to = run.to
          /\ pc' = "logs" => run'.lo = run.hi + 1
      BY <2>1 DEF AfterChunk, TypeOK
    <2>5. QED
      BY <2>1, <2>2, <2>3, <2>4 DEF UndisturbedInv, Height
  <1>9. CASE FinishPass
    <2>1. /\ UNCHANGED <<chain, branch, faults>> /\ pc = "finish" /\ pc' = "poll"
          /\ balances' = Pruned /\ snapshot' = Pruned /\ watch' = WatchAtCursor
      BY <1>9 DEF FinishPass, chainVars, budget
    <2>2. Pruned.cursor = balances.cursor
      BY DEF Pruned, TypeOK
    <2>3. ~Finalized => watch'.hash = HashAt(balances.cursor)
      BY <2>1 DEF WatchAtCursor
    <2>4. QED
      BY <2>1, <2>2, <2>3 DEF UndisturbedInv, Height, HashAt
  <1>10. CASE FinishCatchUp
    <2>1. /\ UNCHANGED <<chain, branch, faults>> /\ pc' = "poll"
          /\ balances' = Pruned /\ snapshot' = Pruned /\ watch'.hash = NoHash
      BY <1>10 DEF FinishCatchUp, Spawned, FreshWatch, chainVars, budget
    <2>2. Pruned.cursor = balances.cursor
      BY DEF Pruned, TypeOK
    <2>3. QED
      BY <2>1, <2>2 DEF UndisturbedInv, Height
  <1>11. CASE BlockMissing
    <2>1. /\ UNCHANGED <<chain, branch, faults>>
          /\ pc = "repair" \/ (pc = "apply" /\ run.hi > Height)
      BY <1>11 DEF BlockMissing, GiveUp, chainVars, budget
    <2>2. pc = "apply" /\ run.hi > Height /\ run.to <= Height
      BY <2>1 DEF UndisturbedInv
    <2>3. run.hi <= run.to /\ run.hi \in Nat /\ run.to \in Nat
      BY <2>2 DEF RunOK, TypeOK
    <2>4. QED
      BY <1>1, <2>2, <2>3
  <1>12. CASE RpcFails \/ ChunkSaveFails \/ HashFails \/ FinalSaveFails
    BY <1>1, <1>12 DEF RpcFails, ChunkSaveFails, HashFails, FinalSaveFails
  <1>13. CASE Restart
    <2>1. /\ UNCHANGED <<chain, branch, faults, snapshot>> /\ pc' = "poll"
          /\ balances' = snapshot /\ watch'.hash = NoHash
      BY <1>13 DEF Restart, FreshWatch, chainVars
    <2>2. QED
      BY <2>1 DEF UndisturbedInv, Height
  <1>14. CASE Environment
    <2>1. UNCHANGED <<balances, snapshot, watch, run, pc, faults>>
      BY <1>14 DEF Environment, syncVars, budget
    <2>2. CASE Mine
      <3>1. PICK touch, bal : chain' = Append(chain, [branch |-> branch, touch |-> touch,
                                                      balance |-> bal])
        BY <2>2 DEF Mine
      <3>2. branch' = branch
        BY <2>2 DEF Mine
      <3>3. /\ Len(chain') = Height + 1 /\ chain'[Height + 1].branch = 1
            /\ \A n \in 1..Height : chain'[n] = chain[n]
        BY <1>1, <3>1, <3>2 DEF Height, TypeOK, ChainTypeOK
      <3>4. /\ \A n \in 1..Height : chain[n].branch = 1
            /\ balances.cursor \in 1..Height
        BY <2>1, <3>2 DEF UndisturbedInv
      <3>5. Height' = Height + 1 /\ \A n \in 1..Height' : chain'[n].branch = 1
        BY <1>1, <3>3, <3>4 DEF Height
      <3>6. HashAt(balances.cursor)' = HashAt(balances.cursor)
        BY <1>1, <2>1, <3>3, <3>4, <3>5 DEF HashAt
      <3>7. run \in [lo : Nat, hi : Nat, to : Nat, chunk : Nat \ {0}]
        BY DEF TypeOK
      <3>8. QED
        BY <1>1, <2>1, <3>2, <3>5, <3>6, <3>7 DEF UndisturbedInv
    <2>3. CASE Reorg
      BY <1>1, <2>3 DEF Reorg
    <2>4. QED
      BY <1>14, <2>2, <2>3 DEF Environment, ChainNext
  <1>15. CASE UNCHANGED vars
    BY <1>15 DEF vars, chainVars, syncVars, budget, UndisturbedInv, Height, HashAt
  <1>16. QED
    BY <1>2, <1>3, <1>4, <1>5, <1>6, <1>7, <1>8, <1>9, <1>10, <1>11, <1>12, <1>13, <1>14,
       <1>15 DEF Next, Step, Fault

LEMMA CursorMoves ==
    ASSUME TypeOK, RunOK, UndisturbedInv, Next, faults = 0, branch = 1, crashes' = crashes
    PROVE  balances'.cursor >= balances.cursor
  <1>1. balances.cursor \in Nat /\ crashes \in Nat /\ Pruned.cursor = balances.cursor
    BY DEF TypeOK, Pruned
  <1>2. CASE balances' = balances \/ balances' = Pruned
    BY <1>1, <1>2
  <1>3. CASE ChunkApplied
    <2>1. balances'.cursor = run.hi /\ run.hi \in Nat /\ run.hi > balances.cursor
      BY <1>3, ChunkUndisturbed DEF TypeOK
    <2>2. QED
      BY <1>1, <2>1
  <1>4. CASE CheckCursorHash \/ Repair
    BY <1>2, <1>4 DEF CheckCursorHash, Armed, Repair, UndisturbedInv
  <1>5. CASE Restart
    BY <1>1, <1>5 DEF Restart
  <1>6. QED
    BY <1>2, <1>3, <1>4, <1>5
    DEF Next, Step, Fault, StartSync, AtTip, FetchLogs, NarrowRange, ApplyChunk, FinishPass,
        FinishCatchUp, BlockMissing, RpcFails, ChunkSaveFails, HashFails, FinalSaveFails,
        Environment, syncVars

(* Under every tip policy and through restarts: until something fails, only *)
(* a replaced block makes the syncer go back.                               *)
THEOREM SyncerRewindNeedsReorg == Spec => RewindNeedsReorg
  <1>1. Init => TypeOK /\ RunOK /\ UndisturbedInv
    <2> SUFFICES ASSUME Init PROVE UndisturbedInv
      BY TypeInit
    <2>1. /\ pc = "poll" /\ watch.hash = NoHash
          /\ balances.cursor = Origin /\ snapshot = balances
      BY DEF Init, FreshWatch
    <2>2. Origin \in Nat /\ Origin > 0
      BY ChainAssumption
    <2>3. PICK start \in [Addr -> [Token -> 0..MaxBalance]] :
            chain = [n \in 1..Origin |->
                       [branch |-> 1, touch |-> [a \in Addr |-> {}], balance |-> start]]
      BY DEF Init, ChainInit
    <2>4. Height \in Nat /\ DOMAIN chain = 1..Height
      BY TypeInit, LenProperties DEF TypeOK, ChainTypeOK, Height
    <2>5. DOMAIN chain = 1..Origin /\ \A n \in 1..Origin : chain[n].branch = 1
      BY <2>3
    <2>6. Height = Origin
      <3>1. 1..Height = 1..Origin
        BY <2>4, <2>5
      <3>2. QED
        BY <2>2, <2>4, <3>1
    <2>7. QED
      BY <2>1, <2>2, <2>5, <2>6 DEF UndisturbedInv
  <1>2. TypeOK /\ RunOK /\ UndisturbedInv /\ [Next]_vars => (TypeOK /\ RunOK /\ UndisturbedInv)'
    BY TypeStep, UndisturbedStep
  <1>3. TypeOK /\ RunOK /\ UndisturbedInv /\ [Next]_vars
          => [balances'.cursor < balances.cursor /\ crashes' = crashes /\ faults = 0
                => branch > 1]_vars
    <2> SUFFICES ASSUME TypeOK, RunOK, UndisturbedInv, TypeOK', Next, crashes' = crashes,
                        faults = 0, balances'.cursor < balances.cursor
                 PROVE  branch > 1
      BY TypeStep
    <2>1. /\ branch \in Nat \ {0} /\ balances.cursor \in Nat /\ balances'.cursor \in Nat
      BY DEF TypeOK, ChainTypeOK
    <2>2. branch = 1 => balances'.cursor >= balances.cursor
      BY CursorMoves
    <2>3. QED
      BY <2>1, <2>2
  <1>4. QED
    BY <1>1, <1>2, <1>3, PTL DEF Spec, RewindNeedsReorg

--------------------------------------------------------------------------------
(* Under `--confirmations finalized` the balance map and the snapshot file  *)
(* are exact at every await: for every chain, chunk size, provider limit,   *)
(* fault and restart.  Everything the syncer reads lies at or below the     *)
(* final block, which no reorganisation replaces; what it has not read      *)
(* again it need not, since a balance only moves in a block with a watched  *)
(* event.                                                                   *)

(* A balance only moves in a block with a watched event of its token. *)
ChainMoves ==
    \A a \in Addr, t \in Token, m \in 1..Height : \A n \in m..Height :
        (\A k \in (m + 1)..n : t \notin chain[k].touch[a]) =>
            BalanceAt(n)[a][t] = BalanceAt(m)[a][t]

(* The sync works above the cursor and never above the final block. *)
BelowFinal ==
    /\ balances.cursor \in 1..final
    /\ snapshot.cursor \in 1..final
    /\ pc \in {"logs", "apply"} => run.to <= final /\ run.lo = balances.cursor + 1
    /\ pc # "repair"

(* What collect_touched found is still what the chunk holds. *)
SeenCurrent == pc = "apply" => seen = SeenIn(run.lo, run.hi)

FinalInv ==
    /\ TypeOK /\ RunOK
    /\ ChainMoves /\ BelowFinal /\ SeenCurrent
    /\ MapExact /\ SnapshotExact

-------------------------------------------------------------------------------
(* The chain. *)

(* No step of the chain touches a block at or below the final one.          *)
LEMMA FinalPrefix ==
    ASSUME ChainTypeOK, ChainNext
    PROVE  /\ ChainTypeOK' /\ final' \in final..Height'
           /\ Height' \in Nat /\ final \in 1..Height
           /\ \A n \in 1..final : chain'[n] = chain[n]
  <1>1. Height \in Nat /\ final \in 1..Height
    BY ChainReads DEF ChainTypeOK
  <1>2. CASE Mine
    <2>1. ChainTypeOK' /\ Height' = Height + 1
      BY <1>2, MineType
    <2>2. final' = IF Height + 1 >= final + FinalityLag
                     THEN Height + 1 - FinalityLag ELSE final
      BY <1>2 DEF Mine
    <2>3. final' \in final..Height'
      BY <1>1, <2>1, <2>2, ChainAssumption
    <2>4. \A n \in 1..Height : chain'[n] = chain[n]
      <3>1. PICK touch \in [Addr -> SUBSET Token], bal \in [Addr -> [Token -> 0..MaxBalance]] :
              chain' = Append(chain, [branch |-> branch, touch |-> touch, balance |-> bal])
        BY <1>2 DEF Mine
      <3>2. [branch |-> branch, touch |-> touch, balance |-> bal] \in Block
        BY <3>1, ChainAssumption DEF Block, Reading, ChainTypeOK
      <3>3. QED
        BY <3>1, <3>2, AppendProperties DEF ChainTypeOK, Height
    <2>5. QED
      BY <1>1, <2>1, <2>3, <2>4
  <1>3. CASE Reorg
    <2>1. /\ ChainTypeOK' /\ Height' \in final..(Height - 1)
          /\ \A n \in 1..Height' : chain'[n] = chain[n]
      BY <1>3, ReorgType
    <2>2. final' = final
      BY <1>3 DEF Reorg
    <2>3. QED
      BY <1>1, <2>1, <2>2
  <1>4. QED
    BY <1>2, <1>3 DEF ChainNext

(* A mined block moves no balance it has no event for; a branch that is cut *)
(* short keeps the blocks below the cut.                                    *)
LEMMA ChainMovesKept ==
    ASSUME ChainTypeOK, ChainMoves, ChainNext
    PROVE  ChainMoves'
  <1>1. Height \in Nat
    BY ChainReads
  <1>2. CASE Mine
    <2>1. PICK touch \in [Addr -> SUBSET Token], bal \in [Addr -> [Token -> 0..MaxBalance]] :
            /\ \A a \in Addr, t \in Token :
                  t \notin touch[a] => bal[a][t] = BalanceAt(Height)[a][t]
            /\ chain' = Append(chain, [branch |-> branch, touch |-> touch, balance |-> bal])
      BY <1>2 DEF Mine
    <2>2. [branch |-> branch, touch |-> touch, balance |-> bal] \in Block
      BY <2>1, ChainAssumption DEF Block, Reading, ChainTypeOK
    <2>3. /\ Height' = Height + 1 /\ Height >= 1
          /\ \A n \in 1..Height : chain'[n] = chain[n]
          /\ chain'[Height + 1] = [branch |-> branch, touch |-> touch, balance |-> bal]
      BY <1>2, <2>1, <2>2, AppendProperties, MineType DEF ChainTypeOK, Height
    <2>6. ASSUME NEW a \in Addr, NEW t \in Token, NEW m \in 1..Height',
                 NEW n \in m..Height',
                 \A k \in (m + 1)..n : t \notin chain'[k].touch[a]
          PROVE  chain'[n].balance[a][t] = chain'[m].balance[a][t]
      <3>1. CASE n <= Height
        <4>1. m \in 1..Height /\ n \in m..Height
          BY <1>1, <2>3, <2>6, <3>1
        <4>2. \A k \in (m + 1)..n : t \notin chain[k].touch[a]
          BY <1>1, <2>3, <2>6, <4>1
        <4>3. BalanceAt(n)[a][t] = BalanceAt(m)[a][t]
          BY <4>1, <4>2 DEF ChainMoves
        <4>4. QED
          BY <1>1, <2>3, <4>1, <4>3 DEF BalanceAt
      <3>2. CASE m <= Height /\ n = Height + 1
        <4>1. m \in 1..Height /\ Height \in m..Height
          BY <1>1, <3>2
        <4>2. \A k \in (m + 1)..Height : t \notin chain[k].touch[a]
          BY <1>1, <2>3, <2>6, <3>2
        <4>3. BalanceAt(Height)[a][t] = BalanceAt(m)[a][t]
          BY <4>1, <4>2 DEF ChainMoves
        <4>4. t \notin touch[a]
          <5>1. Height + 1 \in (m + 1)..n
            BY <1>1, <2>6, <3>2
          <5>2. QED
            BY <2>3, <2>6, <5>1
        <4>5. bal[a][t] = BalanceAt(Height)[a][t]
          BY <2>1, <4>4
        <4>6. QED
          BY <2>3, <3>2, <4>1, <4>3, <4>5 DEF BalanceAt
      <3>3. CASE m = Height + 1
        BY <1>1, <2>3, <3>3
      <3>4. QED
        BY <1>1, <2>3, <3>1, <3>2, <3>3
    <2>7. QED
      BY <2>6 DEF ChainMoves, BalanceAt
  <1>3. CASE Reorg
    <2>1. /\ Height' \in final..(Height - 1)
          /\ \A n \in 1..Height' : chain'[n] = chain[n]
      BY <1>3, ReorgType
    <2>2. final \in 1..Height
      BY DEF ChainTypeOK
    <2>3. ASSUME NEW a \in Addr, NEW t \in Token, NEW m \in 1..Height',
                 NEW n \in m..Height',
                 \A k \in (m + 1)..n : t \notin chain'[k].touch[a]
          PROVE  chain'[n].balance[a][t] = chain'[m].balance[a][t]
      <3>1. m \in 1..Height /\ n \in m..Height /\ m \in 1..Height' /\ n \in 1..Height'
        BY <1>1, <2>1, <2>2
      <3>2. \A k \in (m + 1)..n : t \notin chain[k].touch[a]
        BY <1>1, <2>1, <2>2, <2>3, <3>1
      <3>3. BalanceAt(n)[a][t] = BalanceAt(m)[a][t]
        BY <3>1, <3>2 DEF ChainMoves
      <3>4. QED
        BY <2>1, <3>1, <3>3 DEF BalanceAt
    <2>4. QED
      BY <2>3 DEF ChainMoves, BalanceAt
  <1>4. QED
    BY <1>2, <1>3 DEF ChainNext

(* An address without an event keeps both balances.                         *)
LEMMA WholeMoves ==
    ASSUME ChainTypeOK, ChainMoves, NEW a \in Addr, NEW m \in 1..Height, NEW n \in m..Height,
           \A k \in (m + 1)..n : chain[k].touch[a] = {}
    PROVE  BalanceAt(n)[a] = BalanceAt(m)[a]
  <1>1. n \in 1..Height /\ BalanceAt(n) \in [Addr -> Reading] /\ BalanceAt(m) \in [Addr -> Reading]
    BY ChainReads
  <1>2. \A t \in Token : BalanceAt(n)[a][t] = BalanceAt(m)[a][t]
    BY DEF ChainMoves
  <1>3. QED
    BY <1>1, <1>2 DEF Reading

(* So neither a sync in flight nor what it has folded in goes stale.        *)
LEMMA EnvironmentKeeps ==
    ASSUME Finalized, FinalInv, Environment
    PROVE  ChainMoves' /\ BelowFinal' /\ SeenCurrent' /\ MapExact' /\ SnapshotExact'
  <1>1. ChainTypeOK /\ ChainNext /\ UNCHANGED syncVars
    BY DEF FinalInv, TypeOK, Environment
  <1>2. /\ ChainTypeOK' /\ final' \in final..Height'
        /\ Height \in Nat /\ Height' \in Nat /\ final \in 1..Height
        /\ \A n \in 1..final : chain'[n] = chain[n]
    BY <1>1, FinalPrefix, ChainReads
  <1>3. ChainMoves'
    BY <1>1, ChainMovesKept DEF FinalInv
  <1>4. BelowFinal'
    BY <1>1, <1>2 DEF FinalInv, BelowFinal, syncVars, TypeOK
  <1>5. MapExact'
    <2>1. balances' = balances /\ balances.cursor \in 1..final
      BY <1>1 DEF syncVars, FinalInv, BelowFinal
    <2>2. \A n \in 1..balances.cursor : chain'[n] = chain[n]
      BY <1>2, <2>1
    <2>3. balances.cursor \in 1..Height'
      BY <1>2, <2>1
    <2>4. \A a \in Addr : SlotExact(balances, a)'
      BY <2>1, <2>2 DEF FinalInv, MapExact, Exact, SlotExact, BalanceAt
    <2>5. QED
      BY <2>1, <2>3, <2>4 DEF MapExact, Exact
  <1>6. SnapshotExact'
    <2>1. snapshot' = snapshot /\ snapshot.cursor \in 1..final
      BY <1>1 DEF syncVars, FinalInv, BelowFinal
    <2>2. \A n \in 1..snapshot.cursor : chain'[n] = chain[n]
      BY <1>2, <2>1
    <2>3. snapshot.cursor \in 1..Height'
      BY <1>2, <2>1
    <2>4. \A a \in Addr : SlotExact(snapshot, a)'
      BY <2>1, <2>2 DEF FinalInv, SnapshotExact, Exact, SlotExact, BalanceAt
    <2>5. QED
      BY <2>1, <2>3, <2>4 DEF SnapshotExact, Exact
  <1>7. SeenCurrent'
    <2>1. SUFFICES ASSUME pc = "apply"
                   PROVE  SeenIn(run.lo, run.hi)' = SeenIn(run.lo, run.hi)
      BY <1>1 DEF SeenCurrent, syncVars, FinalInv
    <2>2. run' = run /\ run.lo \in Nat /\ run.hi \in Nat /\ run.lo >= 1 /\ run.hi <= final
      BY <1>1, <1>2, <2>1 DEF FinalInv, RunOK, BelowFinal, TypeOK, syncVars
    <2>3. ASSUME NEW a \in Addr, NEW t \in Token
          PROVE  {n \in run.lo..run.hi : n <= Height' /\ t \in chain'[n].touch[a]}
                   = {n \in run.lo..run.hi : n <= Height /\ t \in chain[n].touch[a]}
      <3>1. \A n \in run.lo..run.hi : n <= Height /\ n <= Height' /\ n \in 1..final
        BY <1>2, <2>2
      <3>2. QED
        BY <1>2, <3>1
    <2>4. QED
      BY <2>2, <2>3 DEF SeenIn, LastTouch
  <1>8. QED
    BY <1>3, <1>4, <1>5, <1>6, <1>7

-------------------------------------------------------------------------------
(* The syncer. *)

(* Whether the map is saved or not, the file is exact if the map is.        *)
LEMMA Saved ==
    ASSUME FinalInv, UNCHANGED chainVars, MapExact', balances'.cursor \in 1..final,
           snapshot' \in {snapshot, balances'}
    PROVE  ChainMoves' /\ SnapshotExact' /\ snapshot'.cursor \in 1..final'
  <1>1. ChainMoves'
    BY DEF FinalInv, ChainMoves, chainVars, Height, BalanceAt
  <1>2. CASE snapshot' = snapshot
    BY <1>1, <1>2
    DEF FinalInv, BelowFinal, SnapshotExact, Exact, SlotExact, BalanceAt, Height, chainVars
  <1>3. CASE snapshot' = balances'
    BY <1>1, <1>3 DEF SnapshotExact, MapExact, chainVars, Exact, SlotExact
  <1>4. QED
    BY <1>2, <1>3

(* A map left alone, on a chain left alone, stays exact.                    *)
LEMMA MapKept ==
    ASSUME FinalInv, UNCHANGED <<chain, balances>>
    PROVE  MapExact' /\ balances'.cursor \in 1..final
  BY DEF FinalInv, BelowFinal, MapExact, Exact, SlotExact, BalanceAt, Height

(* prune_transient finds nothing to prune.                                  *)
LEMMA PrunedKeeps ==
    ASSUME FinalInv
    PROVE  Pruned = balances
  <1>1. \A a \in Addr : balances.inner[a] # Absent => ~IsZero(balances.inner[a].balance)
    BY DEF FinalInv, MapExact, Exact, SlotExact
  <1>2. PruneZero(balances.inner, inserted) = balances.inner
    BY <1>1, PruneZeroKeeps DEF FinalInv, TypeOK
  <1>3. QED
    BY <1>2 DEF Pruned, FinalInv, TypeOK

(* A chunk takes the map from its cursor to the end of the chunk: the       *)
(* addresses it touched get the balance read there, the others kept theirs. *)
LEMMA ChunkExact ==
    ASSUME FinalInv, ChunkApplied
    PROVE  MapExact' /\ balances'.cursor = run.hi /\ run.hi \in 1..final
  <1> DEFINE at == IF Touched = {} THEN NothingSeen ELSE BalanceAt(run.hi)
             c  == balances.cursor
  <1>1. /\ run.hi \in Nat /\ run.hi \in 1..final /\ run.lo = c + 1 /\ run.lo <= run.hi
        /\ final \in 1..Height /\ Height \in Nat /\ c \in Nat /\ c >= 1
    <2>1. final \in 1..Height /\ Height \in Nat
      BY ChainReads DEF FinalInv, TypeOK, ChainTypeOK
    <2>2. pc = "apply" /\ run.hi \in Nat
      BY DEF FinalInv, TypeOK, ChunkApplied
    <2>3. run.lo \in 1..run.hi /\ run.hi <= run.to
      BY <2>2 DEF FinalInv, RunOK
    <2>4. c \in 1..final /\ run.to <= final /\ run.lo = c + 1
      BY <2>2 DEF FinalInv, BelowFinal
    <2>5. run.to \in Nat
      BY DEF FinalInv, TypeOK
    <2>6. QED
      BY <2>1, <2>2, <2>3, <2>4, <2>5
  <1>2. c \in 1..Height /\ run.hi \in c..Height /\ run.hi \in 1..Height
    BY <1>1
  <1>3. /\ balances' = [inner  |-> ApplyAll(balances.inner, Touched, at, seen),
                        cursor |-> run.hi]
        /\ chain' = chain
    BY DEF ChunkApplied, chainVars
  <1>4. \A a \in Addr : balances.inner[a] \in Slot /\ seen[a] \in Touch
    BY DEF FinalInv, TypeOK
  <1>5. ASSUME NEW a \in Addr, a \in Touched
        PROVE  SlotExact(balances, a)'
    <2>1. at[a] = BalanceAt(run.hi)[a] /\ at[a] \in Reading
      <3>1. BalanceAt(run.hi) \in [Addr -> Reading]
        BY <1>2, ChainReads DEF FinalInv, TypeOK
      <3>2. at = BalanceAt(run.hi)
        BY <1>5
      <3> HIDE DEF at
      <3>3. QED
        BY <3>1, <3>2
    <2> HIDE DEF at
    <2>2. balances'.inner[a] = ApplySlot(balances.inner[a], at[a], seen[a])
      BY <1>3, <1>5 DEF ApplyAll
    <2>3. /\ balances'.inner[a] = Absent <=> IsZero(at[a])
          /\ balances'.inner[a] # Absent => balances'.inner[a].balance = at[a]
      BY <1>4, <2>1, <2>2, ApplySlotExact
    <2>4. SlotExact(balances, a)' =
            (LET held == BalanceAt(run.hi)[a]
             IN  IF balances'.inner[a] = Absent
                   THEN IsZero(held) \/ \A n \in 1..run.hi : chain[n].touch[a] = {}
                   ELSE balances'.inner[a].balance = held /\ ~IsZero(held))
      BY <1>3 DEF SlotExact, BalanceAt
    <2>5. QED
      BY <2>1, <2>3, <2>4
  <1>6. ASSUME NEW a \in Addr, a \notin Touched
        PROVE  SlotExact(balances, a)'
    <2>1. SeenIn(run.lo, run.hi)[a] = NoTouch
      BY <1>6 DEF Touched, FinalInv, SeenCurrent, ChunkApplied
    <2>2. \A n \in (c + 1)..run.hi : chain[n].touch[a] = {}
      <3>1. run.lo \in Nat \ {0} /\ chain \in Seq(Block)
        BY <1>1 DEF FinalInv, TypeOK, ChainTypeOK
      <3>2. \A n \in run.lo..run.hi : n <= Height => chain[n].touch[a] = {}
        BY <1>1, <2>1, <3>1, SeenInComplete
      <3>3. QED
        BY <1>1, <1>2, <3>2
    <2>3. BalanceAt(run.hi)[a] = BalanceAt(c)[a]
      BY <1>2, <2>2, WholeMoves DEF FinalInv, TypeOK
    <2>4. balances'.inner[a] = balances.inner[a] /\ balances'.cursor = run.hi
      BY <1>3, <1>6 DEF ApplyAll
    <2>5. SlotExact(balances, a)
      BY DEF FinalInv, MapExact, Exact
    <2>6. (\A n \in 1..c : chain[n].touch[a] = {}) =>
             \A n \in 1..run.hi : chain[n].touch[a] = {}
      BY <1>1, <2>2
    <2>7. SlotExact(balances, a)' =
            (LET held == BalanceAt(run.hi)[a]
             IN  IF balances.inner[a] = Absent
                   THEN IsZero(held) \/ \A n \in 1..run.hi : chain[n].touch[a] = {}
                   ELSE balances.inner[a].balance = held /\ ~IsZero(held))
      BY <1>3, <2>4 DEF SlotExact, BalanceAt
    <2>8. QED
      BY <2>3, <2>5, <2>6, <2>7 DEF SlotExact
  <1>7. balances'.cursor \in 1..Height'
    BY <1>2, <1>3 DEF Height
  <1>8. QED
    BY <1>1, <1>3, <1>5, <1>6, <1>7 DEF MapExact, Exact

(* The first start, under any tip policy. *)
LEMMA FinalInit == ASSUME Init PROVE FinalInv
  <1>1. TypeOK /\ RunOK /\ pc = "poll" /\ snapshot = balances
    BY TypeInit DEF Init
  <1>2. PICK start \in [Addr -> [Token -> 0..MaxBalance]] :
          chain = [n \in 1..Origin |->
                     [branch |-> 1, touch |-> [a \in Addr |-> {}], balance |-> start]]
    BY DEF Init, ChainInit
  <1>3. Height = Origin /\ Origin \in Nat /\ Origin >= 1 /\ final = Origin
    <2>1. [branch |-> 1, touch |-> [a \in Addr |-> {}], balance |-> start] \in Block
      BY <1>2, ChainAssumption DEF Block, Reading
    <2>2. chain \in [1..Origin -> Block]
      BY <1>2, <2>1
    <2>3. QED
      BY <2>2, ChainAssumption, IsASeq, LenProperties DEF Height, Init, ChainInit
  <1>4. \A n \in 1..Origin : /\ BalanceAt(n) = start
                            /\ \A a \in Addr : chain[n].touch[a] = {}
    BY <1>2 DEF BalanceAt
  <1>5. ChainMoves
    BY <1>3, <1>4 DEF ChainMoves
  <1>6. PICK held \in SUBSET {a \in Addr : ~IsZero(BalanceAt(Origin)[a])} :
          balances = [inner |-> [a \in Addr |->
                                   IF a \in held
                                     THEN [balance |-> BalanceAt(Origin)[a], stamp |-> NoTouch]
                                     ELSE Absent],
                      cursor |-> Origin]
    BY DEF Init
  <1>7. BelowFinal /\ SeenCurrent
    BY <1>1, <1>3, <1>6 DEF BelowFinal, SeenCurrent
  <1>8. ASSUME NEW a \in Addr
        PROVE  SlotExact(balances, a)
    <2>1. CASE a \notin held
      BY <1>3, <1>4, <1>6, <2>1 DEF SlotExact
    <2>2. CASE a \in held
      <3>1. balances.inner[a] = [balance |-> BalanceAt(Origin)[a], stamp |-> NoTouch]
        BY <1>6, <2>2
      <3>2. BalanceAt(Origin) \in [Addr -> Reading] /\ NoTouch \in Touch
        <4>1. Origin \in 1..Height /\ ChainTypeOK
          BY <1>1, <1>3 DEF TypeOK
        <4>2. BalanceAt(Origin) \in [Addr -> Reading]
          BY <4>1, ChainReads
        <4>3. QED
          BY <4>2 DEF NoTouch, Touch
      <3>3. balances.inner[a] # Absent
        BY <3>1, <3>2, AbsentAssumption DEF Entry
      <3>4. balances.inner[a].balance = BalanceAt(Origin)[a] /\ balances.cursor = Origin
        BY <1>6, <3>1
      <3>5. ~IsZero(BalanceAt(Origin)[a])
        BY <1>6, <2>2
      <3>6. QED
        BY <3>3, <3>4, <3>5 DEF SlotExact
    <2>3. QED
      BY <2>1, <2>2
  <1>9. MapExact /\ SnapshotExact
    <2>1. balances.cursor \in 1..Height
      BY <1>3, <1>6
    <2>2. QED
      BY <1>1, <1>8, <2>1 DEF MapExact, SnapshotExact, Exact
  <1>10. QED
    BY <1>1, <1>5, <1>7, <1>9 DEF FinalInv

(* Giving a pass up saves the map or leaves the file alone.                 *)
LEMMA GiveUpKeeps ==
    ASSUME FinalInv, NEW saved \in BOOLEAN, GiveUp(saved),
           MapExact', balances'.cursor \in 1..final
    PROVE  ChainMoves' /\ BelowFinal' /\ SeenCurrent' /\ SnapshotExact'
  <1>1. UNCHANGED chainVars /\ snapshot' \in {snapshot, balances'} /\ pc' = "poll"
    BY DEF GiveUp
  <1>2. ChainMoves' /\ SnapshotExact' /\ snapshot'.cursor \in 1..final'
    BY <1>1, Saved
  <1>3. QED
    BY <1>1, <1>2 DEF BelowFinal, SeenCurrent, chainVars

LEMMA FinalStep ==
    ASSUME Finalized, FinalInv, [Next]_vars
    PROVE  FinalInv'
  <1>1. TypeOK' /\ RunOK'
    BY TypeStep DEF FinalInv
  <1>2. ChainMoves' /\ BelowFinal' /\ SeenCurrent' /\ MapExact' /\ SnapshotExact'
    <2>1. CASE CheckCursorHash
      BY <2>1 DEF CheckCursorHash, Armed
    <2>2. CASE Repair
      BY <2>2 DEF Repair, FinalInv, BelowFinal
    <2>3. CASE StartSync
      <3>1. MapExact' /\ balances'.cursor \in 1..final
        BY <2>3, MapKept DEF StartSync, chainVars
      <3>2. ChainMoves' /\ SnapshotExact' /\ snapshot'.cursor \in 1..final'
        BY <2>3, <3>1, Saved DEF StartSync
      <3>3. run'.to = final /\ run'.lo = balances.cursor + 1
        BY <2>3 DEF StartSync, TipNow
      <3>4. QED
        BY <2>3, <3>1, <3>2, <3>3
        DEF StartSync, BelowFinal, SeenCurrent, FinalInv, TypeOK, ChainTypeOK, chainVars
    <2>4. CASE AtTip
      <3>1. MapExact' /\ balances'.cursor \in 1..final
        BY <2>4, MapKept DEF AtTip, chainVars
      <3>2. ChainMoves' /\ SnapshotExact' /\ snapshot'.cursor \in 1..final'
        BY <2>4, <3>1, Saved DEF AtTip
      <3>3. QED
        BY <2>4, <3>1, <3>2 DEF AtTip, BelowFinal, SeenCurrent, chainVars
    <2>5. CASE FetchLogs
      <3>1. MapExact' /\ balances'.cursor \in 1..final
        BY <2>5, MapKept DEF FetchLogs, chainVars
      <3>2. ChainMoves' /\ SnapshotExact' /\ snapshot'.cursor \in 1..final'
        BY <2>5, <3>1, Saved DEF FetchLogs
      <3>3. run' = run /\ balances' = balances /\ UNCHANGED chainVars
        BY <2>5 DEF FetchLogs
      <3>4. SeenCurrent'
        BY <2>5, <3>3
        DEF FetchLogs, SeenCurrent, SeenIn, LastTouch, Height, chainVars
      <3>5. QED
        BY <2>5, <3>1, <3>2, <3>3, <3>4 DEF FetchLogs, FinalInv, BelowFinal, chainVars
    <2>6. CASE NarrowRange
      <3>1. MapExact' /\ balances'.cursor \in 1..final
        BY <2>6, MapKept DEF NarrowRange, chainVars
      <3>2. ChainMoves' /\ SnapshotExact' /\ snapshot'.cursor \in 1..final'
        BY <2>6, <3>1, Saved DEF NarrowRange
      <3>3. run'.lo = run.lo /\ run'.to = run.to
        BY <2>6, NarrowRun DEF NarrowRange, RunType, FinalInv, TypeOK, RunOK
      <3>4. QED
        BY <2>6, <3>1, <3>2, <3>3
        DEF NarrowRange, BelowFinal, SeenCurrent, FinalInv, chainVars
    <2>7. CASE ApplyChunk
      <3>1. MapExact' /\ balances'.cursor = run.hi /\ run.hi \in 1..final
        BY <2>7, ChunkExact DEF ApplyChunk
      <3>2. ChainMoves' /\ SnapshotExact' /\ snapshot'.cursor \in 1..final'
        BY <2>7, <3>1, Saved DEF ApplyChunk, ChunkApplied
      <3>3. /\ pc' \in {"logs", "finish"}
            /\ pc' = "logs" => run'.lo = run.hi + 1 /\ run'.to = run.to
        BY <2>7, AfterChunkRun
        DEF ApplyChunk, ChunkApplied, RunType, FinalInv, TypeOK, RunOK
      <3>4. pc = "apply" /\ UNCHANGED chainVars
        BY <2>7 DEF ApplyChunk, ChunkApplied
      <3>5. QED
        BY <3>1, <3>2, <3>3, <3>4 DEF BelowFinal, SeenCurrent, FinalInv, chainVars
    <2>8. CASE FinishPass
      <3>1. UNCHANGED chainVars /\ balances' = balances /\ snapshot' = balances' /\ pc' = "poll"
        BY <2>8, PrunedKeeps DEF FinishPass
      <3>2. QED
        BY <3>1, MapKept, Saved DEF BelowFinal, SeenCurrent, chainVars
    <2>9. CASE FinishCatchUp
      <3>1. UNCHANGED chainVars /\ balances' = balances /\ snapshot' = balances' /\ pc' = "poll"
        BY <2>9, PrunedKeeps DEF FinishCatchUp
      <3>2. QED
        BY <3>1, MapKept, Saved DEF BelowFinal, SeenCurrent, chainVars
    <2>10. CASE BlockMissing
      <3>1. GiveUp(TRUE) /\ UNCHANGED <<chain, balances>>
        BY <2>10 DEF BlockMissing, GiveUp, chainVars
      <3>2. QED
        BY <3>1, MapKept, GiveUpKeeps
    <2>11. CASE RpcFails
      <3>1. PICK saved \in BOOLEAN : GiveUp(saved)
        BY <2>11 DEF RpcFails
      <3>2. UNCHANGED <<chain, balances>>
        BY <2>11, <3>1 DEF RpcFails, GiveUp, chainVars
      <3>3. QED
        BY <3>1, <3>2, MapKept, GiveUpKeeps
    <2>12. CASE ChunkSaveFails
      <3>1. PICK saved \in BOOLEAN : GiveUp(saved)
        BY <2>12 DEF ChunkSaveFails
      <3>2. MapExact' /\ balances'.cursor \in 1..final
        BY <2>12, ChunkExact DEF ChunkSaveFails
      <3>3. QED
        BY <3>1, <3>2, GiveUpKeeps
    <2>13. CASE HashFails
      BY <2>13 DEF HashFails
    <2>14. CASE FinalSaveFails
      <3>1. PICK saved \in BOOLEAN : GiveUp(saved)
        BY <2>14 DEF FinalSaveFails
      <3>2. UNCHANGED <<chain, balances>>
        BY <2>14, <3>1, PrunedKeeps DEF FinalSaveFails, GiveUp, chainVars
      <3>3. QED
        BY <3>1, <3>2, MapKept, GiveUpKeeps
    <2>15. CASE Restart
      <3>1. /\ UNCHANGED <<chainVars, snapshot>> /\ balances' = snapshot /\ pc' = "poll"
        BY <2>15 DEF Restart
      <3>2. MapExact' /\ balances'.cursor \in 1..final
        BY <3>1
        DEF FinalInv, BelowFinal, MapExact, SnapshotExact, Exact, SlotExact, BalanceAt,
            Height, chainVars
      <3>3. QED
        BY <3>1, <3>2, Saved DEF BelowFinal, SeenCurrent, chainVars
    <2>16. CASE Environment
      BY <2>16, EnvironmentKeeps
    <2>17. CASE UNCHANGED vars
      <3>1. UNCHANGED <<chainVars, balances, snapshot, run, seen, pc>>
        BY <2>17 DEF vars, syncVars
      <3>2. MapExact' /\ ChainMoves' /\ SnapshotExact' /\ snapshot'.cursor \in 1..final'
        BY <3>1, MapKept, Saved DEF chainVars
      <3>3. QED
        BY <3>1, <3>2
        DEF FinalInv, BelowFinal, SeenCurrent, SeenIn, LastTouch, Height, chainVars
    <2>18. QED
      BY <2>1, <2>2, <2>3, <2>4, <2>5, <2>6, <2>7, <2>8, <2>9, <2>10, <2>11, <2>12,
         <2>13, <2>14, <2>15, <2>16, <2>17 DEF Next, Step, Fault
  <1>3. QED
    BY <1>1, <1>2 DEF FinalInv

(* Following the finalized block, the map agrees with the chain at its      *)
(* cursor at every await of the sync task, on every chain and after every   *)
(* fault: apply_chunk, on_failure and the restart from a snapshot never     *)
(* leave it in between.                                                     *)
THEOREM FinalizedMapExact == ASSUME Finalized PROVE Spec => []MapExact
  <1>1. Init => FinalInv
    BY FinalInit
  <1>2. FinalInv /\ [Next]_vars => FinalInv'
    BY FinalStep
  <1>3. FinalInv => MapExact
    BY DEF FinalInv
  <1>4. QED
    BY <1>1, <1>2, <1>3, PTL DEF Spec

(* And so does the snapshot file, at whichever chunk boundary, failure or   *)
(* finished pass it was written: a restart never resumes from a cursor that *)
(* does not fit the rows beside it.                                         *)
THEOREM FinalizedSnapshotExact == ASSUME Finalized PROVE Spec => []SnapshotExact
  <1>1. Init => FinalInv
    BY FinalInit
  <1>2. FinalInv /\ [Next]_vars => FinalInv'
    BY FinalStep
  <1>3. FinalInv => SnapshotExact
    BY DEF FinalInv
  <1>4. QED
    BY <1>1, <1>2, <1>3, PTL DEF Spec

-------------------------------------------------------------------------------
(* Stamps and the hand-over. *)

(* What a step of the task does to map and file.                            *)
LEMMA StepShape ==
    ASSUME Finalized, FinalInv, [Next]_vars
    PROVE  \/ Environment
           \/ /\ UNCHANGED chainVars /\ snapshot' \in {snapshot, balances'}
              /\ balances' \in {balances, snapshot} \/ ChunkApplied
  <1>1. CASE CheckCursorHash \/ Repair \/ HashFails
    BY <1>1 DEF CheckCursorHash, Armed, Repair, HashFails, FinalInv, BelowFinal
  <1>2. CASE StartSync \/ AtTip \/ FetchLogs \/ NarrowRange \/ Restart \/ UNCHANGED vars
    BY <1>2 DEF StartSync, AtTip, FetchLogs, NarrowRange, Restart, vars, syncVars
  <1>3. CASE ApplyChunk
    BY <1>3 DEF ApplyChunk, ChunkApplied
  <1>4. CASE FinishPass \/ FinishCatchUp
    BY <1>4, PrunedKeeps DEF FinishPass, FinishCatchUp
  <1>5. CASE BlockMissing \/ RpcFails \/ ChunkSaveFails
    <2>1. PICK saved \in BOOLEAN : GiveUp(saved)
      BY <1>5 DEF BlockMissing, RpcFails, ChunkSaveFails
    <2>2. balances' = balances \/ ChunkApplied
      BY <1>5 DEF BlockMissing, RpcFails, ChunkSaveFails
    <2>3. QED
      BY <2>1, <2>2 DEF GiveUp
  <1>6. CASE FinalSaveFails
    <2>1. PICK saved \in BOOLEAN : GiveUp(saved)
      BY <1>6 DEF FinalSaveFails
    <2>2. balances' = balances
      BY <1>6, PrunedKeeps DEF FinalSaveFails
    <2>3. QED
      BY <2>1, <2>2 DEF GiveUp
  <1>7. QED
    BY <1>1, <1>2, <1>3, <1>4, <1>5, <1>6 DEF Next, Step, Fault

(* The stamp of a token in slot m of a map whose cursor is c.               *)
StampFits(slot, c, a, t) ==
    slot # Absent =>
        \/ slot.stamp[t] = LastTouch(a, t, 1, c)
        \/ slot.stamp[t] = 0 /\ slot.balance[t] = 0

StampsFit(m) == \A a \in Addr, t \in Token : StampFits(m.inner[a], m.cursor, a, t)

StampInv == StampsFit(balances) /\ StampsFit(snapshot)

(* What the last touch of a range is.                                       *)
LEMMA LastTouchIs ==
    ASSUME NEW a \in Addr, NEW t \in Token, NEW lo \in Nat \ {0}, NEW hi \in Nat, hi <= Height
    PROVE  LET last == LastTouch(a, t, lo, hi)
           IN  /\ last \in Nat
               /\ last # 0 => last \in lo..hi /\ t \in chain[last].touch[a]
               /\ \A n \in lo..hi : t \in chain[n].touch[a] => n <= last
  <1> DEFINE moved == {n \in lo..hi : n <= Height /\ t \in chain[n].touch[a]}
  <1>1. CASE moved = {}
    <2>1. LastTouch(a, t, lo, hi) = 0
      BY <1>1 DEF LastTouch
    <2>2. \A n \in lo..hi : n <= Height
      BY LenProperties DEF Height
    <2>3. QED
      BY <1>1, <2>1, <2>2
  <1>2. CASE moved # {}
    <2>1. moved \in SUBSET (0..hi)
      OBVIOUS
    <2>2. Max(moved) \in moved /\ \A n \in moved : n <= Max(moved)
      BY <1>2, <2>1, MaxNat
    <2>3. LastTouch(a, t, lo, hi) = Max(moved)
      BY <1>2 DEF LastTouch
    <2>4. \A n \in lo..hi : n <= Height
      BY LenProperties DEF Height
    <2>5. QED
      BY <2>2, <2>3, <2>4
  <1>3. QED
    BY <1>1, <1>2

(* A longer range ends with what its second part ends with, if anything.    *)
LEMMA LastTouchSplit ==
    ASSUME Height \in Nat, NEW a \in Addr, NEW t \in Token, NEW c \in Nat, NEW hi \in Nat,
           c <= hi, hi <= Height
    PROVE  LastTouch(a, t, 1, hi) = IF LastTouch(a, t, c + 1, hi) # 0
                                      THEN LastTouch(a, t, c + 1, hi)
                                      ELSE LastTouch(a, t, 1, c)
  <1> DEFINE x == LastTouch(a, t, 1, hi)
             y == LastTouch(a, t, c + 1, hi)
             z == LastTouch(a, t, 1, c)
             moves(n) == t \in chain[n].touch[a]
  <1>1. /\ x \in Nat /\ (x # 0 => x \in 1..hi /\ moves(x))
        /\ \A n \in 1..hi : moves(n) => n <= x
    BY LastTouchIs
  <1>2. /\ y \in Nat /\ (y # 0 => y \in (c + 1)..hi /\ moves(y))
        /\ \A n \in (c + 1)..hi : moves(n) => n <= y
    BY LastTouchIs
  <1>3. /\ z \in Nat /\ (z # 0 => z \in 1..c /\ moves(z))
        /\ \A n \in 1..c : moves(n) => n <= z
    BY LastTouchIs
  <1> HIDE DEF x, y, z, moves
  <1>4. CASE y # 0
    <2>1. y \in 1..hi /\ moves(y) /\ y <= x
      BY <1>1, <1>2, <1>4
    <2>2. x \in (c + 1)..hi /\ x <= y
      BY <1>1, <1>2, <1>4, <2>1
    <2>3. x = y
      BY <1>1, <1>2, <2>1, <2>2
    <2>4. QED
      BY <1>4, <2>3 DEF x, y, z
  <1>5. CASE y = 0
    <2>1. CASE x = 0
      <3>1. z = 0
        BY <1>1, <1>3, <2>1
      <3>2. QED
        BY <1>5, <2>1, <3>1 DEF x, y, z
    <2>2. CASE x # 0
      <3>1. x \in 1..c
        BY <1>1, <1>2, <1>5, <2>2
      <3>2. x = z
        BY <1>1, <1>3, <2>2, <3>1
      <3>3. QED
        BY <1>5, <3>2 DEF x, y, z
    <2>3. QED
      BY <2>1, <2>2
  <1>6. QED
    BY <1>4, <1>5 DEF x, y, z

(* A slot after a chunk.                                                    *)
LEMMA ChunkStamps ==
    ASSUME FinalInv, FinalInv', ChunkApplied, StampsFit(balances)
    PROVE  StampsFit(balances')
  <1> DEFINE at == IF Touched = {} THEN NothingSeen ELSE BalanceAt(run.hi)
             c  == balances.cursor
  <1>1. /\ run.hi \in Nat /\ run.hi \in 1..Height /\ run.lo = c + 1 /\ c < run.hi
        /\ Height \in Nat /\ c \in 1..Height
    <2>1. /\ pc = "apply" /\ run.hi \in Nat /\ run.lo \in 1..run.hi /\ run.hi <= run.to
          /\ run.to \in Nat /\ run.to <= final /\ run.lo = c + 1 /\ c \in 1..final
          /\ final \in 1..Height
      BY DEF FinalInv, TypeOK, RunOK, BelowFinal, ChunkApplied, ChainTypeOK
    <2>2. Height \in Nat
      BY ChainReads DEF FinalInv, TypeOK
    <2>3. QED
      BY <2>1, <2>2
  <1>2. /\ balances' = [inner  |-> ApplyAll(balances.inner, Touched, at, seen),
                        cursor |-> run.hi]
        /\ seen = SeenIn(run.lo, run.hi) /\ UNCHANGED chainVars
    BY DEF ChunkApplied, FinalInv, SeenCurrent
  <1>3. ASSUME NEW a \in Addr, NEW t \in Token, balances'.inner[a] # Absent
        PROVE  \/ balances'.inner[a].stamp[t] = LastTouch(a, t, 1, run.hi)
               \/ balances'.inner[a].stamp[t] = 0 /\ balances'.inner[a].balance[t] = 0
    <2>1. seen[a][t] = LastTouch(a, t, c + 1, run.hi) /\ seen[a] \in Touch
      BY <1>1, <1>2 DEF SeenIn, FinalInv, TypeOK
    <2>2. LastTouch(a, t, 1, run.hi) = IF seen[a][t] # 0 THEN seen[a][t]
                                       ELSE LastTouch(a, t, 1, c)
      BY <1>1, <2>1, LastTouchSplit
    <2>3. seen[a][t] = 0 => BalanceAt(run.hi)[a][t] = BalanceAt(c)[a][t]
      <3>1. ASSUME seen[a][t] = 0, NEW k \in (c + 1)..run.hi
            PROVE  t \notin chain[k].touch[a]
        BY <1>1, <2>1, <3>1, LastTouchIs
      <3>2. QED
        BY <1>1, <3>1 DEF FinalInv, ChainMoves
    <2>4. CASE a \notin Touched
      <3>1. balances'.inner[a] = balances.inner[a] /\ seen[a][t] = 0
        BY <1>2, <2>4 DEF ApplyAll, Touched, NoTouch
      <3>2. StampFits(balances.inner[a], c, a, t)
        BY DEF StampsFit
      <3>3. QED
        BY <1>3, <2>2, <3>1, <3>2 DEF StampFits
    <2>5. CASE a \in Touched
      <3>1. at[a] = BalanceAt(run.hi)[a] /\ at[a] \in Reading
        <4>1. BalanceAt(run.hi) \in [Addr -> Reading]
          BY <1>1, ChainReads DEF FinalInv, TypeOK
        <4>2. at = BalanceAt(run.hi)
          BY <2>5
        <4> HIDE DEF at
        <4>3. QED
          BY <4>1, <4>2
      <3> HIDE DEF at
      <3>2. balances'.inner[a] = ApplySlot(balances.inner[a], at[a], seen[a])
        BY <1>2, <2>5 DEF ApplyAll
      <3>3. balances'.inner[a] = Written(balances.inner[a], at[a], seen[a])
        BY <1>3, <3>2 DEF ApplySlot
      <3>4. CASE balances.inner[a] = Absent
        <4>1. balances'.inner[a].stamp[t] = seen[a][t] /\ balances'.inner[a].balance[t] = at[a][t]
          BY <3>3, <3>4 DEF Written
        <4>2. CASE IsZero(BalanceAt(c)[a])
          <5>1. BalanceAt(c)[a][t] = 0
            BY <4>2 DEF IsZero
          <5>2. QED
            BY <2>2, <2>3, <3>1, <4>1, <5>1
        <4>3. CASE \A n \in 1..c : chain[n].touch[a] = {}
          <5>1. LastTouch(a, t, 1, c) = 0
            <6>1. c \in Nat /\ c <= Height /\ 1 \in Nat \ {0}
              BY <1>1
            <6>2. LastTouch(a, t, 1, c) # 0 => /\ LastTouch(a, t, 1, c) \in 1..c
                                              /\ t \in chain[LastTouch(a, t, 1, c)].touch[a]
              BY <6>1, LastTouchIs
            <6>3. QED
              BY <4>3, <6>2
          <5>2. QED
            BY <2>2, <4>1, <5>1
        <4>4. QED
          BY <3>4, <4>2, <4>3 DEF FinalInv, MapExact, Exact, SlotExact
      <3>5. CASE balances.inner[a] # Absent
        <4>1. /\ balances'.inner[a].stamp[t] = IF seen[a][t] = 0 THEN balances.inner[a].stamp[t]
                                               ELSE seen[a][t]
              /\ balances'.inner[a].balance[t] = at[a][t]
          BY <3>3, <3>5 DEF Written, Stamped
        <4>2. StampFits(balances.inner[a], c, a, t)
          BY DEF StampsFit
        <4>3. balances.inner[a].balance = BalanceAt(c)[a]
          BY <3>5 DEF FinalInv, MapExact, Exact, SlotExact
        <4>4. QED
          BY <2>2, <2>3, <3>1, <3>5, <4>1, <4>2, <4>3 DEF StampFits
      <3>6. QED
        BY <3>4, <3>5
    <2>6. QED
      BY <2>4, <2>5
  <1>4. QED
    BY <1>2, <1>3 DEF StampsFit, StampFits

(* The last touch of a range is the same on the next chain if its blocks    *)
(* are.                                                                     *)
LEMMA LastTouchKept ==
    ASSUME NEW a \in Addr, NEW t \in Token, NEW c \in Nat, c <= Height, c <= Height',
           \A n \in 1..c : chain'[n] = chain[n]
    PROVE  LastTouch(a, t, 1, c)' = LastTouch(a, t, 1, c)
  <1>1. {n \in 1..c : n <= Height' /\ t \in chain'[n].touch[a]}
          = {n \in 1..c : n <= Height /\ t \in chain[n].touch[a]}
    BY LenProperties DEF Height
  <1>2. QED
    BY <1>1 DEF LastTouch

LEMMA StampStep ==
    ASSUME Finalized, FinalInv, StampInv, [Next]_vars
    PROVE  StampInv'
  <1>1. FinalInv'
    BY FinalStep
  <1>2. Height \in Nat /\ Height' \in Nat
    BY <1>1, LenProperties DEF FinalInv, TypeOK, ChainTypeOK, Height
  <1>3. CASE Environment
    <2>1. /\ balances' = balances /\ snapshot' = snapshot
          /\ final \in 1..Height /\ final' \in final..Height'
          /\ \A n \in 1..final : chain'[n] = chain[n]
      BY <1>3, FinalPrefix DEF Environment, syncVars, FinalInv, TypeOK
    <2>2. ASSUME NEW m \in {balances, snapshot}, NEW a \in Addr, NEW t \in Token
          PROVE  LastTouch(a, t, 1, m.cursor)' = LastTouch(a, t, 1, m.cursor)
      <3>1. PICK c \in Nat : c = m.cursor
        BY DEF FinalInv, TypeOK
      <3>2. c \in 1..final
        BY <3>1 DEF FinalInv, BelowFinal
      <3>3. c <= Height /\ c <= Height' /\ \A n \in 1..c : chain'[n] = chain[n]
        BY <1>2, <2>1, <3>2
      <3>4. LastTouch(a, t, 1, c)' = LastTouch(a, t, 1, c)
        BY <3>3, LastTouchKept
      <3>5. QED
        BY <3>1, <3>4
    <2>3. \A a \in Addr, t \in Token :
            /\ LastTouch(a, t, 1, balances.cursor)' = LastTouch(a, t, 1, balances.cursor)
            /\ LastTouch(a, t, 1, snapshot.cursor)' = LastTouch(a, t, 1, snapshot.cursor)
      BY <2>1, <2>2
    <2>4. QED
      BY <2>1, <2>3 DEF StampInv, StampsFit, StampFits
  <1>4. CASE /\ UNCHANGED chainVars /\ snapshot' \in {snapshot, balances'}
             /\ balances' \in {balances, snapshot} \/ ChunkApplied
    <2>1. StampsFit(balances')
      BY <1>1, <1>4, ChunkStamps DEF StampInv
    <2>2. StampsFit(snapshot')
      BY <1>4, <2>1 DEF StampInv
    <2>3. chain' = chain
      BY <1>4 DEF chainVars
    <2>4. QED
      BY <2>1, <2>2, <2>3 DEF StampInv, StampsFit, StampFits, LastTouch, Height
  <1>5. QED
    BY <1>3, <1>4, StepShape

LEMMA StampInit == ASSUME Finalized, Init PROVE StampInv
  <1>1. FinalInv /\ snapshot = balances
    BY FinalInit DEF Init
  <1>2. balances.cursor \in 1..Height /\ Height \in Nat
    BY <1>1, LenProperties DEF FinalInv, MapExact, Exact, TypeOK, ChainTypeOK, Height
  <1>3. \A a \in Addr : balances.inner[a] # Absent => balances.inner[a].stamp = NoTouch
    <2>1. PICK held \in SUBSET {a \in Addr : ~IsZero(BalanceAt(Origin)[a])} :
            balances = [inner |-> [a \in Addr |->
                                     IF a \in held
                                       THEN [balance |-> BalanceAt(Origin)[a],
                                             stamp |-> NoTouch]
                                       ELSE Absent],
                        cursor |-> Origin]
      BY DEF Init
    <2>2. QED
      BY <2>1
  <1>4. \A n \in 1..Height : \A a \in Addr : chain[n].touch[a] = {}
    <2>1. PICK start \in [Addr -> [Token -> 0..MaxBalance]] :
            chain = [n \in 1..Origin |->
                       [branch |-> 1, touch |-> [a \in Addr |-> {}], balance |-> start]]
      BY DEF Init, ChainInit
    <2>2. [branch |-> 1, touch |-> [a \in Addr |-> {}], balance |-> start] \in Block
      BY <2>1, ChainAssumption DEF Block, Reading
    <2>3. chain \in [1..Origin -> Block]
      BY <2>1, <2>2
    <2>4. Height = Origin
      BY <2>3, ChainAssumption, IsASeq, LenProperties DEF Height
    <2>5. QED
      BY <2>1, <2>4
  <1>5. ASSUME NEW a \in Addr, NEW t \in Token
        PROVE  LastTouch(a, t, 1, balances.cursor) = 0
    <2>1. PICK c \in Nat : c = balances.cursor /\ c <= Height /\ 1 \in Nat \ {0}
      BY <1>2
    <2>2. LastTouch(a, t, 1, c) # 0 => /\ LastTouch(a, t, 1, c) \in 1..c
                                       /\ t \in chain[LastTouch(a, t, 1, c)].touch[a]
      BY <2>1, LastTouchIs
    <2>3. QED
      BY <1>2, <1>4, <2>1, <2>2
  <1>6. StampsFit(balances)
    BY <1>3, <1>5 DEF StampsFit, StampFits, NoTouch
  <1>7. QED
    BY <1>1, <1>6 DEF StampInv

(* Following the finalized block, the stamp of a held token is the last     *)
(* block that moved it, after every chunk, failure and restart.             *)
THEOREM FinalizedStampsExact == ASSUME Finalized PROVE Spec => []StampsExact
  <1>1. Init => FinalInv /\ StampInv
    BY FinalInit, StampInit
  <1>2. FinalInv /\ StampInv /\ [Next]_vars => FinalInv' /\ StampInv'
    BY FinalStep, StampStep
  <1>3. StampInv => StampsExact
    BY DEF StampInv, StampsFit, StampFits, StampsExact
  <1>4. QED
    BY <1>1, <1>2, <1>3, PTL DEF Spec

(* What absorbing a change makes of a record.                               *)
AbsorbSlot(v, change) ==
    IF change = Absent THEN v ELSE IF IsZero(change.balance) THEN Absent ELSE change

(* A slot that is kept is what the PIR side will have: either it has it     *)
(* already or it is in the changes of the pass.                             *)
LEMMA ChangeHandsOver ==
    ASSUME NEW slot \in Slot, NEW v \in Slot, NEW change \in Slot, NEW a, NEW added,
           NEW reading \in Reading, NEW stamps \in Touch,
           slot # Absent => AbsorbSlot(v, change) = slot,
           ApplySlot(slot, reading, stamps) # Absent
    PROVE  AbsorbSlot(v, ChangedSlot(change, a \in added, slot, reading, stamps))
             = ApplySlot(slot, reading, stamps)
  <1> DEFINE now == ApplySlot(slot, reading, stamps)
  <1>1. ~IsZero(reading) /\ now = Written(slot, reading, stamps) /\ now # Absent
    BY DEF ApplySlot
  <1>2. now.balance = reading
    BY <1>1, WrittenEntry
  <1>3. ~IsZero(now.balance)
    BY <1>1, <1>2
  <1> HIDE DEF now
  <1>4. AbsorbSlot(v, now) = now
    BY <1>1, <1>3 DEF AbsorbSlot
  <1>5. CASE slot = Absent
    <2>1. ChangedSlot(change, a \in added, slot, reading, stamps) = now
      BY <1>1, <1>5 DEF ChangedSlot, Outcome, now
    <2>2. QED
      BY <1>4, <2>1 DEF now
  <1>6. CASE slot # Absent /\ Written(slot, reading, stamps) # slot
    <2>1. ChangedSlot(change, a \in added, slot, reading, stamps) = now
      BY <1>1, <1>6 DEF ChangedSlot, Outcome, now
    <2>2. QED
      BY <1>4, <2>1 DEF now
  <1>7. CASE slot # Absent /\ Written(slot, reading, stamps) = slot
    <2>1. ChangedSlot(change, a \in added, slot, reading, stamps)
            = IF change = Absent THEN Absent ELSE now
      BY <1>1, <1>7 DEF ChangedSlot, Outcome, now
    <2>2. CASE change = Absent
      <3>1. v = slot
        BY <1>7, <2>2 DEF AbsorbSlot
      <3>2. QED
        BY <1>1, <1>7, <2>1, <2>2, <3>1 DEF AbsorbSlot, now
    <2>3. CASE change # Absent
      BY <1>4, <2>1, <2>3 DEF now
    <2>4. QED
      BY <2>2, <2>3
  <1>8. QED
    BY <1>5, <1>6, <1>7

(* As long as nothing has failed the PIR side has every holder, once it has *)
(* the changes of the running pass.                                         *)
Passing == {"logs", "apply", "finish"}

HandedOn ==
    faults = 0 /\ mode = "follow" =>
        \A a \in Addr : balances.inner[a] # Absent =>
            balances.inner[a] = IF pc \in Passing THEN AbsorbSlot(published[a], changed[a])
                                ELSE published[a]

LEMMA ChunkHandsOn ==
    ASSUME FinalInv, HandedOn, ChunkApplied, faults = 0, mode = "follow"
    PROVE  \A a \in Addr : balances'.inner[a] # Absent =>
               balances'.inner[a] = AbsorbSlot(published[a], changed'[a])
  <1> DEFINE at == IF Touched = {} THEN NothingSeen ELSE BalanceAt(run.hi)
  <1>1. /\ balances'.inner = ApplyAll(balances.inner, Touched, at, seen)
        /\ changed' = ChangedAfter(changed, inserted, balances.inner, Touched, at, seen)
        /\ pc = "apply"
    BY DEF ChunkApplied
  <1>2. ASSUME NEW a \in Addr
        PROVE  /\ balances.inner[a] \in Slot /\ seen[a] \in Touch /\ published[a] \in Slot
               /\ changed[a] \in Slot
               /\ balances.inner[a] # Absent =>
                     AbsorbSlot(published[a], changed[a]) = balances.inner[a]
    BY <1>1 DEF HandedOn, FinalInv, TypeOK, Passing
  <1>3. Touched # {} => BalanceAt(run.hi) \in [Addr -> Reading]
    <2>1. run.hi \in Nat /\ run.hi \in 1..run.hi
      BY <1>1 DEF FinalInv, TypeOK, RunOK
    <2>2. Touched # {} => run.hi \in 1..Height
      BY <2>1, LenProperties DEF ChunkApplied, FinalInv, TypeOK, ChainTypeOK, Height
    <2>3. QED
      BY <2>2, ChainReads DEF FinalInv, TypeOK
  <1>4. ASSUME NEW a \in Addr, balances'.inner[a] # Absent
        PROVE  balances'.inner[a] = AbsorbSlot(published[a], changed'[a])
    <2>1. CASE a \notin Touched
      BY <1>1, <1>2, <1>4, <2>1 DEF ApplyAll, ChangedAfter
    <2>2. CASE a \in Touched
      <3>1. at[a] \in Reading
        <4>1. at = BalanceAt(run.hi) /\ Touched # {}
          BY <2>2
        <4> HIDE DEF at
        <4>2. QED
          BY <1>3, <4>1
      <3> HIDE DEF at
      <3>2. /\ balances'.inner[a] = ApplySlot(balances.inner[a], at[a], seen[a])
            /\ changed'[a] = ChangedSlot(changed[a], a \in inserted, balances.inner[a],
                                         at[a], seen[a])
        BY <1>1, <2>2 DEF ApplyAll, ChangedAfter
      <3>3. ApplySlot(balances.inner[a], at[a], seen[a]) # Absent
        BY <1>4, <3>2
      <3>4. AbsorbSlot(published[a], ChangedSlot(changed[a], a \in inserted, balances.inner[a],
                                                 at[a], seen[a]))
              = ApplySlot(balances.inner[a], at[a], seen[a])
        BY <1>2, <3>1, <3>3, ChangeHandsOver
      <3>5. QED
        BY <3>2, <3>4
    <2>3. QED
      BY <2>1, <2>2
  <1>5. QED
    BY <1>4

LEMMA FaultCounts ==
    ASSUME FinalInv, faults' = 0, RpcFails \/ ChunkSaveFails \/ HashFails \/ FinalSaveFails
    PROVE  FALSE
  BY DEF RpcFails, ChunkSaveFails, HashFails, FinalSaveFails, FinalInv, TypeOK

LEMMA HandedOnStep ==
    ASSUME Finalized, FinalInv, HandedOn, [Next]_vars
    PROVE  HandedOn'
  <1> SUFFICES ASSUME faults' = 0, mode' = "follow"
               PROVE  \A a \in Addr : balances'.inner[a] # Absent =>
                        balances'.inner[a] =
                            IF pc' \in Passing THEN AbsorbSlot(published'[a], changed'[a])
                            ELSE published'[a]
    BY DEF HandedOn
  <1>1. CASE CheckCursorHash \/ Repair
    BY <1>1 DEF CheckCursorHash, Armed, Repair, FinalInv, BelowFinal
  <1>2. CASE StartSync
    <2>1. /\ UNCHANGED <<balances, published, mode, faults>> /\ changed' = EmptyMap
          /\ pc' = "logs" /\ pc \notin Passing
      BY <1>2 DEF StartSync, Resolving, budget, Passing
    <2>2. \A a \in Addr : AbsorbSlot(published[a], changed'[a]) = published[a]
      BY <2>1 DEF EmptyMap, AbsorbSlot
    <2>3. QED
      BY <2>1, <2>2 DEF HandedOn, Passing
  <1>3. CASE AtTip
    <2>1. UNCHANGED <<balances, faults>> /\ pc' = "poll" /\ pc \notin Passing
      BY <1>3 DEF AtTip, Resolving, Passing, budget
    <2>2. CASE mode = "catchup"
      BY <1>3, <2>1, <2>2 DEF AtTip, Spawned, Passing
    <2>3. CASE mode # "catchup"
      BY <1>3, <2>1, <2>3 DEF AtTip, HandedOn, Passing
    <2>4. QED
      BY <2>2, <2>3
  <1>4. CASE FetchLogs \/ NarrowRange
    <2>1. UNCHANGED <<balances, published, changed, mode, faults>>
      BY <1>4 DEF FetchLogs, NarrowRange, budget
    <2>2. pc \in Passing /\ pc' \in Passing
      BY <1>4 DEF FetchLogs, NarrowRange, Passing
    <2>3. QED
      BY <2>1, <2>2 DEF HandedOn
  <1>5. CASE ApplyChunk
    <2>1. ChunkApplied /\ UNCHANGED <<published, mode, faults>> /\ pc' \in {"logs", "finish"}
      BY <1>5 DEF ApplyChunk, ChunkApplied, AfterChunk, budget
    <2>2. QED
      BY <2>1, ChunkHandsOn DEF Passing
  <1>6. CASE FinishPass
    <2>1. /\ balances' = balances /\ published' = Absorb(published, changed)
          /\ pc = "finish" /\ pc' = "poll" /\ UNCHANGED <<mode, faults>>
      BY <1>6, PrunedKeeps DEF FinishPass, budget
    <2>2. \A a \in Addr : published'[a] = AbsorbSlot(published[a], changed[a])
      BY <2>1 DEF Absorb, AbsorbSlot
    <2>3. QED
      BY <2>1, <2>2 DEF HandedOn, Passing
  <1>7. CASE FinishCatchUp
    BY <1>7 DEF FinishCatchUp, Spawned, Passing
  <1>8. CASE BlockMissing
    <2>1. pc = "apply" /\ run.hi > Height
      BY <1>8 DEF BlockMissing, FinalInv, BelowFinal
    <2>2. /\ run.hi \in Nat /\ run.hi <= run.to /\ run.to <= final /\ run.to \in Nat
          /\ final \in 1..Height
      BY <2>1 DEF FinalInv, TypeOK, RunOK, BelowFinal, ChainTypeOK
    <2>3. Height \in Nat
      BY ChainReads DEF FinalInv, TypeOK
    <2>4. QED
      BY <2>1, <2>2, <2>3
  <1>9. CASE RpcFails \/ ChunkSaveFails \/ HashFails \/ FinalSaveFails
    BY <1>9, FaultCounts
  <1>10. CASE Restart
    BY <1>10 DEF Restart
  <1>11. CASE Environment \/ UNCHANGED vars
    <2>1. UNCHANGED <<balances, published, changed, mode, pc, faults>>
      BY <1>11 DEF Environment, vars, syncVars, budget
    <2>2. QED
      BY <2>1 DEF HandedOn
  <1>12. QED
    BY <1>1, <1>2, <1>3, <1>4, <1>5, <1>6, <1>7, <1>8, <1>9, <1>10, <1>11
    DEF Next, Step, Fault

(* Following the finalized block and until something fails, the PIR side    *)
(* has the current record of every holder after each pass: the changes      *)
(* collected over its chunks lose none, whatever the outcomes of applying   *)
(* an address several times were.                                           *)
THEOREM FinalizedHoldersCurrent == ASSUME Finalized PROVE Spec => []HoldersCurrentUnlessFailed
  <1>1. Init => FinalInv /\ HandedOn
    BY FinalInit DEF Init, HandedOn
  <1>2. FinalInv /\ HandedOn /\ [Next]_vars => FinalInv' /\ HandedOn'
    BY FinalStep, HandedOnStep
  <1>3. HandedOn => HoldersCurrentUnlessFailed
    BY DEF HandedOn, HoldersCurrentUnlessFailed, HoldersCurrent, AtRest, Passing
  <1>4. QED
    BY <1>1, <1>2, <1>3, PTL DEF Spec

--------------------------------------------------------------------------------
(* What /status shows.                                                      *)

(* What the reports say of the syncer: the tip is never below the target    *)
(* (aim), nor the cursor above the map's unless a rewind went unreported;   *)
(* and a sample under way has not promised more than it can still show.     *)
ReportInv ==
    /\ TypeOK /\ RunOK
    /\ report \in [cursor : Nat, tip : Nat]
    /\ sample \in [cursor : Nat, least : Nat]
    /\ aim \in Nat /\ rewound \in BOOLEAN
    /\ report.tip >= aim
    /\ rewound \/ report.cursor <= balances.cursor
    /\ Sampling => /\ Minus(report.tip, sample.cursor) >= sample.least
                   /\ sample.least = 0 \/ sample.cursor <= balances.cursor

LEMMA SyncerStepIsNext ==
    ASSUME SyncerStep
    PROVE  Next
  BY DEF SyncerStep, Unreported, Next, Step, Fault

(* A report after which the tip covers the new target, whatever of it a     *)
(* sample has loaded already.                                               *)
LEMMA ObservedFits ==
    ASSUME ReportInv, TypeOK', RunOK',
           report' \in [cursor : Nat, tip : Nat], aim' \in Nat, rewound' \in BOOLEAN,
           report'.tip >= aim',
           rewound' \/ report'.cursor <= balances'.cursor,
           report'.tip >= report.tip \/ report'.tip = aim',
           rewound' \/ balances'.cursor >= balances.cursor,
           Observed
    PROVE  ReportInv'
  <1>1. /\ balances.cursor \in Nat /\ balances'.cursor \in Nat
        /\ sample.cursor \in Nat /\ sample.least \in Nat
        /\ report.tip \in Nat /\ report'.tip \in Nat
    BY DEF ReportInv, TypeOK
  <1>2. Outstanding' \in Nat
    BY <1>1 DEF Outstanding, Minus
  <1>3. sample' \in [cursor : Nat, least : Nat] /\ sample'.cursor = sample.cursor
    BY <1>2 DEF Observed, ReportInv
  <1>4. CASE ~Sampling
    <2>1. ~Sampling'
      BY <1>4 DEF Observed, Sampling
    <2>2. QED
      BY <1>3, <2>1 DEF ReportInv
  <1>5. CASE Sampling
    <2>1. /\ sample'.least = (IF Outstanding' < sample.least THEN Outstanding' ELSE sample.least)
      BY <1>5 DEF Observed, ReportInv
    <2>2. sample'.least <= Outstanding' /\ sample'.least <= sample.least /\ sample'.least \in Nat
      BY <1>1, <1>2, <2>1
    <2>3. sample'.least = 0 \/ sample.cursor <= balances'.cursor
      <3>1. CASE rewound'
        <4>1. Outstanding' = 0
          BY <3>1 DEF Outstanding
        <4>2. QED
          BY <2>2, <4>1
      <3>2. CASE ~rewound'
        <4>1. balances'.cursor >= balances.cursor
          BY <3>2
        <4>2. sample.least = 0 \/ sample.cursor <= balances.cursor
          BY <1>5 DEF ReportInv
        <4>3. QED
          BY <1>1, <2>2, <4>1, <4>2
      <3>3. QED
        BY <3>1, <3>2
    <2>4. Minus(report'.tip, sample.cursor) >= sample'.least
      <3>1. CASE report'.tip >= report.tip
        <4>1. Minus(report.tip, sample.cursor) >= sample.least
          BY <1>5 DEF ReportInv
        <4>2. QED
          BY <1>1, <2>2, <3>1, <4>1 DEF Minus
      <3>2. CASE report'.tip = aim'
        <4>1. CASE sample'.least = 0
          BY <1>1, <4>1 DEF Minus
        <4>2. CASE sample'.least # 0
          <5>1. sample.cursor <= balances'.cursor
            BY <2>3, <4>2
          <5>2. Outstanding' <= Minus(report'.tip, balances'.cursor)
            BY <1>1, <3>2 DEF Outstanding, Minus
          <5>3. QED
            BY <1>1, <1>2, <2>2, <5>1, <5>2 DEF Minus
        <4>3. QED
          BY <4>1, <4>2
      <3>3. QED
        BY <3>1, <3>2
    <2>5. QED
      BY <1>3, <2>2, <2>3, <2>4 DEF ReportInv
  <1>6. QED
    BY <1>4, <1>5

LEMMA ReportStep ==
    ASSUME ReportInv, [MonitorNext]_allVars
    PROVE  ReportInv'
  <1>1. /\ balances.cursor \in Nat /\ TipNow \in Nat /\ report.tip \in Nat /\ aim \in Nat
        /\ report.cursor \in Nat /\ report.tip >= aim
        /\ report = [cursor |-> report.cursor, tip |-> report.tip]
    BY ChainReads DEF ReportInv, TypeOK
  <1>2. CASE SyncerStep
    <2>1. TypeOK' /\ RunOK'
      BY <1>2, SyncerStepIsNext, TypeStep DEF ReportInv
    <2>2. balances'.cursor \in Nat
      BY <2>1 DEF TypeOK
    <2>3. CASE StartSync /\ RecordStart /\ aim' = TipNow /\ rewound' = FALSE /\ Observed
      <3>1. balances' = balances
        BY <2>3 DEF StartSync
      <3>2. report' = [cursor |-> balances.cursor, tip |-> TipNow]
        BY <2>3 DEF RecordStart
      <3>3. /\ report' \in [cursor : Nat, tip : Nat] /\ aim' \in Nat /\ rewound' \in BOOLEAN
            /\ report'.tip = aim' /\ report'.cursor = balances'.cursor
        BY <1>1, <2>3, <3>1, <3>2
      <3>4. QED
        BY <1>1, <2>1, <2>2, <2>3, <3>1, <3>3, ObservedFits
    <2>4. CASE FinishPass /\ RecordFinish /\ rewound' = FALSE /\ UNCHANGED aim /\ Observed
      <3>1. balances'.cursor = balances.cursor
        BY <2>4 DEF FinishPass, Pruned, ReportInv, TypeOK
      <3>2. report' = [cursor |-> balances.cursor,
                       tip |-> IF balances.cursor > report.tip THEN balances.cursor
                               ELSE report.tip]
        BY <2>4 DEF RecordFinish
      <3>3. /\ report' \in [cursor : Nat, tip : Nat] /\ aim' \in Nat /\ rewound' \in BOOLEAN
            /\ report'.tip >= report.tip /\ report'.tip >= aim'
            /\ report'.cursor = balances'.cursor
        <4>1. aim' = aim /\ rewound' \in BOOLEAN
          BY <2>4, Zenon
        <4>2. report'.cursor = balances.cursor /\ report'.tip \in Nat /\ report'.tip >= report.tip
          BY <1>1, <3>2
        <4>3. report' = [cursor |-> report'.cursor, tip |-> report'.tip]
          BY <3>2
        <4>4. QED
          BY <1>1, <3>1, <4>1, <4>2, <4>3
      <3>4. QED
        BY <1>1, <2>1, <2>2, <2>4, <3>1, <3>3, ObservedFits
    <2>5. CASE Restart /\ report' = Unrecorded /\ aim' = 0 /\ rewound' = FALSE
               /\ sample' = NoSample
      <3>1. /\ report' \in [cursor : Nat, tip : Nat] /\ report'.tip = 0 /\ report'.cursor = 0
            /\ ~Sampling'
        BY <2>5 DEF Unrecorded, Sampling
      <3>2. sample' \in [cursor : Nat, least : Nat]
        BY <2>5, ChainAssumption DEF NoSample
      <3>3. QED
        <4>1. aim' = 0 /\ rewound' \in BOOLEAN
          BY <2>5, Zenon
        <4>3. report'.tip >= aim' /\ report'.cursor <= balances'.cursor
          BY <2>2, <3>1, <4>1
        <4>2. QED
          BY <2>1, <3>1, <3>2, <4>1, <4>3 DEF ReportInv
    <2>6. CASE Unreported /\ UNCHANGED <<report, aim>> /\ Observed
               /\ rewound' = (rewound \/ balances'.cursor < balances.cursor)
      <3>1. rewound' \in BOOLEAN
        BY <2>6 DEF ReportInv
      <3>2. rewound \/ balances'.cursor < balances.cursor => rewound'
        BY <2>6, Zenon
      <3>3. rewound' \/ balances'.cursor >= balances.cursor
        BY <1>1, <2>2, <3>2
      <3>6. rewound' \/ report'.cursor <= balances'.cursor
        <4>1. rewound \/ report.cursor <= balances.cursor
          BY DEF ReportInv
        <4>2. report' = report
          BY <2>6
        <4>3. QED
          BY <1>1, <2>2, <3>2, <3>3, <4>1, <4>2
      <3>4. /\ report' \in [cursor : Nat, tip : Nat] /\ aim' \in Nat
            /\ report'.tip >= aim' /\ report'.tip >= report.tip
        BY <1>1, <2>6
      <3>5. QED
        BY <2>1, <2>6, <3>1, <3>3, <3>4, <3>6, ObservedFits
    <2>7. QED
      BY <1>2, <2>3, <2>4, <2>5, <2>6 DEF SyncerStep
  <1>3. CASE LoadCursor
    <2>1. /\ sample' = [cursor |-> report.cursor, least |-> Outstanding]
          /\ UNCHANGED <<vars, report, aim, rewound>>
      BY <1>3 DEF LoadCursor
    <2>2. TypeOK' /\ RunOK' /\ Outstanding' = Outstanding /\ balances' = balances
      BY <2>1 DEF vars, chainVars, syncVars, budget, ReportInv, TypeOK, RunOK, ChainTypeOK,
                  Height, Outstanding
    <2>3. Outstanding \in Nat
      BY <1>1 DEF Outstanding, Minus
    <2>4. /\ sample'.cursor = report.cursor /\ sample'.least = Outstanding
          /\ sample' \in [cursor : Nat, least : Nat]
      BY <1>1, <2>1, <2>3
    <2>5. Outstanding = 0 \/ report.cursor <= balances.cursor
      BY DEF Outstanding, ReportInv
    <2>6. Minus(report.tip, report.cursor) >= Outstanding
      BY <1>1, <2>5 DEF Outstanding, Minus
    <2>7. QED
      BY <1>1, <2>1, <2>2, <2>3, <2>4, <2>5, <2>6 DEF ReportInv
  <1>4. CASE LoadTip
    <2>1. sample' = NoSample /\ UNCHANGED <<vars, report, aim, rewound>>
      BY <1>4 DEF LoadTip
    <2>2. TypeOK' /\ RunOK' /\ balances' = balances
      BY <2>1 DEF vars, chainVars, syncVars, budget, ReportInv, TypeOK, RunOK, ChainTypeOK,
                  Height
    <2>3. sample' \in [cursor : Nat, least : Nat] /\ ~Sampling'
      BY <2>1, ChainAssumption DEF NoSample, Sampling
    <2>4. QED
      BY <2>1, <2>2, <2>3 DEF ReportInv
  <1>5. CASE UNCHANGED allVars
    BY <1>5 DEF allVars, monitorVars, vars, chainVars, syncVars, budget, ReportInv, TypeOK,
                RunOK, ChainTypeOK, Height, Sampling, Outstanding
  <1>6. QED
    BY <1>2, <1>3, <1>4, <1>5 DEF MonitorNext

(* A report half stored: the new cursor beside the tip of the report before.*)
LEMMA HalfStoredFits ==
    ASSUME ReportInv, ReportInv', SyncerStep
    PROVE  HalfStored
  <1>1. /\ balances.cursor \in Nat /\ report.tip \in Nat /\ aim \in Nat /\ crashes \in Nat
        /\ report.tip >= aim
    BY DEF ReportInv, TypeOK
  <1>2. /\ Outstanding \in Nat /\ Outstanding' \in Nat
    <2>1. aim' \in Nat /\ balances'.cursor \in Nat
      BY DEF ReportInv, TypeOK
    <2>2. Minus(aim, balances.cursor) \in Nat /\ Minus(aim', balances'.cursor) \in Nat
      BY <1>1, <2>1 DEF Minus
    <2>3. QED
      BY <2>2, Zenon DEF Outstanding
  <1>3. Smaller(Outstanding, Outstanding') <= Outstanding
    BY <1>2 DEF Smaller
  <1>4. Outstanding <= Minus(report.tip, balances.cursor)
    BY <1>1 DEF Outstanding, Minus
  <1>5. Minus(report.tip, balances.cursor) \in Nat
    BY <1>1 DEF Minus
  <1>6. CASE report'.cursor = balances.cursor
    BY <1>2, <1>3, <1>4, <1>5, <1>6 DEF HalfStored, Smaller
  <1>7. CASE report' = report \/ crashes' # crashes
    BY <1>7 DEF HalfStored
  <1>8. RecordStart \/ RecordFinish => report'.cursor = balances.cursor
    BY DEF RecordStart, RecordFinish
  <1>9. Restart => crashes' # crashes
    BY <1>1 DEF Restart
  <1>10. QED
    BY <1>6, <1>7, <1>8, <1>9 DEF SyncerStep

(* The lag a sample shows is never less than what the syncer had still to   *)
(* do at some moment while the sample was taken, whatever steps fall        *)
(* between its loads, whatever fails and whichever blocks are replaced.     *)
THEOREM MonitorLagNeverHidden == MonitorSpec => LagNeverHidden
  <1>1. MonitorInit => ReportInv
    <2> SUFFICES ASSUME MonitorInit PROVE ReportInv
      OBVIOUS
    <2>1. TypeOK /\ RunOK
      BY TypeInit DEF MonitorInit
    <2>2. NoSample \in [cursor : Nat, least : Nat]
      BY ChainAssumption DEF NoSample
    <2>3. balances.cursor \in Nat
      BY <2>1 DEF TypeOK
    <2>4. /\ report = [cursor |-> 0, tip |-> 0] /\ aim = 0 /\ rewound = FALSE
          /\ sample = NoSample
      BY DEF MonitorInit, Unrecorded
    <2>5. report.cursor <= balances.cursor /\ report.tip >= aim
      BY <2>3, <2>4
    <2>6. report \in [cursor : Nat, tip : Nat] /\ ~Sampling
      BY <2>4 DEF Sampling
    <2>7. QED
      BY <2>1, <2>2, <2>4, <2>5, <2>6 DEF ReportInv
  <1>2. ReportInv /\ [MonitorNext]_allVars => ReportInv'
    BY ReportStep
  <1>3. ReportInv /\ ReportInv' /\ [MonitorNext]_allVars => [SampleHonest /\ HalfStored]_allVars
    <2> SUFFICES ASSUME ReportInv, ReportInv', MonitorNext
                 PROVE  SampleHonest /\ HalfStored
      OBVIOUS
    <2>1. SampleHonest
      BY DEF SampleHonest, LoadTip, ReportInv
    <2>2. HalfStored
      <3>1. CASE SyncerStep
        BY <3>1, HalfStoredFits
      <3>2. CASE LoadCursor \/ LoadTip
        BY <3>2 DEF LoadCursor, LoadTip, HalfStored
      <3>3. QED
        BY <3>1, <3>2 DEF MonitorNext
    <2>3. QED
      BY <2>1, <2>2
  <1>4. QED
    BY <1>1, <1>2, <1>3, PTL DEF MonitorSpec, LagNeverHidden
===============================================================================
