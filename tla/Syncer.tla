-------------------------------- MODULE Syncer --------------------------------
(***************************************************************************)
(* The sync side of `serve` (src/cli/serve_cmd.rs, src/follow): catch up    *)
(* from the snapshot, then follow the chain in passes, folding every        *)
(* touched address into the balance map and handing the changes of a pass   *)
(* to the PIR thread.                                                       *)
(*                                                                         *)
(* pc names the await the task is suspended at; each action is the code     *)
(* that runs from one await to the next, so the chain may grow or           *)
(* reorganise, and the process may die, between any two of them.            *)
(*                                                                         *)
(*   poll     asleep between passes (or between catch-up attempts)          *)
(*   repair   reading the stale addresses at the rewind block               *)
(*   resolve  asking for the tip                                            *)
(*   logs     eth_getLogs over run.lo .. run.hi                             *)
(*   apply    balanceOf for the touched addresses at run.hi                 *)
(*   finish   the hash of the cursor block, the save and the hand-over      *)
(***************************************************************************)
EXTENDS Chain

CONSTANTS Finalized,      \* BOOLEAN: Tip::Finalized, otherwise Tip::Confirmations
          Confirmations,  \* N of --confirmations N
          Chunk,          \* cfg.chunk
          Window,         \* cfg.reorg_window
          MaxFaults,      \* bound: failed RPC calls and failed saves
          MaxCrashes      \* bound: restarts of the process

ASSUME SyncerAssumption ==
    /\ Finalized \in BOOLEAN
    /\ {Confirmations, Window, MaxFaults, MaxCrashes} \subseteq Nat
    /\ Chunk \in Nat \ {0}

VARIABLES balances,   \* the BalanceMap in memory: inner and cursor
          snapshot,   \* the snapshot file
          watch,      \* ChainWatch: hash of the cursor block, recently touched addresses
          changed,    \* PassState.changed
          inserted,   \* SyncRun.inserted
          run,        \* locals of the running sync: lo, hi, to, chunk
          seen,       \* touches in the logs of the current chunk
          mode,       \* "catchup" (no PIR thread yet) or "follow"
          pc,
          published,  \* what the PIR side holds once every batch sent is absorbed
          faults, crashes

syncVars == <<balances, snapshot, watch, changed, inserted, run, seen, mode, pc, published>>
budget == <<faults, crashes>>
vars == <<chainVars, syncVars, budget>>

-------------------------------------------------------------------------------
Minus(m, n) == IF m >= n THEN m - n ELSE 0          \* saturating_sub
Smaller(m, n) == IF m <= n THEN m ELSE n

TipNow == IF Finalized THEN final ELSE Minus(Height, Confirmations)

WatchedChunk == [through : Nat, addrs : SUBSET Addr]
FreshWatch == [hash |-> NoHash, recent |-> <<>>]
NoRun == [lo |-> 1, hi |-> 0, to |-> 0, chunk |-> Chunk]
NothingSeen == [a \in Addr |-> NoTouch]

Touched == {a \in Addr : seen[a] # NoTouch}
Stale == UNION {watch.recent[i].addrs : i \in 1..Len(watch.recent)}
RewindTo == Minus(balances.cursor, Window)

Armed == mode = "follow" /\ ~Finalized /\ watch.hash # NoHash

(* Mutants: a chunk filed under its first block, a trim that is one block   *)
(* late.                                                                    *)
RecordAtStart(recent, through, addrs) ==
    IF addrs = {} THEN recent ELSE Append(recent, [through |-> run.lo, addrs |-> addrs])
TrimLate(recent, keepFrom) ==
    LET droppable == {k \in 0..Len(recent) : \A i \in 1..k : recent[i].through + 1 < keepFrom}
    IN  SubSeq(recent, Max(droppable) + 1, Len(recent))

(* ChainWatch::record, ChainWatch::trim *)
Record(recent, through, addrs) ==
    IF addrs = {} THEN recent ELSE Append(recent, [through |-> through, addrs |-> addrs])
Trim(recent, keepFrom) ==
    LET droppable == {k \in 0..Len(recent) : \A i \in 1..k : recent[i].through < keepFrom}
    IN  SubSeq(recent, Max(droppable) + 1, Len(recent))

TypeOK ==
    /\ ChainTypeOK
    /\ balances \in [inner : [Addr -> Slot], cursor : Nat]
    /\ snapshot \in [inner : [Addr -> Slot], cursor : Nat]
    /\ watch \in [hash : Nat \X Nat, recent : Seq(WatchedChunk)]
    /\ changed \in [Addr -> Slot]
    /\ inserted \in SUBSET Addr
    /\ run \in [lo : Nat, hi : Nat, to : Nat, chunk : Nat \ {0}]
    /\ seen \in [Addr -> Touch]
    /\ mode \in {"catchup", "follow"}
    /\ pc \in {"poll", "repair", "resolve", "logs", "apply", "finish"}
    /\ published \in [Addr -> Slot]
    /\ faults \in Nat /\ crashes \in Nat

-------------------------------------------------------------------------------
(* The first start: an empty map at the block before --from-block, or an    *)
(* imported snapshot that already holds some of the holders at Origin.      *)
Init ==
    /\ ChainInit
    /\ \E held \in SUBSET {a \in Addr : ~IsZero(BalanceAt(Origin)[a])} :
          balances = [inner |-> [a \in Addr |->
                                   IF a \in held
                                     THEN [balance |-> BalanceAt(Origin)[a], stamp |-> NoTouch]
                                     ELSE Absent],
                      cursor |-> Origin]
    /\ snapshot = balances
    /\ watch = FreshWatch
    /\ changed = EmptyMap /\ inserted = {}
    /\ run = NoRun /\ seen = NothingSeen
    /\ mode = "catchup" /\ pc = "poll"
    /\ published = EmptyMap
    /\ faults = 0 /\ crashes = 0

SyncOver == run' = NoRun /\ seen' = NothingSeen /\ inserted' = {}

(* The error path out of a pass or of a catch-up attempt: the map as it     *)
(* stands is saved if the disk allows, and the loop sleeps before retrying. *)
(* catch_up_once returns before its save when the tip cannot be resolved.   *)
GiveUp(saved) ==
    /\ pc' = "poll"
    /\ IF saved /\ ~(mode = "catchup" /\ pc \in {"poll", "resolve"})
         THEN snapshot' = balances'
         ELSE UNCHANGED snapshot
    /\ SyncOver
    /\ UNCHANGED <<chainVars, mode, published>>

(* ChainWatch::repair_if_reorged up to its first await ...                  *)
CheckCursorHash ==
    /\ pc = "poll" /\ Armed
    /\ IF HashAt(balances.cursor) = watch.hash
         THEN pc' = "resolve" /\ UNCHANGED <<balances, watch>>
         ELSE IF Stale # {}
           THEN pc' = "repair" /\ UNCHANGED <<balances, watch>>
           ELSE /\ pc' = "resolve"
                /\ balances' = [balances EXCEPT !.cursor = RewindTo]
                /\ watch' = FreshWatch
    /\ UNCHANGED <<chainVars, snapshot, changed, inserted, run, seen, mode, published, budget>>

(* Mutant: the rewind forgets to correct the stale addresses. *)
RepairCursorOnly ==
    /\ pc = "repair" /\ RewindTo \in 1..Height
    /\ balances' = [balances EXCEPT !.cursor = RewindTo]
    /\ watch' = FreshWatch /\ pc' = "resolve"
    /\ UNCHANGED <<chainVars, snapshot, changed, inserted, run, seen, mode, published, budget>>

(* ... and from the balances of the stale addresses to its end.             *)
Repair ==
    /\ pc = "repair" /\ RewindTo \in 1..Height
    /\ balances' = [inner  |-> ApplyAll(balances.inner, Stale, BalanceAt(RewindTo), NothingSeen),
                    cursor |-> RewindTo]
    /\ watch' = FreshWatch
    /\ pc' = "resolve"
    /\ UNCHANGED <<chainVars, snapshot, changed, inserted, run, seen, mode, published, budget>>

Resolving == pc = "resolve" \/ (pc = "poll" /\ ~Armed)

(* The tip is ahead of the cursor: a sync of cursor + 1 .. tip begins.  A   *)
(* catch-up attempt works on a PassState of its own.                        *)
StartSync ==
    /\ Resolving /\ TipNow > balances.cursor
    /\ LET lo == balances.cursor + 1
       IN  run' = [lo |-> lo, hi |-> Smaller(lo + Chunk - 1, TipNow), to |-> TipNow,
                   chunk |-> Chunk]
    /\ changed' = EmptyMap /\ inserted' = {}
    /\ watch' = IF mode = "catchup" THEN FreshWatch ELSE watch
    /\ pc' = "logs"
    /\ UNCHANGED <<chainVars, balances, snapshot, seen, mode, published, budget>>

(* Catch-up is over: the PIR thread starts from the map, follow::run from a *)
(* default PassState.                                                       *)
Spawned ==
    /\ mode' = "follow" /\ published' = balances'.inner
    /\ watch' = FreshWatch /\ changed' = EmptyMap

(* Nothing new: the pass, or the catch-up, ends here.                       *)
AtTip ==
    /\ Resolving /\ TipNow <= balances.cursor
    /\ pc' = "poll"
    /\ UNCHANGED balances
    /\ IF mode = "catchup" THEN Spawned ELSE UNCHANGED <<mode, published, watch, changed>>
    /\ UNCHANGED <<chainVars, snapshot, inserted, run, seen, budget>>

(* Mutants: the logs of a narrowed range taken for those of the whole one,  *)
(* a chunk size halved down to nothing.                                     *)
FetchLogsShort ==
    /\ pc = "logs"
    /\ seen' = SeenIn(run.lo, run.lo + (run.hi - run.lo) \div 2)
    /\ pc' = "apply"
    /\ UNCHANGED <<chainVars, balances, snapshot, watch, changed, inserted, run, mode,
                   published, budget>>
NarrowToNothing ==
    /\ pc = "logs" /\ run.hi > run.lo
    /\ run' = [run EXCEPT !.hi = run.lo + (run.hi - run.lo) \div 2,
                          !.chunk = run.chunk \div 2]
    /\ UNCHANGED <<chainVars, balances, snapshot, watch, changed, inserted, seen, mode, pc,
                   published, budget>>

(* fetch_logs: the provider answers the range, or says it is too large.     *)
FetchLogs ==
    /\ pc = "logs"
    /\ seen' = SeenIn(run.lo, run.hi)
    /\ pc' = "apply"
    /\ UNCHANGED <<chainVars, balances, snapshot, watch, changed, inserted, run, mode,
                   published, budget>>

NarrowRange ==
    /\ pc = "logs" /\ run.hi > run.lo
    /\ run' = [run EXCEPT !.hi = run.lo + (run.hi - run.lo) \div 2,
                          !.chunk = IF run.chunk \div 2 > 1 THEN run.chunk \div 2 ELSE 1]
    /\ UNCHANGED <<chainVars, balances, snapshot, watch, changed, inserted, seen, mode, pc,
                   published, budget>>

(* apply_chunk: the balances of every touched address at run.hi, folded     *)
(* into the map in one go; a chunk that touched nothing reads nothing.      *)
ChunkApplied ==
    /\ pc = "apply" /\ (Touched # {} => run.hi <= Height)
    /\ LET at == IF Touched = {} THEN NothingSeen ELSE BalanceAt(run.hi)
       IN  /\ balances' = [inner  |-> ApplyAll(balances.inner, Touched, at, seen),
                           cursor |-> run.hi]
           /\ changed' = ChangedAfter(changed, inserted, balances.inner, Touched, at, seen)
           /\ inserted' = InsertedAfter(inserted, balances.inner, Touched, at, seen)
    /\ watch' = [watch EXCEPT !.recent = Record(@, run.hi, Touched)]
    /\ UNCHANGED <<chainVars, mode, published>>

AfterChunk ==
    IF run.hi < run.to
      THEN /\ run' = [run EXCEPT !.lo = run.hi + 1,
                                 !.hi = Smaller(run.hi + run.chunk, run.to)]
           /\ pc' = "logs"
      ELSE pc' = "finish" /\ UNCHANGED run

(* Mutant: the snapshot is written between the new cursor and the new rows. *)
ApplyChunkEarlySave ==
    /\ ChunkApplied /\ AfterChunk
    /\ snapshot' \in {snapshot, [balances EXCEPT !.cursor = run.hi]}
    /\ seen' = NothingSeen
    /\ UNCHANGED budget

(* sync_one_chunk with maybe_snapshot: due at any chunk boundary.           *)
ApplyChunk ==
    /\ ChunkApplied
    /\ AfterChunk
    /\ snapshot' \in {snapshot, balances'}
    /\ seen' = NothingSeen
    /\ UNCHANGED budget

(* The snapshot write of sync_one_chunk fails: the chunk stays applied.     *)
ChunkSaveFails ==
    /\ faults < MaxFaults
    /\ ChunkApplied
    /\ \E saved \in BOOLEAN : GiveUp(saved)
    /\ faults' = faults + 1 /\ UNCHANGED crashes

(* What the finished sync leaves in memory, and in the watch once the hash  *)
(* of the cursor block is known.                                            *)
Pruned == [balances EXCEPT !.inner = PruneZero(@, inserted)]
WatchAtHead ==      \* mutant: the hash of the latest block, not of the cursor's
    [hash |-> HashAt(Height), recent |-> Trim(watch.recent, RewindTo)]
WatchAtCursor ==
    IF Finalized THEN watch
    ELSE [hash |-> HashAt(balances.cursor), recent |-> Trim(watch.recent, RewindTo)]

(* finish_pass: hash, save, hand the changes over.                          *)
FinishPass ==
    /\ pc = "finish" /\ mode = "follow"
    /\ balances' = Pruned /\ snapshot' = Pruned
    /\ watch' = WatchAtCursor
    /\ published' = Absorb(published, changed)
    /\ pc' = "poll" /\ SyncOver
    /\ UNCHANGED <<chainVars, changed, mode, budget>>

(* sync_to_target: save, then on to serving; the changes are dropped since  *)
(* the PIR database is built from the map itself.                           *)
FinishCatchUp ==
    /\ pc = "finish" /\ mode = "catchup"
    /\ balances' = Pruned /\ snapshot' = Pruned
    /\ Spawned
    /\ pc' = "poll" /\ SyncOver
    /\ UNCHANGED <<chainVars, budget>>

(* Mutant: the read is repeated until the block is back. *)
WaitForBlock == pc \in {"apply", "repair"} /\ UNCHANGED vars

(* The block the code insists on reading is no longer there.                *)
BlockMissing ==
    /\ \/ pc = "apply" /\ Touched # {} /\ run.hi > Height
       \/ pc = "repair" /\ RewindTo \notin 1..Height
    /\ UNCHANGED <<balances, watch, changed, budget>>
    /\ GiveUp(TRUE)

-------------------------------------------------------------------------------
(* Faults.  An RPC call fails for good: the transport's own retries are     *)
(* spent, or the provider refuses.                                          *)
CallsRpc ==
    \/ pc \in {"poll", "repair", "resolve", "logs"}
    \/ pc = "apply" /\ Touched # {}

RpcFails ==
    /\ faults < MaxFaults /\ CallsRpc
    /\ UNCHANGED <<balances, watch, changed>>
    /\ \E saved \in BOOLEAN : GiveUp(saved)
    /\ faults' = faults + 1 /\ UNCHANGED crashes

HashFails ==
    /\ faults < MaxFaults
    /\ pc = "finish" /\ mode = "follow" /\ ~Finalized
    /\ balances' = Pruned
    /\ \E saved \in BOOLEAN : GiveUp(saved)
    /\ faults' = faults + 1
    /\ UNCHANGED <<watch, changed, crashes>>

(* The last save fails.  on_failure tries once more, the catch-up does not. *)
FinalSaveFails ==
    /\ faults < MaxFaults
    /\ pc = "finish"
    /\ balances' = Pruned
    /\ watch' = IF mode = "follow" THEN WatchAtCursor ELSE watch
    /\ \E saved \in BOOLEAN : (mode = "catchup" => ~saved) /\ GiveUp(saved)
    /\ faults' = faults + 1
    /\ UNCHANGED <<changed, crashes>>

(* The process dies and is started again from the snapshot file.  A start    *)
(* that its preflight ends has written nothing, and is left out.            *)
Restart ==
    /\ crashes < MaxCrashes
    /\ balances' = snapshot
    /\ watch' = FreshWatch /\ changed' = EmptyMap
    /\ mode' = "catchup" /\ pc' = "poll" /\ published' = EmptyMap
    /\ SyncOver
    /\ crashes' = crashes + 1
    /\ UNCHANGED <<chainVars, snapshot, faults>>

-------------------------------------------------------------------------------
Step ==
    \/ CheckCursorHash \/ Repair \/ StartSync \/ AtTip
    \/ FetchLogs \/ NarrowRange \/ ApplyChunk
    \/ FinishPass \/ FinishCatchUp \/ BlockMissing

Fault == RpcFails \/ ChunkSaveFails \/ HashFails \/ FinalSaveFails \/ Restart

Environment == ChainNext /\ UNCHANGED <<syncVars, budget>>

Next == Step \/ Fault \/ Environment

Spec == Init /\ [][Next]_vars
FairSpec == Spec /\ WF_vars(Step)

-------------------------------------------------------------------------------
(* Properties.                                                              *)

(* A map m agrees with the chain at its own cursor: an entry is there       *)
(* exactly for the addresses with a balance, but for those no watched event *)
(* has named since the map was started.                                     *)
SlotExact(m, a) ==
    LET held == BalanceAt(m.cursor)[a]
    IN  IF m.inner[a] = Absent
          THEN IsZero(held) \/ \A n \in 1..m.cursor : chain[n].touch[a] = {}
          ELSE m.inner[a].balance = held /\ ~IsZero(held)

Exact(m) == m.cursor \in 1..Height /\ \A a \in Addr : SlotExact(m, a)

(* The map in memory is exact at its cursor at every await: after a failed  *)
(* pass, a failed save, a narrowed range, a restart from an older file.     *)
MapExact == Exact(balances)

(* So is the snapshot file, whichever moment it was written at.             *)
SnapshotExact == Exact(snapshot)

(* The stamp of a token an address holds is the last block that moved it;   *)
(* a token it does not hold may have lost its stamp with a removed entry.   *)
StampsExact ==
    \A a \in Addr : balances.inner[a] # Absent =>
        \A t \in Token :
            LET stamp == balances.inner[a].stamp[t]
                last  == LastTouch(a, t, 1, balances.cursor)
            IN  stamp = last \/ (stamp = 0 /\ balances.inner[a].balance[t] = 0)

AtRest == mode = "follow" /\ pc = "poll"

(* Between passes the PIR side holds the current record of every holder in  *)
(* the map: no change of a pass is lost on its way to the PIR thread.       *)
HoldersCurrent ==
    AtRest => \A a \in Addr :
                 balances.inner[a] # Absent => published[a] = balances.inner[a]

(* ... which the code achieves as long as no pass has failed: the changes a *)
(* failed one had collected are cleared by the next.                        *)
HoldersCurrentUnlessFailed == faults = 0 => HoldersCurrent

(* Between passes the PIR side holds the map, drained addresses gone.       *)
PirFollowsMap == AtRest => published = balances.inner

(* Between passes the watch remembers nothing older than a repair can use,  *)
(* unless a failed pass has left untrimmed what its chunks recorded.        *)
WatchKeepsOnlyReachable ==
    faults = 0 /\ AtRest =>
        \A i \in 1..Len(watch.recent) : watch.recent[i].through >= RewindTo

HashHolds == watch.hash # NoHash /\ HashAt(balances.cursor) = watch.hash

(* As long as block `cursor` still has the hash the watch stored for it,    *)
(* the map is the chain at the cursor: a repair has undone everything a     *)
(* replaced branch had put into it.                                         *)
HashVouches == AtRest /\ HashHolds => Exact(balances)

(* Unless the process restarts or a pass has failed, the cursor moves back  *)
(* only when some block has been replaced.                                  *)
RewindNeedsReorg ==
    [][balances'.cursor < balances.cursor /\ crashes' = crashes /\ faults = 0
         => branch > 1]_vars

(* The syncer always gets back to the tip it follows.                       *)
CatchesUp == []<>(mode = "follow" /\ balances.cursor >= TipNow)
===============================================================================
