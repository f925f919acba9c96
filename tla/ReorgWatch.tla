------------------------------ MODULE ReorgWatch ------------------------------
(***************************************************************************)
(* The reorg tripwire of `--confirmations N` under the reorganisations it   *)
(* is built for: those that strike between two passes, while the hash of    *)
(* the cursor block is known, and leave the tip the syncer follows at or    *)
(* past the blocks the watch has recorded and a repair rewinds over.  With  *)
(* a tip below them the pass after the repair would end before it has read  *)
(* again all that the rewind went back over.                                *)
(***************************************************************************)
EXTENDS Syncer

VARIABLES watchedFrom,   \* history: the cursor when the watch was last empty-handed
          repaired       \* history: entries a repair changed, not handed over since

watchVars == <<vars, watchedFrom, repaired>>

Reachable == IF watchedFrom > RewindTo THEN watchedFrom ELSE RewindTo

WithinWatch == Height' < Height => pc = "poll" /\ Armed /\ TipNow' >= Reachable

HandedOver == IF published' = published THEN {} ELSE {a \in Addr : changed[a] # Absent}

WatchInit == Init /\ watchedFrom = balances.cursor /\ repaired = {}
WatchNext ==
    /\ Next
    /\ WithinWatch
    /\ watchedFrom' = IF watch' = FreshWatch THEN balances'.cursor ELSE watchedFrom
    /\ repaired' = IF pc = "repair"
                     THEN repaired \union {a \in Addr : balances'.inner[a] # balances.inner[a]}
                     ELSE repaired \ HandedOver

WatchSpec == WatchInit /\ [][WatchNext]_watchVars

(* A repair could fix every address moved in the blocks it rewinds over.    *)
WatchCoversWindow ==
    AtRest /\ HashHolds =>
        \A n \in (Reachable + 1)..balances.cursor, a \in Addr :
            chain[n].touch[a] # {} => a \in Stale

(* Through reorganisations and until a pass fails, the PIR side holds the   *)
(* current record of every holder but for those whose entry a repair        *)
(* changed: these keep the orphaned balance until a block of the new branch *)
(* moves them.                                                              *)
HoldersCurrentUnlessRepaired ==
    faults = 0 /\ AtRest =>
        \A a \in Addr \ repaired :
            balances.inner[a] # Absent => published[a] = balances.inner[a]
===============================================================================
