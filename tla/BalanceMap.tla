------------------------------ MODULE BalanceMap ------------------------------
(***************************************************************************)
(* The plaintext balance map (src/map) and the per-pass bookkeeping of what *)
(* changed in it (src/follow/apply.rs).  Everything here is pure: the map   *)
(* is a function from addresses to entries, with Absent where the code's    *)
(* HashMap has no key.                                                      *)
(***************************************************************************)
EXTENDS Naturals

CONSTANTS Addr,    \* the 20-byte addresses of interest
          Token,   \* {usdt, usdc}: the code names each field, the rules are per token
          Absent   \* "no such key"

Reading == [Token -> Nat]           \* one balance per token, read at one block
Touch == [Token -> Nat]             \* last block whose logs moved the token; 0 is None
Entry == [balance : Reading, stamp : Touch]
Slot == Entry \cup {Absent}

ASSUME AbsentAssumption == Absent \notin Entry

NoTouch == [t \in Token |-> 0]
IsZero(reading) == \A t \in Token : reading[t] = 0
EmptyMap == [a \in Addr |-> Absent]

-------------------------------------------------------------------------------
(* BalanceMap::apply for one address: the slot it leaves behind. *)

(* Mutant of Stamped: the first touch wins instead of the last. *)
StampedOnce(stamp, seen) == [t \in Token |-> IF stamp[t] = 0 THEN seen[t] ELSE stamp[t]]

Stamped(stamp, seen) == [t \in Token |-> IF seen[t] = 0 THEN stamp[t] ELSE seen[t]]

Written(slot, reading, seen) ==
    IF slot = Absent
      THEN [balance |-> reading, stamp |-> seen]
      ELSE [balance |-> reading, stamp |-> Stamped(slot.stamp, seen)]

ApplySlot(slot, reading, seen) ==
    IF IsZero(reading) THEN Absent ELSE Written(slot, reading, seen)

(* ... and what it reports (enum Applied). *)
Outcome(slot, reading, seen) ==
    CASE slot = Absent /\ IsZero(reading)  -> "SkippedNewZero"
      [] slot = Absent /\ ~IsZero(reading) -> "Inserted"
      [] slot # Absent /\ IsZero(reading)  -> "Removed"
      [] slot # Absent /\ ~IsZero(reading) ->
            IF Written(slot, reading, seen) = slot THEN "Unchanged" ELSE "Updated"

(* A whole batch of readings folded into the map; each address is independent. *)
ApplyAll(inner, touched, readings, seen) ==
    [a \in Addr |-> IF a \in touched
                      THEN ApplySlot(inner[a], readings[a], seen[a])
                      ELSE inner[a]]

(* prune_zero over the addresses one sync inserted. *)
PruneZero(inner, candidates) ==
    [a \in Addr |-> IF a \in candidates /\ inner[a] # Absent /\ IsZero(inner[a].balance)
                      THEN Absent ELSE inner[a]]

-------------------------------------------------------------------------------
(* The delta of a pass: changed maps an address to the record the PIR       *)
(* thread is to receive, inserted is the set the running sync has added.    *)

OutcomeOf(inner, readings, seen, a) == Outcome(inner[a], readings[a], seen[a])

InsertedAfter(inserted, inner, touched, readings, seen) ==
    LET is(o) == {a \in touched : OutcomeOf(inner, readings, seen, a) = o}
    IN  (inserted \cup is("Inserted")) \ is("Removed")

(* Mutant of ChangedSlot: record_current_entry does not refresh a record    *)
(* an earlier chunk of the pass already queued.                             *)
ChangedSlotStale(change, isInserted, slot, reading, seen) ==
    LET outcome == Outcome(slot, reading, seen)
    IN  CASE outcome \in {"Inserted", "Updated"} ->
                IF change = Absent THEN ApplySlot(slot, reading, seen) ELSE change
          [] outcome = "Removed" ->
                IF isInserted THEN Absent ELSE Written(slot, reading, seen)
          [] OTHER -> change

ChangedSlot(change, isInserted, slot, reading, seen) ==
    LET outcome == Outcome(slot, reading, seen)
        now     == ApplySlot(slot, reading, seen)
    IN  CASE outcome \in {"Inserted", "Updated"} -> now
          [] outcome = "Removed" ->
                IF isInserted THEN Absent ELSE Written(slot, reading, seen)
          [] outcome = "Unchanged" -> IF change = Absent THEN Absent ELSE now
          [] outcome = "SkippedNewZero" -> change

ChangedAfter(changed, inserted, inner, touched, readings, seen) ==
    [a \in Addr |-> IF a \in touched
                      THEN ChangedSlot(changed[a], a \in inserted, inner[a],
                                       readings[a], seen[a])
                      ELSE changed[a]]

(* What the PIR side holds once a batch is absorbed: a zero record clears it. *)
Absorb(view, batch) ==
    [a \in Addr |-> IF batch[a] = Absent THEN view[a]
                    ELSE IF IsZero(batch[a].balance) THEN Absent ELSE batch[a]]
===============================================================================
