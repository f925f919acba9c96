------------------------------ MODULE SyncCommand -----------------------------
(***************************************************************************)
(* The `sync` command (src/cli/sync_cmd.rs) run by hand or by a timer, any  *)
(* number of them on one snapshot: the lock, the choice of the range, the   *)
(* retries, and how a snapshot reaches the disk (src/map/lock.rs,           *)
(* src/map/snapshot.rs).                                                    *)
(*                                                                         *)
(* Folding blocks into the map is the matter of Syncer; here an entry is    *)
(* the block its balance was read at.  Blocks up to MaxBlock are final, so  *)
(* the chain does not change.                                               *)
(*                                                                         *)
(*   idle    the process is not running                                     *)
(*   load    it holds the lock                                              *)
(*   sync    sync_once, before the chunk that starts at job.lo              *)
(*   write   BalanceMap::save, before the temporary file is written         *)
(*   rename  the temporary file is written and synced                       *)
(*   retry   the attempt failed and its save has been tried                 *)
(***************************************************************************)
EXTENDS Integers, FiniteSets

CONSTANTS Proc, Addr,
          NoFile,       \* there is no snapshot
          Torn,         \* a file whose write was cut short: load refuses it
          NoProc,       \* the lock is free
          MaxBlock,     \* bound: the finalized block
          Chunk,        \* --chunk
          Retries,      \* --retries
          MaxCommands,  \* bound: commands started
          MaxOutages    \* bound: power failures

ASSUME SyncCommandAssumption ==
    /\ {MaxBlock, Chunk} \subseteq Nat \ {0}
    /\ {Retries, MaxCommands, MaxOutages} \subseteq Nat
    /\ NoProc \notin Proc /\ NoFile # Torn

Blocks == 1..MaxBlock

(* skipped is a history variable of a map: blocks no command ever scanned.  *)
Map == [cursor : 0..MaxBlock, read : [Addr -> 0..MaxBlock], skipped : SUBSET Blocks]
Job == [lo : Nat, to : Nat, before : Nat, stalled : Nat, after : {"sync", "done", "retry"}]

ASSUME NoMapAssumption == {NoFile, Torn} \intersect Map = {}

VARIABLES touched,   \* the addresses each block moves
          file,      \* the snapshot, as a process sees it
          disk,      \* the snapshot, as it is after a power failure
          synced,    \* the rows of the snapshot are on disk, not only its name
          lock,      \* who holds the lock
          pc, map, job,
          base,      \* what each process has last loaded or saved
          saved,     \* whether its last save succeeded
          outcome,   \* how the last command ended, none while one runs
          commands, outages

procVars == <<pc, map, job, base, saved, outcome>>
files == <<file, disk, synced>>
budget == <<commands, outages>>
vars == <<touched, files, lock, procVars, budget>>

EmptyMap == [cursor |-> 0, read |-> [a \in Addr |-> 0], skipped |-> {}]
(* What is left of a range, the cursor this attempt began at, and how many  *)
(* attempts in a row have not moved it.                                     *)
Attempt(lo, to, before, stalled) ==
    [lo |-> lo, to |-> to, before |-> before, stalled |-> stalled, after |-> "sync"]
NoJob == Attempt(0, 0, 0, 0)
Smaller(m, n) == IF m <= n THEN m ELSE n

TypeOK ==
    /\ touched \in [Blocks -> SUBSET Addr]
    /\ {file, disk} \subseteq Map \union {NoFile, Torn} /\ synced \in BOOLEAN
    /\ lock \in Proc \union {NoProc}
    /\ pc \in [Proc -> {"idle", "load", "sync", "write", "rename", "retry"}]
    /\ map \in [Proc -> Map] /\ job \in [Proc -> Job]
    /\ base \in [Proc -> Map \union {NoFile}]
    /\ saved \in [Proc -> BOOLEAN]
    /\ outcome \in {"none", "ok", "error"}
    /\ commands \in 0..MaxCommands /\ outages \in 0..MaxOutages

-------------------------------------------------------------------------------
Init ==
    /\ touched \in [Blocks -> SUBSET Addr]
    /\ file = NoFile /\ disk = NoFile /\ synced = TRUE
    /\ lock = NoProc
    /\ pc = [p \in Proc |-> "idle"]
    /\ map = [p \in Proc |-> EmptyMap] /\ job = [p \in Proc |-> NoJob]
    /\ base = [p \in Proc |-> NoFile]
    /\ saved = [p \in Proc |-> TRUE]
    /\ outcome = "none"
    /\ commands = 0 /\ outages = 0

(* The process ends and the kernel drops its lock.                          *)
End(p, how) ==
    /\ pc' = [pc EXCEPT ![p] = "idle"]
    /\ lock' = IF lock = p THEN NoProc ELSE lock
    /\ map' = [map EXCEPT ![p] = EmptyMap] /\ job' = [job EXCEPT ![p] = NoJob]
    /\ base' = [base EXCEPT ![p] = NoFile]
    /\ saved' = [saved EXCEPT ![p] = TRUE]
    /\ outcome' = how

(* SnapshotLock::acquire: a second command ends here, having done nothing.  *)
AcquireShared(p) ==      \* mutant: a lock that is not exclusive
    /\ pc[p] = "idle" /\ commands < MaxCommands
    /\ lock' = p
    /\ pc' = [pc EXCEPT ![p] = "load"] /\ commands' = commands + 1
    /\ outcome' = "none"
    /\ UNCHANGED <<touched, files, map, job, base, saved, outages>>
Acquire(p) ==
    /\ pc[p] = "idle" /\ commands < MaxCommands
    /\ lock = NoProc /\ lock' = p
    /\ pc' = [pc EXCEPT ![p] = "load"] /\ commands' = commands + 1
    /\ outcome' = "none"
    /\ UNCHANGED <<touched, files, map, job, base, saved, outages>>

(* load_or_create_map: an empty map stands before the block it starts from. *)
Created(from) == [cursor |-> from - 1, read |-> EmptyMap.read, skipped |-> 1..(from - 1)]

(* prepare_replay: a range that starts at or before the cursor takes the    *)
(* cursor back; one that starts past it leaves the blocks between alone.    *)
PreparedTwoBack(m, from) ==      \* mutant: counted from the wrong end of the block
    IF from <= m.cursor THEN [m EXCEPT !.cursor = from - 2] ELSE m
Prepared(m, from) == IF from <= m.cursor THEN [m EXCEPT !.cursor = from - 1] ELSE m
Gap(m, from) == {n \in Blocks : m.cursor < n /\ n < from}

(* BalanceMap::load: a file that was cut short fails its checksum.          *)
Readable == file # Torn

(* The snapshot is read and the range from .. to agreed on.                 *)
Load(p) ==
    /\ pc[p] = "load" /\ Readable
    /\ \E to \in Blocks : \E from \in 1..to :
          LET start == IF file = NoFile THEN Created(from) ELSE Prepared(file, from)
          IN  /\ map' = [map EXCEPT ![p] = [start EXCEPT !.skipped = @ \union Gap(start, from)]]
              /\ job' = [job EXCEPT ![p] = Attempt(from, to, start.cursor, 0)]
    /\ base' = [base EXCEPT ![p] = file]
    /\ pc' = [pc EXCEPT ![p] = "sync"]
    /\ UNCHANGED <<touched, files, lock, saved, outcome, budget>>

(* The tip does not resolve, the file is torn or missing without --from,    *)
(* the range is empty, or preflight turns the provider down.                *)
Declined(p) ==
    /\ pc[p] = "load"
    /\ End(p, "error")
    /\ UNCHANGED <<touched, files, budget>>

-------------------------------------------------------------------------------
(* sync_one_chunk over lo .. hi, hi short of the chunk when the range was   *)
(* narrowed, and the snapshot if one is due.                                *)
Folded(m, lo, hi) ==
    [cursor  |-> hi,
     read    |-> [a \in Addr |-> IF \E n \in lo..hi : a \in touched[n] THEN hi
                                 ELSE m.read[a]],
     skipped |-> m.skipped \ lo..hi]

ApplyChunk(p) ==
    /\ pc[p] = "sync" /\ job[p].lo <= job[p].to
    /\ \E hi \in job[p].lo..Smaller(job[p].lo + Chunk - 1, job[p].to), due \in BOOLEAN :
          /\ map' = [map EXCEPT ![p] = Folded(@, job[p].lo, hi)]
          /\ job' = [job EXCEPT ![p] = Attempt(hi + 1, @.to, @.before, @.stalled)]
          /\ pc' = [pc EXCEPT ![p] = IF due THEN "write" ELSE "sync"]
    /\ UNCHANGED <<touched, files, lock, base, saved, outcome, budget>>

(* Mutant: a range that went through ends the command as it is.             *)
RangeDoneUnsaved(p) ==
    /\ pc[p] = "sync" /\ job[p].lo > job[p].to
    /\ End(p, "ok")
    /\ UNCHANGED <<touched, files, budget>>

(* sync_once returned: the map is saved before the command ends.            *)
RangeDone(p) ==
    /\ pc[p] = "sync" /\ job[p].lo > job[p].to
    /\ job' = [job EXCEPT ![p].after = "done"]
    /\ pc' = [pc EXCEPT ![p] = "write"]
    /\ UNCHANGED <<touched, files, lock, map, base, saved, outcome, budget>>

(* A read of the chunk fails: save_failed_progress, then a retry.           *)
AttemptFails(p) ==
    /\ pc[p] = "sync" /\ job[p].lo <= job[p].to
    /\ job' = [job EXCEPT ![p].after = "retry"]
    /\ pc' = [pc EXCEPT ![p] = "write"]
    /\ UNCHANGED <<touched, files, lock, map, base, saved, outcome, budget>>

-------------------------------------------------------------------------------
(* write_snapshot_atomically.  The temporary file is this process's alone   *)
(* as long as it holds the lock, so it is known by pc.                      *)
WriteTmp(p) ==
    /\ pc[p] = "write"
    /\ pc' = [pc EXCEPT ![p] = "rename"]
    /\ UNCHANGED <<touched, files, lock, map, job, base, saved, outcome, budget>>

(* The rename puts the new file in place at once; the name reaches the disk *)
(* later, the rows have been synced before.                                 *)
RenameUnsynced(p) ==     \* mutant: without sync_all
    /\ pc[p] = "rename"
    /\ file' = map[p] /\ synced' = FALSE /\ UNCHANGED disk
    /\ IF job[p].after = "done" THEN End(p, "ok")
       ELSE /\ base' = [base EXCEPT ![p] = map[p]] /\ saved' = [saved EXCEPT ![p] = TRUE]
            /\ pc' = [pc EXCEPT ![p] = job[p].after]
            /\ UNCHANGED <<lock, map, job, outcome>>
    /\ UNCHANGED <<touched, budget>>

SaveSucceeds(p) ==
    /\ pc[p] = "rename"
    /\ file' = map[p] /\ synced' = TRUE /\ UNCHANGED disk
    /\ IF job[p].after = "done" THEN End(p, "ok")
       ELSE /\ base' = [base EXCEPT ![p] = map[p]] /\ saved' = [saved EXCEPT ![p] = TRUE]
            /\ pc' = [pc EXCEPT ![p] = job[p].after]
            /\ UNCHANGED <<lock, map, job, outcome>>
    /\ UNCHANGED <<touched, budget>>

(* A save fails.  At a chunk boundary that fails the attempt, after a       *)
(* failed attempt it is only logged, at the end it fails the command.       *)
SaveFails(p) ==
    /\ pc[p] \in {"write", "rename"}
    /\ IF job[p].after = "done" THEN End(p, "error")
       ELSE /\ saved' = [saved EXCEPT ![p] = FALSE]
            /\ IF job[p].after = "sync"
                 THEN /\ job' = [job EXCEPT ![p].after = "retry"]
                      /\ pc' = [pc EXCEPT ![p] = "write"]
                 ELSE pc' = [pc EXCEPT ![p] = "retry"] /\ UNCHANGED job
            /\ UNCHANGED <<lock, map, base, outcome>>
    /\ UNCHANGED <<touched, files, budget>>

(* Mutant: every retry starts with a clean slate. *)
RetryForgiving(p) ==
    /\ pc[p] = "retry" /\ map[p].cursor < job[p].to
    /\ job' = [job EXCEPT ![p] =
                   Attempt(map[p].cursor + 1, @.to, map[p].cursor, @.stalled)]
    /\ pc' = [pc EXCEPT ![p] = "sync"]
    /\ UNCHANGED <<touched, files, lock, map, base, saved, outcome, budget>>

(* record_retry_progress: only attempts that advanced nothing count.        *)
Stalled(p) == IF map[p].cursor > job[p].before THEN 0 ELSE job[p].stalled + 1

(* wait_to_retry and what follows it in run_sync: the command gives up, has *)
(* nothing left to do, or goes on after its cursor.                         *)
Retry(p) ==
    /\ pc[p] = "retry" /\ Stalled(p) <= Retries /\ map[p].cursor < job[p].to
    /\ job' = [job EXCEPT ![p] =
                   Attempt(map[p].cursor + 1, @.to, map[p].cursor, Stalled(p))]
    /\ pc' = [pc EXCEPT ![p] = "sync"]
    /\ UNCHANGED <<touched, files, lock, map, base, saved, outcome, budget>>

RetryEnds(p) ==
    /\ pc[p] = "retry"
    /\ \/ Stalled(p) > Retries /\ End(p, "error")
       \/ Stalled(p) <= Retries /\ map[p].cursor >= job[p].to /\ End(p, "ok")
    /\ UNCHANGED <<touched, files, budget>>

-------------------------------------------------------------------------------
(* Environment.  A process is killed; the machine loses power, and the last *)
(* rename may not have survived; the file system catches up.                *)
Crash(p) ==
    /\ pc[p] # "idle"
    /\ End(p, "error")
    /\ UNCHANGED <<touched, files, budget>>

OnDisk == IF synced THEN file ELSE Torn

PowerFails ==
    /\ outages < MaxOutages /\ outages' = outages + 1
    /\ file' \in {disk, OnDisk} /\ disk' = file' /\ synced' = TRUE
    /\ lock' = NoProc
    /\ pc' = [p \in Proc |-> "idle"]
    /\ map' = [p \in Proc |-> EmptyMap] /\ job' = [p \in Proc |-> NoJob]
    /\ base' = [p \in Proc |-> NoFile]
    /\ saved' = [p \in Proc |-> TRUE]
    /\ outcome' = "error"
    /\ UNCHANGED <<touched, commands>>

NameReachesDisk ==
    /\ outages < MaxOutages /\ disk # OnDisk /\ disk' = OnDisk
    /\ UNCHANGED <<touched, file, synced, lock, procVars, budget>>

-------------------------------------------------------------------------------
Step(p) ==
    \/ Load(p) \/ Declined(p)
    \/ ApplyChunk(p) \/ RangeDone(p) \/ AttemptFails(p)
    \/ WriteTmp(p) \/ SaveSucceeds(p) \/ SaveFails(p)
    \/ Retry(p) \/ RetryEnds(p)

Next ==
    \/ \E p \in Proc : Acquire(p) \/ Step(p) \/ Crash(p)
    \/ PowerFails \/ NameReachesDisk

Spec == Init /\ [][Next]_vars

(* A command that was started is run.  Its calls may fail for ever.         *)
FairSpec == Spec /\ \A p \in Proc : WF_vars(Step(p))

-------------------------------------------------------------------------------
(* Properties.                                                              *)

(* No block up to the cursor is missed: an address it moved was read there  *)
(* or later, but for the blocks no range ever included.                     *)
NothingMissed(m) ==
    \A n \in 1..m.cursor : n \notin m.skipped =>
        \A a \in touched[n] : m.read[a] >= n

(* Whatever fails, is killed or loses power, and whichever ranges are       *)
(* replayed, the snapshot is whole and has missed no block: going on after  *)
(* its cursor, as every command does by default, is safe.                   *)
SnapshotResumable == file # NoFile => file # Torn /\ NothingMissed(file)

(* A save replaces nothing but what the same process loaded or saved last:  *)
(* no command discards the blocks another one has synced.                   *)
NoWorkLost == \A p \in Proc : pc[p] \notin {"idle", "load"} => base[p] = file

EndsOk(p) == pc[p] # "idle" /\ pc'[p] = "idle" /\ outcome' = "ok"

(* A command that ends well has left the end of its range on disk, unless   *)
(* the last save it tried failed: the one way to end well without a save is *)
(* to have had the last chunk's snapshot and its repetition both fail.      *)
OkIsSaved ==
    [][\A p \in Proc : EndsOk(p) =>
          (file' # NoFile /\ file'.cursor = job[p].to) \/ ~saved[p]]_vars

(* The snapshot a command ends well with holds no balance of an earlier     *)
(* block than the one it replaces.                                          *)
ReplayRestoresNothing ==
    [][\A p \in Proc : EndsOk(p) /\ file # NoFile =>
          \A a \in Addr : file'.read[a] >= file.read[a]]_vars

(* Every command ends, however often its calls fail: attempts that advance  *)
(* shorten what is left, attempts that do not are counted.                  *)
CommandEnds == \A p \in Proc : pc[p] # "idle" ~> pc[p] = "idle"
===============================================================================
