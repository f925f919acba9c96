--------------------------- MODULE SyncCommandProofs ---------------------------
(***************************************************************************)
(* One snapshot and any number of `sync` commands: whatever fails, is       *)
(* killed or loses power, the snapshot is whole and misses no block, and no *)
(* command discards what another has synced.                                *)
(***************************************************************************)
EXTENDS SyncCommand, TLAPS

Working(q) == pc[q] \notin {"idle", "load"}

(* A process that runs holds the lock, so there is one at most.             *)
Held == \A q \in Proc : pc[q] # "idle" => lock = q

(* A snapshot that a command may go on from.                                *)
Whole(m) == m # NoFile => m # Torn /\ NothingMissed(m)

(* What may be the snapshot after a power failure is as good as what is     *)
(* there now: the rows were synced before the file got its name.            *)
FilesWhole == synced = TRUE /\ Whole(file) /\ Whole(disk)

(* The range a command works on starts behind its map's cursor, and whatever *)
(* lies between is known to be left out; once the range is done, the cursor *)
(* is at its end.                                                           *)
RangeFits(m, j) ==
    /\ j.to \in Blocks /\ j.lo <= j.to + 1 /\ m.cursor < j.lo
    /\ \A n \in Blocks : m.cursor < n /\ n < j.lo => n \in m.skipped
    /\ j.lo > j.to => m.cursor = j.to
    /\ j.after = "done" => j.lo > j.to

JobFits(q) ==
    Working(q) =>
        /\ base[q] = file /\ NothingMissed(map[q]) /\ RangeFits(map[q], job[q])
        /\ pc[q] = "retry" /\ saved[q] => base[q] = map[q]

SyncInv == TypeOK /\ Held /\ FilesWhole /\ \A q \in Proc : JobFits(q)

-------------------------------------------------------------------------------
(* Maps. *)

(* Folding the chunk after the cursor, or after blocks that are left out on *)
(* purpose, misses nothing.                                                 *)
LEMMA FoldedFits ==
    ASSUME touched \in [Blocks -> SUBSET Addr], NEW m \in Map, NothingMissed(m),
           NEW lo \in Nat, m.cursor < lo,
           \A n \in Blocks : m.cursor < n /\ n < lo => n \in m.skipped,
           NEW hi \in lo..MaxBlock
    PROVE  /\ Folded(m, lo, hi) \in Map
           /\ Folded(m, lo, hi).cursor = hi
           /\ NothingMissed(Folded(m, lo, hi))
  <1> DEFINE f == Folded(m, lo, hi)
  <1>1. /\ m.cursor \in 0..MaxBlock /\ m.read \in [Addr -> 0..MaxBlock]
        /\ m.skipped \in SUBSET Blocks
        /\ MaxBlock \in Nat /\ hi \in 0..MaxBlock
    BY SyncCommandAssumption DEF Map
  <1>2. f.cursor = hi /\ f.skipped = m.skipped \ lo..hi
    BY DEF Folded
  <1>3. f.read = [a \in Addr |-> IF \E n \in lo..hi : a \in touched[n] THEN hi
                                 ELSE m.read[a]]
    BY DEF Folded
  <1>4. f \in Map
    BY <1>1 DEF Folded, Map
  <1>5. ASSUME NEW n \in 1..hi, n \notin f.skipped, NEW a \in touched[n]
        PROVE  f.read[a] >= n
    <2>1. n \in Blocks /\ a \in Addr
      BY <1>1 DEF Blocks
    <2>2. CASE \E k \in lo..hi : a \in touched[k]
      <3>1. f.read[a] = hi
        BY <1>3, <2>1, <2>2
      <3>2. QED
        BY <3>1, <1>1
    <2>3. CASE ~ \E k \in lo..hi : a \in touched[k]
      <3>1. f.read[a] = m.read[a]
        BY <1>3, <2>1, <2>3
      <3>2. n < lo /\ n \notin m.skipped
        BY <1>5, <1>1, <1>2, <2>3
      <3>3. n \in 1..m.cursor
        BY <3>2, <2>1, <1>1
      <3>4. m.read[a] >= n
        BY <3>2, <3>3, <1>5 DEF NothingMissed
      <3>5. QED
        BY <3>1, <3>4
    <2>4. QED
      BY <2>2, <2>3
  <1>6. NothingMissed(f)
    <2> HIDE DEF f
    <2>1. QED
      BY <1>2, <1>5 DEF NothingMissed
  <1>7. QED
    BY <1>2, <1>4, <1>6

(* What a command starts from, for a range from .. to.                      *)
Start(from) ==
    LET start == IF file = NoFile THEN Created(from) ELSE Prepared(file, from)
    IN  [start EXCEPT !.skipped = @ \union Gap(start, from)]

(* It misses nothing either: a replay goes back to before its range, a new  *)
(* map and a range past the cursor name the blocks they leave out.          *)
LEMMA StartFits ==
    ASSUME TypeOK, FilesWhole, NEW from \in Blocks
    PROVE  /\ Start(from) \in Map /\ NothingMissed(Start(from))
           /\ Start(from).cursor < from
           /\ \A n \in Blocks : Start(from).cursor < n /\ n < from => n \in Start(from).skipped
  <1> DEFINE start == IF file = NoFile THEN Created(from) ELSE Prepared(file, from)
             s == Start(from)
  <1>1. MaxBlock \in Nat /\ from \in 1..MaxBlock
    BY SyncCommandAssumption DEF Blocks
  <1>2. start \in Map /\ NothingMissed(start) /\ start.cursor < from
    <2>1. CASE file = NoFile
      <3>1. Created(from) = [cursor |-> from - 1, read |-> [a \in Addr |-> 0],
                             skipped |-> 1..(from - 1)]
        BY DEF Created, EmptyMap
      <3>2. start = Created(from)
        BY <2>1
      <3>3. Created(from) \in Map
        BY <3>1, <1>1 DEF Map, Blocks
      <3>4. NothingMissed(Created(from)) /\ Created(from).cursor < from
        BY <3>1, <1>1 DEF NothingMissed
      <3>5. QED
        BY <3>2, <3>3, <3>4
    <2>2. CASE file # NoFile
      <3>1. file \in Map /\ NothingMissed(file) /\ start = Prepared(file, from)
        BY <2>2 DEF TypeOK, FilesWhole, Whole
      <3>2. file.cursor \in 0..MaxBlock
        BY <3>1 DEF Map
      <3>3. CASE from <= file.cursor
        <4>1. start = [file EXCEPT !.cursor = from - 1]
          BY <3>1, <3>3 DEF Prepared
        <4>2. /\ start.cursor = from - 1 /\ start.read = file.read
              /\ start.skipped = file.skipped /\ start \in Map
          BY <3>1, <4>1, <1>1 DEF Map
        <4>3. NothingMissed(start)
          <5> HIDE DEF start
          <5>1. QED
            BY <3>1, <3>2, <3>3, <4>2, <1>1 DEF NothingMissed
        <4>4. QED
          BY <4>2, <4>3, <1>1
      <3>4. CASE ~ from <= file.cursor
        <4>1. start = file
          BY <3>1, <3>4 DEF Prepared
        <4>2. QED
          BY <4>1, <3>1, <3>2, <3>4, <1>1
      <3>5. QED
        BY <3>3, <3>4
    <2>3. QED
      BY <2>1, <2>2
  <1>3. s = [start EXCEPT !.skipped = @ \union Gap(start, from)]
    BY DEF Start
  <1> HIDE DEF start, s
  <1>4. Gap(start, from) = {n \in Blocks : start.cursor < n /\ n < from}
    BY DEF Gap
  <1>5. /\ s \in Map /\ s.cursor = start.cursor /\ s.read = start.read
        /\ s.skipped = start.skipped \union Gap(start, from)
    BY <1>2, <1>3, <1>4 DEF Map
  <1>6. NothingMissed(s)
    BY <1>2, <1>5 DEF NothingMissed
  <1>7. QED
    BY <1>2, <1>4, <1>5, <1>6 DEF s

-------------------------------------------------------------------------------
(* Steps. *)

(* No other process runs beside one that does.                              *)
LEMMA Alone ==
    ASSUME SyncInv, NEW p \in Proc, pc[p] # "idle"
    PROVE  lock = p /\ \A q \in Proc \ {p} : pc[q] = "idle"
  BY DEF SyncInv, Held

(* A step of a process that goes on leaves the others idle: it is enough    *)
(* that its own range and map still fit.                                    *)
LEMMA GoesOn ==
    ASSUME SyncInv, NEW p \in Proc, pc[p] # "idle",
           NEW s, pc' = [pc EXCEPT ![p] = s], lock' = lock,
           TypeOK', FilesWhole', JobFits(p)'
    PROVE  SyncInv'
  <1>1. \A q \in Proc \ {p} : pc'[q] = "idle"
    BY Alone DEF SyncInv, TypeOK
  <1>2. Held'
    BY <1>1, Alone DEF Held
  <1>3. ASSUME NEW q \in Proc
        PROVE  JobFits(q)'
    BY <1>1 DEF JobFits, Working
  <1>4. QED
    BY <1>2, <1>3 DEF SyncInv

(* Once the process that runs has ended, nobody runs.                       *)
LEMMA EndKeeps ==
    ASSUME SyncInv, NEW p \in Proc, pc[p] # "idle",
           NEW how \in {"none", "ok", "error"}, End(p, how),
           FilesWhole', {file', disk'} \subseteq Map \union {NoFile, Torn},
           UNCHANGED <<touched, budget>>
    PROVE  SyncInv'
  <1>1. TypeOK
    BY DEF SyncInv
  <1>2. EmptyMap \in Map /\ NoJob \in Job
    BY SyncCommandAssumption DEF EmptyMap, NoJob, Attempt, Map, Job, Blocks
  <1>3. \A q \in Proc : pc'[q] = "idle"
    BY <1>1, Alone DEF End, TypeOK
  <1>4. /\ pc' \in [Proc -> {"idle", "load", "sync", "write", "rename", "retry"}]
        /\ map' \in [Proc -> Map] /\ job' \in [Proc -> Job] /\ saved' \in [Proc -> BOOLEAN]
        /\ outcome' \in {"none", "ok", "error"}
        /\ lock' \in Proc \union {NoProc}
    BY <1>1, <1>2 DEF End, TypeOK
  <1>5. base' \in [Proc -> Map \union {NoFile}]
    BY <1>1 DEF End, TypeOK
  <1>6. synced' \in BOOLEAN
    BY DEF FilesWhole
  <1>7. TypeOK'
    BY <1>1, <1>4, <1>5, <1>6 DEF TypeOK, budget
  <1>8. Held' /\ \A q \in Proc : JobFits(q)'
    BY <1>3 DEF Held, JobFits, Working
  <1>9. QED
    BY <1>7, <1>8 DEF SyncInv

(* Taking the lock.                                                         *)
LEMMA AcquireKeeps ==
    ASSUME SyncInv, NEW p \in Proc, Acquire(p)
    PROVE  SyncInv'
  <1>1. TypeOK /\ lock = NoProc /\ NoProc \notin Proc
    BY SyncCommandAssumption DEF SyncInv, Acquire
  <1>2. \A q \in Proc : pc[q] = "idle"
    BY <1>1 DEF SyncInv, Held
  <1>3. /\ pc' = [pc EXCEPT ![p] = "load"] /\ lock' = p
        /\ commands' = commands + 1 /\ commands < MaxCommands /\ outcome' = "none"
        /\ UNCHANGED <<touched, file, disk, synced, map, job, base, saved, outages>>
    BY DEF Acquire, files
  <1>4. commands' \in 0..MaxCommands
    BY <1>1, <1>3, SyncCommandAssumption DEF TypeOK
  <1>5. TypeOK'
    BY <1>1, <1>3, <1>4 DEF TypeOK
  <1>6. \A q \in Proc : pc'[q] = IF q = p THEN "load" ELSE "idle"
    BY <1>1, <1>2, <1>3 DEF TypeOK
  <1>7. Held' /\ \A q \in Proc : JobFits(q)'
    BY <1>3, <1>6 DEF Held, JobFits, Working
  <1>8. FilesWhole'
    BY <1>3 DEF SyncInv, FilesWhole, Whole, NothingMissed
  <1>9. QED
    BY <1>5, <1>7, <1>8 DEF SyncInv

(* What the files keep of when a step leaves them alone.                    *)
LEMMA FilesKept ==
    ASSUME SyncInv, UNCHANGED <<touched, files>>
    PROVE  FilesWhole' /\ {file', disk'} \subseteq Map \union {NoFile, Torn}
  BY DEF SyncInv, TypeOK, FilesWhole, Whole, NothingMissed, files

(* Reading the snapshot and choosing a range.                               *)
LEMMA LoadKeeps ==
    ASSUME SyncInv, NEW p \in Proc, Load(p)
    PROVE  SyncInv'
  <1>1. TypeOK /\ FilesWhole /\ pc[p] = "load" /\ MaxBlock \in Nat
    BY SyncCommandAssumption DEF SyncInv, Load
  <1>2. PICK to \in Blocks, from \in Blocks :
          /\ from <= to
          /\ map' = [map EXCEPT ![p] = Start(from)]
          /\ \E n \in Nat : job' = [job EXCEPT ![p] = Attempt(from, to, n, 0)]
    <2>0. PICK to \in Blocks : \E from \in 1..to :
            LET start == IF file = NoFile THEN Created(from) ELSE Prepared(file, from)
            IN  /\ map' = [map EXCEPT ![p] = [start EXCEPT !.skipped = @ \union Gap(start, from)]]
                /\ job' = [job EXCEPT ![p] = Attempt(from, to, start.cursor, 0)]
      BY DEF Load
    <2>1. PICK from \in 1..to :
            LET start == IF file = NoFile THEN Created(from) ELSE Prepared(file, from)
            IN  /\ map' = [map EXCEPT ![p] = [start EXCEPT !.skipped = @ \union Gap(start, from)]]
                /\ job' = [job EXCEPT ![p] = Attempt(from, to, start.cursor, 0)]
      BY <2>0
    <2> DEFINE start == IF file = NoFile THEN Created(from) ELSE Prepared(file, from)
    <2>2. from \in Blocks /\ from <= to
      BY <1>1, <2>1 DEF Blocks
    <2>3. map' = [map EXCEPT ![p] = Start(from)]
      BY <2>1 DEF Start
    <2>4. start.cursor \in Nat
      <3>1. CASE file = NoFile
        BY <2>2, <3>1 DEF Created, Blocks
      <3>2. CASE file # NoFile
        <4>1. file \in Map
          BY <1>1, <3>2 DEF TypeOK, FilesWhole, Whole
        <4>2. start = IF from <= file.cursor THEN [file EXCEPT !.cursor = from - 1] ELSE file
          BY <3>2 DEF Prepared
        <4>3. QED
          BY <2>2, <4>1, <4>2 DEF Map, Blocks
      <3>3. QED
        BY <3>1, <3>2
    <2> HIDE DEF start
    <2>5. job' = [job EXCEPT ![p] = Attempt(from, to, start.cursor, 0)]
      BY <2>1 DEF start
    <2>6. QED
      BY <2>2, <2>3, <2>4, <2>5
  <1>3. PICK n \in Nat : job' = [job EXCEPT ![p] = Attempt(from, to, n, 0)]
    BY <1>2
  <1>4. from \in 1..MaxBlock /\ to \in 1..MaxBlock /\ from <= to
    BY <1>2 DEF Blocks
  <1>5. /\ Start(from) \in Map /\ NothingMissed(Start(from)) /\ Start(from).cursor < from
        /\ \A k \in Blocks : Start(from).cursor < k /\ k < from => k \in Start(from).skipped
    BY <1>1, <1>4, StartFits
  <1>6. /\ base' = [base EXCEPT ![p] = file] /\ pc' = [pc EXCEPT ![p] = "sync"]
        /\ UNCHANGED <<touched, files, lock, saved, outcome, budget>>
    BY DEF Load
  <1>7. file \in Map \union {NoFile}
    BY <1>1 DEF TypeOK, FilesWhole, Whole
  <1>8. FilesWhole' /\ {file', disk'} \subseteq Map \union {NoFile, Torn}
    BY <1>6, FilesKept
  <1>9. map'[p] = Start(from)
        /\ job'[p] = Attempt(from, to, n, 0)
        /\ pc'[p] = "sync" /\ base'[p] = file /\ file' = file
    BY <1>1, <1>2, <1>3, <1>6 DEF TypeOK, files
  <1> HIDE DEF Start
  <1>10. job'[p] \in Job
    BY <1>2, <1>4, <1>9 DEF Job, Blocks, Attempt
  <1>11. map' \in [Proc -> Map] /\ job' \in [Proc -> Job]
    BY <1>1, <1>2, <1>3, <1>5, <1>9, <1>10 DEF TypeOK
  <1>12. base' \in [Proc -> Map \union {NoFile}]
    BY <1>1, <1>6, <1>7 DEF TypeOK
  <1>13. TypeOK'
    BY <1>1, <1>6, <1>8, <1>11, <1>12 DEF TypeOK, files, budget
  <1>14. RangeFits(map'[p], job'[p])
    BY <1>1, <1>2, <1>4, <1>5, <1>9 DEF RangeFits, Blocks, Attempt
  <1>15. NothingMissed(map[p])'
    BY <1>5, <1>6, <1>9 DEF NothingMissed
  <1>16. JobFits(p)'
    BY <1>9, <1>14, <1>15 DEF JobFits, Working, RangeFits
  <1>17. QED
    BY <1>1, <1>6, <1>8, <1>13, <1>16, GoesOn

(* Folding a chunk.                                                         *)
LEMMA ApplyChunkKeeps ==
    ASSUME SyncInv, NEW p \in Proc, ApplyChunk(p)
    PROVE  SyncInv'
  <1>1. /\ TypeOK /\ FilesWhole /\ pc[p] = "sync" /\ job[p].lo <= job[p].to
        /\ MaxBlock \in Nat /\ Chunk \in Nat \ {0}
    BY SyncCommandAssumption DEF SyncInv, ApplyChunk
  <1>2. map[p] \in Map /\ job[p] \in Job
    BY <1>1 DEF TypeOK
  <1>3. /\ base[p] = file /\ NothingMissed(map[p]) /\ RangeFits(map[p], job[p])
    BY <1>1 DEF SyncInv, JobFits, Working
  <1>4. PICK hi \in job[p].lo..Smaller(job[p].lo + Chunk - 1, job[p].to), due \in BOOLEAN :
          /\ map' = [map EXCEPT ![p] = Folded(@, job[p].lo, hi)]
          /\ job' = [job EXCEPT ![p] = Attempt(hi + 1, @.to, @.before, @.stalled)]
          /\ pc' = [pc EXCEPT ![p] = IF due THEN "write" ELSE "sync"]
    BY DEF ApplyChunk
  <1>5. UNCHANGED <<touched, files, lock, base, saved, outcome, budget>>
    BY DEF ApplyChunk
  <1>6. /\ job[p].lo \in Nat /\ job[p].to \in 1..MaxBlock /\ map[p].cursor < job[p].lo
        /\ \A n \in Blocks : map[p].cursor < n /\ n < job[p].lo => n \in map[p].skipped
    BY <1>2, <1>3 DEF RangeFits, Job, Blocks
  <1>7. hi \in job[p].lo..MaxBlock /\ hi \in Nat /\ hi <= job[p].to
    BY <1>1, <1>4, <1>6 DEF Smaller
  <1>8. /\ Folded(map[p], job[p].lo, hi) \in Map
        /\ Folded(map[p], job[p].lo, hi).cursor = hi
        /\ NothingMissed(Folded(map[p], job[p].lo, hi))
    BY <1>1, <1>2, <1>3, <1>6, <1>7, FoldedFits DEF TypeOK
  <1>9. /\ map'[p] = Folded(map[p], job[p].lo, hi)
        /\ map' \in [Proc -> Map]
    BY <1>1, <1>4, <1>8 DEF TypeOK
  <1> DEFINE j == Attempt(hi + 1, job[p].to, job[p].before, job[p].stalled)
  <1>10. j \in Job /\ j.lo = hi + 1 /\ j.to = job[p].to /\ j.after = "sync"
    BY <1>2, <1>7 DEF Job, Attempt
  <1>11. job' = [job EXCEPT ![p] = j]
    BY <1>4
  <1> HIDE DEF j
  <1>12. job' \in [Proc -> Job] /\ job'[p] = j
    BY <1>1, <1>10, <1>11 DEF TypeOK
  <1>13. pc'[p] \in {"write", "sync"} /\ base'[p] = base[p] /\ file' = file
    BY <1>1, <1>4, <1>5 DEF TypeOK, files
  <1>14. FilesWhole' /\ {file', disk'} \subseteq Map \union {NoFile, Torn}
    BY <1>5, FilesKept
  <1>15. TypeOK'
    BY <1>1, <1>4, <1>5, <1>9, <1>12, <1>14 DEF TypeOK, files, budget
  <1>16. RangeFits(map'[p], job'[p])
    BY <1>3, <1>6, <1>7, <1>8, <1>9, <1>10, <1>12 DEF RangeFits, Blocks
  <1>17. NothingMissed(map[p])'
    BY <1>5, <1>8, <1>9 DEF NothingMissed
  <1>18. JobFits(p)'
    BY <1>3, <1>13, <1>16, <1>17 DEF JobFits, Working, RangeFits
  <1>19. QED
    BY <1>1, <1>4, <1>5, <1>14, <1>15, <1>18, GoesOn

(* The steps that change neither map nor files: only how the process goes   *)
(* on.                                                                      *)
LEMMA TurnKeeps ==
    ASSUME SyncInv, NEW p \in Proc, Working(p),
           NEW s \in {"sync", "write", "rename", "retry"}, pc' = [pc EXCEPT ![p] = s],
           NEW j \in Job, job' = [job EXCEPT ![p] = j], RangeFits(map[p], j),
           NEW v \in BOOLEAN, saved' = [saved EXCEPT ![p] = v],
           s = "retry" => ~v,
           UNCHANGED <<touched, files, lock, map, base, outcome, budget>>
    PROVE  SyncInv'
  <1>1. TypeOK /\ pc[p] # "idle"
    BY DEF SyncInv, Working
  <1>2. base[p] = file /\ NothingMissed(map[p])
    BY DEF SyncInv, JobFits
  <1>3. FilesWhole' /\ {file', disk'} \subseteq Map \union {NoFile, Torn}
    BY FilesKept
  <1>4. pc'[p] = s /\ job'[p] = j /\ saved'[p] = v
    BY <1>1 DEF TypeOK
  <1>5. TypeOK'
    BY <1>1, <1>3 DEF TypeOK, files, budget
  <1>6. NothingMissed(map[p])'
    BY <1>2 DEF NothingMissed
  <1>7. JobFits(p)'
    BY <1>2, <1>4, <1>6 DEF JobFits, Working, RangeFits, files
  <1>8. QED
    BY <1>1, <1>3, <1>5, <1>7, GoesOn

(* A saved variable that is left alone.                                     *)
LEMMA SavedSame ==
    ASSUME TypeOK, NEW p \in Proc
    PROVE  saved[p] \in BOOLEAN /\ [saved EXCEPT ![p] = saved[p]] = saved
           /\ job[p] \in Job /\ [job EXCEPT ![p] = job[p]] = job
  BY DEF TypeOK

LEMMA RangeDoneKeeps ==
    ASSUME SyncInv, NEW p \in Proc, RangeDone(p)
    PROVE  SyncInv'
  <1>1. TypeOK /\ pc[p] = "sync" /\ job[p].lo > job[p].to /\ Working(p)
    BY DEF SyncInv, RangeDone, Working
  <1>2. job[p] \in Job /\ RangeFits(map[p], job[p])
    BY <1>1 DEF SyncInv, TypeOK, JobFits
  <1> DEFINE j == [job[p] EXCEPT !.after = "done"]
  <1>3. job' = [job EXCEPT ![p] = j] /\ pc' = [pc EXCEPT ![p] = "write"]
        /\ UNCHANGED <<touched, files, lock, map, base, saved, outcome, budget>>
    BY DEF RangeDone
  <1>4. j \in Job /\ j.lo = job[p].lo /\ j.to = job[p].to /\ j.after = "done"
    BY <1>2 DEF Job
  <1> HIDE DEF j
  <1>5. RangeFits(map[p], j)
    BY <1>1, <1>2, <1>4 DEF RangeFits
  <1>6. QED
    BY <1>1, <1>3, <1>4, <1>5, SavedSame, TurnKeeps

LEMMA AttemptFailsKeeps ==
    ASSUME SyncInv, NEW p \in Proc, AttemptFails(p)
    PROVE  SyncInv'
  <1>1. TypeOK /\ pc[p] = "sync" /\ Working(p)
    BY DEF SyncInv, AttemptFails, Working
  <1>2. job[p] \in Job /\ RangeFits(map[p], job[p])
    BY <1>1 DEF SyncInv, TypeOK, JobFits
  <1> DEFINE j == [job[p] EXCEPT !.after = "retry"]
  <1>3. job' = [job EXCEPT ![p] = j] /\ pc' = [pc EXCEPT ![p] = "write"]
        /\ UNCHANGED <<touched, files, lock, map, base, saved, outcome, budget>>
    BY DEF AttemptFails
  <1>4. j \in Job /\ j.lo = job[p].lo /\ j.to = job[p].to /\ j.after = "retry"
    BY <1>2 DEF Job
  <1> HIDE DEF j
  <1>5. RangeFits(map[p], j)
    BY <1>2, <1>4 DEF RangeFits
  <1>6. QED
    BY <1>1, <1>3, <1>4, <1>5, SavedSame, TurnKeeps

LEMMA WriteTmpKeeps ==
    ASSUME SyncInv, NEW p \in Proc, WriteTmp(p)
    PROVE  SyncInv'
  <1>1. TypeOK /\ pc[p] = "write" /\ Working(p)
    BY DEF SyncInv, WriteTmp, Working
  <1>2. job[p] \in Job /\ RangeFits(map[p], job[p])
    BY <1>1 DEF SyncInv, TypeOK, JobFits
  <1>3. pc' = [pc EXCEPT ![p] = "rename"]
        /\ UNCHANGED <<touched, files, lock, map, job, base, saved, outcome, budget>>
    BY DEF WriteTmp
  <1>4. QED
    BY <1>1, <1>2, <1>3, SavedSame, TurnKeeps

(* A save that went through: file, base and map are one.                    *)
LEMMA SaveSucceedsKeeps ==
    ASSUME SyncInv, NEW p \in Proc, SaveSucceeds(p)
    PROVE  SyncInv'
  <1>1. TypeOK /\ FilesWhole /\ pc[p] = "rename" /\ Working(p)
    BY DEF SyncInv, SaveSucceeds, Working
  <1>2. /\ job[p] \in Job /\ map[p] \in Map
        /\ RangeFits(map[p], job[p]) /\ NothingMissed(map[p])
    BY <1>1 DEF SyncInv, TypeOK, JobFits
  <1>3. file' = map[p] /\ synced' = TRUE /\ disk' = disk /\ UNCHANGED <<touched, budget>>
    BY DEF SaveSucceeds
  <1>4. map[p] # Torn
    BY <1>2, NoMapAssumption
  <1>5. FilesWhole' /\ {file', disk'} \subseteq Map \union {NoFile, Torn}
    BY <1>1, <1>2, <1>3, <1>4 DEF FilesWhole, Whole, NothingMissed, TypeOK
  <1>6. CASE job[p].after = "done"
    <2>1. End(p, "ok")
      BY <1>6 DEF SaveSucceeds
    <2>2. QED
      BY <1>1, <1>3, <1>5, <2>1, EndKeeps
  <1>7. CASE job[p].after # "done"
    <2>1. /\ base' = [base EXCEPT ![p] = map[p]] /\ saved' = [saved EXCEPT ![p] = TRUE]
          /\ pc' = [pc EXCEPT ![p] = job[p].after]
          /\ UNCHANGED <<lock, map, job, outcome>>
      BY <1>7 DEF SaveSucceeds
    <2>2. job[p].after \in {"sync", "retry"}
      BY <1>2, <1>7 DEF Job, Attempt
    <2>3. TypeOK'
      BY <1>1, <1>2, <1>3, <1>5, <2>1, <2>2 DEF TypeOK, budget
    <2>4. base'[p] = map[p] /\ pc'[p] # "idle"
      BY <1>1, <2>1, <2>2 DEF TypeOK
    <2>5. NothingMissed(map[p])'
      BY <1>2, <1>3, <2>1 DEF NothingMissed
    <2>6. JobFits(p)'
      BY <1>2, <1>3, <2>1, <2>4, <2>5 DEF JobFits, RangeFits
    <2>7. QED
      BY <1>1, <1>5, <2>1, <2>3, <2>6, GoesOn
  <1>8. QED
    BY <1>6, <1>7

LEMMA SaveFailsKeeps ==
    ASSUME SyncInv, NEW p \in Proc, SaveFails(p)
    PROVE  SyncInv'
  <1>1. TypeOK /\ pc[p] \in {"write", "rename"} /\ Working(p)
    BY DEF SyncInv, SaveFails, Working
  <1>2. job[p] \in Job /\ RangeFits(map[p], job[p])
    BY <1>1 DEF SyncInv, TypeOK, JobFits
  <1>3. UNCHANGED <<touched, files, budget>>
    BY DEF SaveFails
  <1>4. FilesWhole' /\ {file', disk'} \subseteq Map \union {NoFile, Torn}
    BY <1>3, FilesKept
  <1>5. CASE job[p].after = "done"
    <2>1. End(p, "error")
      BY <1>5 DEF SaveFails
    <2>2. QED
      BY <1>1, <1>3, <1>4, <2>1, EndKeeps
  <1>6. CASE job[p].after = "sync"
    <2> DEFINE j == [job[p] EXCEPT !.after = "retry"]
    <2>1. /\ job' = [job EXCEPT ![p] = j] /\ pc' = [pc EXCEPT ![p] = "write"]
          /\ saved' = [saved EXCEPT ![p] = FALSE]
          /\ UNCHANGED <<lock, map, base, outcome>>
      BY <1>6 DEF SaveFails
    <2>2. j \in Job /\ j.lo = job[p].lo /\ j.to = job[p].to /\ j.after = "retry"
      BY <1>2 DEF Job
    <2> HIDE DEF j
    <2>3. RangeFits(map[p], j)
      BY <1>2, <2>2 DEF RangeFits
    <2>4. QED
      BY <1>1, <1>3, <2>1, <2>2, <2>3, TurnKeeps
  <1>7. CASE job[p].after \notin {"done", "sync"}
    <2>1. /\ pc' = [pc EXCEPT ![p] = "retry"] /\ saved' = [saved EXCEPT ![p] = FALSE]
          /\ UNCHANGED <<lock, map, job, base, outcome>>
      BY <1>7 DEF SaveFails
    <2>2. QED
      BY <1>1, <1>2, <1>3, <2>1, SavedSame, TurnKeeps
  <1>8. QED
    BY <1>5, <1>6, <1>7

(* The next attempt starts right after the cursor.                          *)
LEMMA RetryKeeps ==
    ASSUME SyncInv, NEW p \in Proc, Retry(p)
    PROVE  SyncInv'
  <1>1. TypeOK /\ pc[p] = "retry" /\ Working(p) /\ map[p].cursor < job[p].to
    BY DEF SyncInv, Retry, Working
  <1>2. job[p] \in Job /\ map[p] \in Map /\ RangeFits(map[p], job[p])
    BY <1>1 DEF SyncInv, TypeOK, JobFits
  <1>3. map[p].cursor \in Nat /\ Stalled(p) \in Nat
    BY <1>2, SyncCommandAssumption DEF Map, Job, Stalled
  <1> DEFINE j == Attempt(map[p].cursor + 1, job[p].to, map[p].cursor, Stalled(p))
  <1>4. job' = [job EXCEPT ![p] = j] /\ pc' = [pc EXCEPT ![p] = "sync"]
        /\ UNCHANGED <<touched, files, lock, map, base, saved, outcome, budget>>
    BY DEF Retry
  <1>5. j \in Job /\ j.lo = map[p].cursor + 1 /\ j.to = job[p].to /\ j.after = "sync"
    BY <1>2, <1>3 DEF Job, Attempt
  <1> HIDE DEF j
  <1>6. RangeFits(map[p], j)
    BY <1>1, <1>2, <1>3, <1>5 DEF RangeFits, Blocks
  <1>7. QED
    BY <1>1, <1>4, <1>5, <1>6, SavedSame, TurnKeeps

(* The ways a process ends with the files as they are.                      *)
LEMMA EndingKeeps ==
    ASSUME SyncInv, NEW p \in Proc, Declined(p) \/ RetryEnds(p) \/ Crash(p)
    PROVE  SyncInv'
  <1>1. pc[p] # "idle" /\ UNCHANGED <<touched, files, budget>>
        /\ \E how \in {"none", "ok", "error"} : End(p, how)
    BY DEF Declined, RetryEnds, Crash
  <1>2. QED
    BY <1>1, FilesKept, EndKeeps

(* After a power failure the snapshot is one that was whole.                *)
LEMMA PowerFailsKeeps ==
    ASSUME SyncInv, PowerFails
    PROVE  SyncInv'
  <1>1. TypeOK /\ FilesWhole
    BY DEF SyncInv
  <1>2. file' \in {disk, file} /\ disk' = file' /\ synced' = TRUE /\ touched' = touched
    BY <1>1 DEF PowerFails, OnDisk, FilesWhole
  <1>3. FilesWhole' /\ {file', disk'} \subseteq Map \union {NoFile, Torn}
    BY <1>1, <1>2 DEF FilesWhole, Whole, NothingMissed, TypeOK
  <1>4. EmptyMap \in Map /\ NoJob \in Job
    BY SyncCommandAssumption DEF EmptyMap, NoJob, Attempt, Map, Job, Blocks
  <1>5. /\ pc' = [q \in Proc |-> "idle"] /\ map' = [q \in Proc |-> EmptyMap]
        /\ job' = [q \in Proc |-> NoJob] /\ base' = [q \in Proc |-> NoFile]
        /\ saved' = [q \in Proc |-> TRUE] /\ outcome' = "error" /\ lock' = NoProc
        /\ outages' = outages + 1 /\ outages < MaxOutages /\ commands' = commands
    BY DEF PowerFails
  <1>6. outages' \in 0..MaxOutages
    BY <1>1, <1>5, SyncCommandAssumption DEF TypeOK
  <1>7. /\ map' \in [Proc -> Map] /\ job' \in [Proc -> Job]
        /\ base' \in [Proc -> Map \union {NoFile}]
    BY <1>4, <1>5
  <1>8. TypeOK'
    BY <1>1, <1>2, <1>3, <1>5, <1>6, <1>7 DEF TypeOK
  <1>9. Held' /\ \A q \in Proc : JobFits(q)'
    BY <1>5 DEF Held, JobFits, Working
  <1>10. QED
    BY <1>3, <1>8, <1>9 DEF SyncInv

LEMMA NameReachesDiskKeeps ==
    ASSUME SyncInv, NameReachesDisk
    PROVE  SyncInv'
  <1>1. TypeOK /\ FilesWhole
    BY DEF SyncInv
  <1>2. disk' = file /\ UNCHANGED <<touched, file, synced, lock, procVars, budget>>
    BY <1>1 DEF NameReachesDisk, OnDisk, FilesWhole
  <1>3. FilesWhole' /\ TypeOK'
    BY <1>1, <1>2 DEF FilesWhole, Whole, NothingMissed, TypeOK, procVars, budget
  <1>4. Held' /\ \A q \in Proc : JobFits(q)'
    BY <1>2 DEF SyncInv, Held, JobFits, Working, NothingMissed, RangeFits, procVars
  <1>5. QED
    BY <1>3, <1>4 DEF SyncInv

-------------------------------------------------------------------------------
(* Every behaviour.                                                         *)

LEMMA InitSyncInv == Init => SyncInv
  <1> SUFFICES ASSUME Init PROVE SyncInv
    OBVIOUS
  <1>1. EmptyMap \in Map /\ NoJob \in Job
    BY SyncCommandAssumption DEF EmptyMap, NoJob, Attempt, Map, Job, Blocks
  <1>2. /\ map \in [Proc -> Map] /\ job \in [Proc -> Job]
        /\ base \in [Proc -> Map \union {NoFile}] /\ saved \in [Proc -> BOOLEAN]
    BY <1>1 DEF Init
  <1>3. commands \in 0..MaxCommands /\ outages \in 0..MaxOutages
    BY SyncCommandAssumption DEF Init
  <1>4. TypeOK
    BY <1>2, <1>3 DEF Init, TypeOK
  <1>5. FilesWhole /\ Held /\ \A q \in Proc : JobFits(q)
    BY DEF Init, FilesWhole, Whole, Held, JobFits, Working
  <1>6. QED
    BY <1>4, <1>5 DEF SyncInv

LEMMA NextSyncInv == SyncInv /\ [Next]_vars => SyncInv'
  <1> SUFFICES ASSUME SyncInv, [Next]_vars PROVE SyncInv'
    OBVIOUS
  <1>1. ASSUME NEW p \in Proc, Step(p)
        PROVE  SyncInv'
    BY <1>1, LoadKeeps, EndingKeeps, ApplyChunkKeeps, RangeDoneKeeps, AttemptFailsKeeps,
       WriteTmpKeeps, SaveSucceedsKeeps, SaveFailsKeeps, RetryKeeps DEF Step
  <1>2. ASSUME NEW p \in Proc, Acquire(p) \/ Crash(p)
        PROVE  SyncInv'
    BY <1>2, AcquireKeeps, EndingKeeps
  <1>3. CASE PowerFails \/ NameReachesDisk
    BY <1>3, PowerFailsKeeps, NameReachesDiskKeeps
  <1>4. CASE UNCHANGED vars
    BY <1>4 DEF vars, files, procVars, budget, SyncInv, TypeOK, Held, FilesWhole, Whole,
       NothingMissed, JobFits, Working, RangeFits
  <1>5. QED
    BY <1>1, <1>2, <1>3, <1>4 DEF Next

(* Any number of commands, on any range of any chain, keep the invariant.   *)
THEOREM SyncCommandInvariant == Spec => []SyncInv
  BY InitSyncInv, NextSyncInv, PTL DEF Spec

(* Every variable of a command and its files keeps its type.                *)
THEOREM SyncCommandTypeOK == Spec => []TypeOK
  <1>1. SyncInv => TypeOK
    BY DEF SyncInv
  <1>2. QED
    BY <1>1, SyncCommandInvariant, PTL

(* The snapshot is whole and has missed no block before its cursor, after   *)
(* every failure, kill and power failure (write_snapshot_atomically,        *)
(* prepare_replay, load_or_create_map).                                     *)
THEOREM SyncCommandSnapshotResumable == Spec => []SnapshotResumable
  <1>1. SyncInv => SnapshotResumable
    BY DEF SyncInv, FilesWhole, Whole, SnapshotResumable
  <1>2. QED
    BY <1>1, SyncCommandInvariant, PTL

(* A command's save replaces what it loaded or saved itself                 *)
(* (SnapshotLock).                                                          *)
THEOREM SyncCommandNoWorkLost == Spec => []NoWorkLost
  <1>1. SyncInv => NoWorkLost
    BY DEF SyncInv, JobFits, Working, NoWorkLost
  <1>2. QED
    BY <1>1, SyncCommandInvariant, PTL

-------------------------------------------------------------------------------
(* How a command ends well.                                                 *)

EndSaved(p) == (file' # NoFile /\ file'.cursor = job[p].to) \/ ~saved[p]

(* A range that is done has its end in the map that is saved.               *)
LEMMA SaveEnds ==
    ASSUME SyncInv, NEW p \in Proc, SaveSucceeds(p), pc'[p] = "idle"
    PROVE  EndSaved(p)
  <1>1. /\ TypeOK /\ pc[p] = "rename" /\ Working(p) /\ file' = map[p]
    BY DEF SyncInv, SaveSucceeds, Working
  <1>2. job[p] \in Job /\ map[p] \in Map /\ RangeFits(map[p], job[p])
    BY <1>1 DEF SyncInv, TypeOK, JobFits
  <1>3. job[p].after = "done"
    <2>1. SUFFICES ASSUME job[p].after # "done" PROVE FALSE
      OBVIOUS
    <2>2. pc' = [pc EXCEPT ![p] = job[p].after]
      BY <2>1 DEF SaveSucceeds
    <2>3. pc'[p] \in {"sync", "retry"}
      BY <1>1, <1>2, <2>1, <2>2 DEF TypeOK, Job
    <2>4. QED
      BY <2>3
  <1>4. map[p].cursor = job[p].to
    BY <1>2, <1>3 DEF RangeFits
  <1>5. QED
    BY <1>1, <1>2, <1>4, NoMapAssumption DEF EndSaved

(* So has one whose attempts got there, if its last save succeeded.         *)
LEMMA RetryEndsSaved ==
    ASSUME SyncInv, NEW p \in Proc, RetryEnds(p), outcome' = "ok"
    PROVE  EndSaved(p)
  <1>1. TypeOK /\ pc[p] = "retry" /\ Working(p) /\ file' = file
    BY DEF SyncInv, RetryEnds, Working, files
  <1>2. /\ job[p] \in Job /\ map[p] \in Map
        /\ base[p] = file /\ RangeFits(map[p], job[p])
        /\ saved[p] => base[p] = map[p]
    BY <1>1 DEF SyncInv, TypeOK, JobFits
  <1>3. map[p].cursor >= job[p].to
    BY DEF RetryEnds, End
  <1>4. map[p].cursor = job[p].to
    BY <1>2, <1>3 DEF RangeFits, Map, Job, Blocks
  <1>5. QED
    BY <1>1, <1>2, <1>4, NoMapAssumption DEF EndSaved

LEMMA OkStep ==
    ASSUME SyncInv, [Next]_vars, NEW p \in Proc, EndsOk(p)
    PROVE  EndSaved(p)
  <1>1. pc[p] # "idle" /\ pc'[p] = "idle" /\ outcome' = "ok" /\ TypeOK /\ lock = p
    BY Alone DEF EndsOk, SyncInv
  <1>2. \A q \in Proc : pc[q] # "idle" => q = p
    BY <1>1, Alone
  <1>3. ASSUME NEW q \in Proc, NEW s, s # "idle", pc' = [pc EXCEPT ![q] = s]
        PROVE  FALSE
    BY <1>1, <1>3 DEF TypeOK
  <1>4. ASSUME NEW q \in Proc, Step(q)
        PROVE  EndSaved(p)
    <2>1. CASE SaveSucceeds(q)
      <3>1. q = p
        BY <1>2, <2>1 DEF SaveSucceeds
      <3>2. QED
        BY <1>1, <2>1, <3>1, SaveEnds
    <2>2. CASE RetryEnds(q)
      <3>1. q = p
        BY <1>2, <2>2 DEF RetryEnds
      <3>2. QED
        BY <1>1, <2>2, <3>1, RetryEndsSaved
    <2>3. CASE Declined(q)
      BY <1>1, <2>3 DEF Declined, End
    <2>4. CASE SaveFails(q)
      <3>1. CASE job[q].after = "done"
        BY <1>1, <2>4, <3>1 DEF SaveFails, End
      <3>2. CASE job[q].after # "done"
        <4>1. pc' = [pc EXCEPT ![q] = "write"] \/ pc' = [pc EXCEPT ![q] = "retry"]
          BY <2>4, <3>2 DEF SaveFails
        <4>2. QED
          BY <4>1, <1>3
      <3>3. QED
        BY <3>1, <3>2
    <2>5. CASE Load(q) \/ RangeDone(q) \/ AttemptFails(q) \/ WriteTmp(q) \/ Retry(q)
      <3>1. \E s \in {"sync", "write", "rename"} : pc' = [pc EXCEPT ![q] = s]
        BY <2>5 DEF Load, RangeDone, AttemptFails, WriteTmp, Retry
      <3>2. QED
        BY <3>1, <1>3
    <2>6. CASE ApplyChunk(q)
      <3>1. PICK due \in BOOLEAN : pc' = [pc EXCEPT ![q] = IF due THEN "write" ELSE "sync"]
        BY <2>6 DEF ApplyChunk
      <3>2. (IF due THEN "write" ELSE "sync") # "idle"
        OBVIOUS
      <3>3. QED
        BY <3>1, <3>2, <1>3
    <2>7. QED
      BY <1>4, <2>1, <2>2, <2>3, <2>4, <2>5, <2>6 DEF Step
  <1>5. ASSUME NEW q \in Proc, Acquire(q) \/ Crash(q)
        PROVE  FALSE
    BY <1>1, <1>5 DEF Acquire, Crash, End
  <1>6. ~PowerFails
    BY <1>1 DEF PowerFails
  <1>7. ~NameReachesDisk /\ ~UNCHANGED vars
    BY <1>1 DEF NameReachesDisk, vars, procVars
  <1>8. QED
    BY <1>4, <1>5, <1>6, <1>7 DEF Next

(* A command that ends well has the end of its range on disk, unless the    *)
(* last save it tried failed (run_sync).                                    *)
THEOREM SyncCommandOkIsSaved == Spec => OkIsSaved
  <1>1. SyncInv /\ [Next]_vars =>
          [\A p \in Proc : EndsOk(p) =>
              (file' # NoFile /\ file'.cursor = job[p].to) \/ ~saved[p]]_vars
    BY OkStep DEF EndSaved
  <1>2. QED
    BY <1>1, SyncCommandInvariant, PTL DEF Spec, OkIsSaved

===============================================================================
