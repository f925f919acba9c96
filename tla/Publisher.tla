------------------------------- MODULE Publisher -------------------------------
(***************************************************************************)
(* The PIR thread (src/publish) and its files (src/keyword_store): it       *)
(* absorbs the updates the syncer sends, rebuilds the served database on a  *)
(* timer, compacts the keyword index when its tail has grown, and keeps the *)
(* index on disk so that a restart does not move an address.                *)
(*                                                                         *)
(* eth_pir is a library outside this repository.  What is used of it: a     *)
(* keyword index is a minimal perfect hash over `base` and an append-only   *)
(* `tail`; the hash is not reproducible, so each one built gets a number of *)
(* its own (id), which the program does not have: it has the version.       *)
(*                                                                         *)
(* pc is what the thread does next:                                         *)
(*   down     no process is running                                        *)
(*   keys     save_checkpoint writes the .keys file                         *)
(*   index    save_checkpoint writes the .index file                        *)
(*   persist  publish_directory writes the .index file                      *)
(*   expose   publish_directory swaps the directory the endpoint serves     *)
(*   wait     receiving updates until the next publish is due               *)
(*   decide   the rebuild is over: compact or not                           *)
(***************************************************************************)
EXTENDS Naturals, Sequences, FiniteSets, SequencesExt

CONSTANTS Addr,
          MaxRecord,     \* records are 0 .. MaxRecord, 0 for "holds neither token"
          CompactAfter,  \* cfg.compact_after
          MaxChanges,    \* bound: records the syncer changes in a behaviour
          MaxFaults,     \* bound: failed writes, rebuilds and updates
          MaxCrashes     \* bound: restarts of the process

ASSUME PublisherAssumption ==
    /\ {MaxRecord, CompactAfter, MaxChanges, MaxFaults, MaxCrashes} \subseteq Nat
    /\ IsFiniteSet(Addr)

VARIABLES holders,    \* the balance map of the syncer
          queue,      \* the channel from the syncer to the PIR thread
          pc,
          index,      \* the keyword index of EthPirServer
          rows,       \* its records, absorbed ones included
          served,     \* the database it answers queries from, and its slot table
          current,    \* PirWorker.current
          lenAtCompaction,
          directory,  \* the copy of the index that the endpoint serves
          indexFile, keysFile,
          serving,    \* the endpoint is up
          builds,     \* perfect hashes built so far
          inits,      \* history: how many of them by EthPirServer::init
          exposed,    \* history: every directory the endpoint has served
          rejected,   \* history: addresses whose last update the server refused
          rebuilt,    \* history: the last rebuild did not fail
          changes, faults, crashes

files == <<indexFile, keysFile>>
thread == <<index, rows, served, current, lenAtCompaction>>
history == <<builds, inits, exposed, rejected, rebuilt>>
budget == <<changes, faults, crashes>>
vars == <<holders, queue, pc, thread, directory, files, serving, history, budget>>

-------------------------------------------------------------------------------
Record == 0..MaxRecord
NoRecord == [a \in Addr |-> 0]

Index == [id : Nat, version : Nat, base : SUBSET Addr, tail : Seq(Addr)]
KeysFile == [id : Nat, version : Nat, base : SUBSET Addr]
Served == [id : Nat, base : SUBSET Addr, tail : Seq(Addr), rows : [Addr -> Record]]

Missing == 0                     \* the id of a file that is not there
EmptyIndex == [id |-> Missing, version |-> 0, base |-> {}, tail |-> <<>>]
EmptyDatabase == [id |-> Missing, base |-> {}, tail |-> <<>>, rows |-> NoRecord]

Held(map) == {a \in Addr : map[a] # 0}
InTail(x) == {x.tail[i] : i \in 1..Len(x.tail)}
Indexed(x) == x.base \cup InTail(x)
Size(x) == Cardinality(x.base) + Len(x.tail)

(* Addresses that have a slot in the server: the table behind the hash and  *)
(* the tail of the live index.                                              *)
Known == served.base \cup InTail(index)

TypeOK ==
    /\ holders \in [Addr -> Record] /\ rows \in [Addr -> Record]
    /\ current \in [Addr -> Record]
    /\ queue \in Seq([addr : Addr, record : Record])
    /\ pc \in {"down", "keys", "index", "persist", "expose", "wait", "decide"}
    /\ index \in Index /\ directory \in Index /\ indexFile \in Index
    /\ keysFile \in KeysFile
    /\ served \in Served
    /\ serving \in BOOLEAN /\ rebuilt \in BOOLEAN
    /\ lenAtCompaction \in Nat /\ builds \in Nat /\ inits \in Nat
    /\ exposed \in SUBSET Index
    /\ rejected \in SUBSET Addr
    /\ changes \in Nat /\ faults \in Nat /\ crashes \in Nat

-------------------------------------------------------------------------------
Init ==
    /\ holders \in [Addr -> Record]
    /\ queue = <<>> /\ pc = "down"
    /\ index = EmptyIndex /\ rows = NoRecord /\ served = EmptyDatabase
    /\ current = NoRecord /\ lenAtCompaction = 0
    /\ directory = EmptyIndex
    /\ indexFile = EmptyIndex
    /\ keysFile = [id |-> Missing, version |-> 0, base |-> {}]
    /\ serving = FALSE
    /\ builds = 0 /\ inits = 0 /\ exposed = {} /\ rejected = {} /\ rebuilt = TRUE
    /\ changes = 0 /\ faults = 0 /\ crashes = 0

(* A pass of the syncer changes a record and sends the change; while no PIR *)
(* thread runs, the catch-up of the next start folds it into the map only.  *)
Change ==
    /\ changes < MaxChanges
    /\ pc = "down" \/ serving
    /\ \E a \in Addr : \E r \in Record \ {holders[a]} :
          /\ holders' = [holders EXCEPT ![a] = r]
          /\ queue' = IF serving THEN Append(queue, [addr |-> a, record |-> r]) ELSE queue
    /\ changes' = changes + 1
    /\ UNCHANGED <<pc, thread, directory, files, serving, history, faults, crashes>>

-------------------------------------------------------------------------------
(* open_server.  load wants both files, of one version; restore checks no   *)
(* more than that the table and the hash have the same number of keys, and  *)
(* refuses to start otherwise.                                              *)
RestorableAnyVersion == indexFile.id # Missing /\ keysFile.id # Missing     \* mutant

Restorable ==
    /\ indexFile.id # Missing /\ keysFile.id # Missing
    /\ indexFile.version = keysFile.version

(* Mutant: the addresses that are new since the save are not collected. *)
RestoreForgetsNew ==
    /\ pc = "down" /\ Restorable
    /\ Cardinality(keysFile.base) = Cardinality(indexFile.base)
    /\ index' = indexFile
    /\ served' = [id |-> keysFile.id, base |-> keysFile.base,
                  tail |-> indexFile.tail, rows |-> holders]
    /\ rows' = holders /\ current' = holders
    /\ lenAtCompaction' = Size(indexFile) /\ rebuilt' = TRUE
    /\ pc' = "persist"
    /\ UNCHANGED <<holders, queue, directory, files, serving, builds, inits, exposed,
                   rejected, budget>>

(* Every address keeps its slot; those that are new since the save are      *)
(* appended, in whatever order the map yields them.                         *)
Restore ==
    /\ pc = "down" /\ Restorable
    /\ Cardinality(keysFile.base) = Cardinality(indexFile.base)
    /\ \E added \in SetToSeqs(Held(holders) \ (keysFile.base \cup InTail(indexFile))) :
          index' = [indexFile EXCEPT !.tail = @ \o added]
    /\ served' = [id |-> keysFile.id, base |-> keysFile.base,
                  tail |-> index'.tail, rows |-> holders]
    /\ rows' = holders /\ current' = holders
    /\ lenAtCompaction' = Size(index') /\ rebuilt' = TRUE
    /\ pc' = "persist"
    /\ UNCHANGED <<holders, queue, directory, files, serving, builds, inits, exposed,
                   rejected, budget>>

(* The table and the hash are of different sizes: the process exits with an *)
(* error, and will again at the next attempt.                               *)
RefuseStart ==
    /\ pc = "down" /\ Restorable
    /\ Cardinality(keysFile.base) # Cardinality(indexFile.base)
    /\ UNCHANGED vars

(* A fresh index at version v over the holders of map, installed at once.   *)
Install(v, map) ==
    /\ builds' = builds + 1
    /\ index' = [id |-> builds', version |-> v, base |-> Held(map), tail |-> <<>>]
    /\ served' = [id |-> builds', base |-> Held(map), tail |-> <<>>, rows |-> map]
    /\ rows' = map /\ current' = map
    /\ lenAtCompaction' = Cardinality(Held(map)) /\ rebuilt' = TRUE
    /\ pc' = "keys"

(* init_server: nothing usable was saved.  A fresh index is version 0.      *)
InitServer ==
    /\ pc = "down" /\ ~Restorable
    /\ Install(0, holders)
    /\ inits' = inits + 1
    /\ UNCHANGED <<holders, queue, directory, files, serving, exposed, rejected, budget>>

-------------------------------------------------------------------------------
(* save_checkpoint.  Each file is written to a temporary and renamed.       *)
WriteKeys ==
    /\ pc = "keys"
    /\ keysFile' = [id |-> index.id, version |-> index.version, base |-> index.base]
    /\ pc' = "index"
    /\ UNCHANGED <<holders, queue, thread, directory, indexFile, serving, history, budget>>

WriteIndex ==
    /\ pc = "index"
    /\ indexFile' = index
    /\ pc' = "persist"
    /\ UNCHANGED <<holders, queue, thread, directory, keysFile, serving, history, budget>>

(* A write fails: logged, and the thread goes on.  The second file is not   *)
(* tried after the first.                                                   *)
CheckpointFails ==
    /\ faults < MaxFaults
    /\ pc \in {"keys", "index"}
    /\ pc' = "persist"
    /\ faults' = faults + 1
    /\ UNCHANGED <<holders, queue, thread, directory, files, serving, history,
                   changes, crashes>>

(* publish_directory: on disk first, exposed only then.  The first time, it *)
(* is followed by the ready message that lets the endpoint open.            *)
Persist ==
    /\ pc = "persist"
    /\ indexFile' = index
    /\ pc' = "expose"
    /\ UNCHANGED <<holders, queue, thread, directory, keysFile, serving, history, budget>>

(* Mutant: the failed write is only logged. *)
PublishFailsExposes ==
    /\ faults < MaxFaults
    /\ pc = "persist"
    /\ pc' = "expose"
    /\ faults' = faults + 1
    /\ UNCHANGED <<holders, queue, thread, directory, files, serving, history,
                   changes, crashes>>

(* The file cannot be written; or it is, and what was written is not parsed *)
(* or the slot of the directory is poisoned.  The last one stays exposed.   *)
PublishFails ==
    /\ faults < MaxFaults
    /\ pc \in {"persist", "expose"}
    /\ pc' = "wait" /\ serving' = TRUE
    /\ faults' = faults + 1
    /\ UNCHANGED <<holders, queue, thread, directory, files, history, changes, crashes>>

(* Mutant: the endpoint reads the live index. *)
ExposeLive ==
    /\ pc \in {"expose", "wait"}
    /\ directory' = index
    /\ exposed' = exposed \cup {index}
    /\ pc' = "wait" /\ serving' = TRUE
    /\ UNCHANGED <<holders, queue, thread, files, builds, inits, rejected, rebuilt, budget>>

Expose ==
    /\ pc = "expose"
    /\ directory' = index
    /\ exposed' = exposed \cup {index}
    /\ pc' = "wait" /\ serving' = TRUE
    /\ UNCHANGED <<holders, queue, thread, files, builds, inits, rejected, rebuilt, budget>>

-------------------------------------------------------------------------------
(* Mutant: a drained address stays in `current`. *)
AbsorbKeepsDrained ==
    /\ pc = "wait" /\ queue # <<>>
    /\ LET update == Head(queue)
       IN  /\ index' = IF update.addr \in Known THEN index
                       ELSE [index EXCEPT !.tail = Append(@, update.addr)]
           /\ rows' = [rows EXCEPT ![update.addr] = update.record]
           /\ current' = [current EXCEPT ![update.addr] =
                             IF update.record = 0 THEN @ ELSE update.record]
           /\ rejected' = rejected \ {update.addr}
    /\ queue' = Tail(queue)
    /\ UNCHANGED <<holders, pc, served, lenAtCompaction, directory, files, serving,
                   builds, inits, exposed, rebuilt, budget>>

(* absorb_one: a new address goes to the end of the tail; a zero record     *)
(* leaves its address where it is.                                          *)
Absorb ==
    /\ pc = "wait" /\ queue # <<>>
    /\ LET update == Head(queue)
       IN  /\ index' = IF update.addr \in Known THEN index
                       ELSE [index EXCEPT !.tail = Append(@, update.addr)]
           /\ rows' = [rows EXCEPT ![update.addr] = update.record]
           /\ current' = [current EXCEPT ![update.addr] = update.record]
           /\ rejected' = rejected \ {update.addr}
    /\ queue' = Tail(queue)
    /\ UNCHANGED <<holders, pc, served, lenAtCompaction, directory, files, serving,
                   builds, inits, exposed, rebuilt, budget>>

Reject ==
    /\ faults < MaxFaults
    /\ pc = "wait" /\ queue # <<>>
    /\ rejected' = rejected \cup {Head(queue).addr}
    /\ queue' = Tail(queue)
    /\ faults' = faults + 1
    /\ UNCHANGED <<holders, pc, thread, directory, files, serving, builds, inits, exposed,
                   rebuilt, changes, crashes>>

(* publish: everything absorbed becomes retrievable.                        *)
Rebuild ==
    /\ pc = "wait"
    /\ served' = [served EXCEPT !.tail = index.tail, !.rows = rows]
    /\ pc' = "decide" /\ rebuilt' = TRUE
    /\ UNCHANGED <<holders, queue, index, rows, current, lenAtCompaction, directory, files,
                   serving, builds, inits, exposed, rejected, budget>>

(* A failed one is logged, and the thread goes on to compact and publish.   *)
RebuildFails ==
    /\ faults < MaxFaults
    /\ pc = "wait"
    /\ pc' = "decide" /\ rebuilt' = FALSE
    /\ faults' = faults + 1
    /\ UNCHANGED <<holders, queue, thread, directory, files, serving, builds, inits,
                   exposed, rejected, changes, crashes>>

(* compact_if_needed.  The count trigger is exact; whether the tail has     *)
(* outgrown its share of the hash depends on bytes the model does not have. *)
Delta == IF Size(index) >= lenAtCompaction THEN Size(index) - lenAtCompaction ELSE 0
MayCompact == Delta > 0 \/ Delta >= CompactAfter

Compact ==
    /\ pc = "decide" /\ MayCompact
    /\ Install(index.version + 1, current)
    /\ UNCHANGED <<holders, queue, directory, files, serving, inits, exposed, rejected,
                   budget>>

SkipCompact ==
    /\ pc = "decide" /\ Delta < CompactAfter
    /\ pc' = "persist"
    /\ UNCHANGED <<holders, queue, thread, directory, files, serving, history, budget>>

CompactFails ==
    /\ faults < MaxFaults
    /\ pc = "decide" /\ MayCompact
    /\ pc' = "persist"
    /\ faults' = faults + 1
    /\ UNCHANGED <<holders, queue, thread, directory, files, serving, history,
                   changes, crashes>>

(* The process dies: memory and the channel are gone.                       *)
Crash ==
    /\ crashes < MaxCrashes
    /\ pc # "down"
    /\ pc' = "down" /\ queue' = <<>> /\ serving' = FALSE
    /\ index' = EmptyIndex /\ rows' = NoRecord /\ served' = EmptyDatabase
    /\ current' = NoRecord /\ lenAtCompaction' = 0
    /\ directory' = EmptyIndex
    /\ rejected' = {} /\ rebuilt' = TRUE
    /\ crashes' = crashes + 1
    /\ UNCHANGED <<holders, files, builds, inits, exposed, changes, faults>>

-------------------------------------------------------------------------------
Worker ==
    \/ Restore \/ RefuseStart \/ InitServer
    \/ WriteKeys \/ WriteIndex \/ Persist \/ Expose
    \/ Absorb \/ Rebuild \/ Compact \/ SkipCompact

Fault == CheckpointFails \/ PublishFails \/ Reject \/ RebuildFails \/ CompactFails

Next == Worker \/ Fault \/ Change \/ Crash

Spec == Init /\ [][Next]_vars

(* The thread is never stopped for good; before a publish is due again it   *)
(* receives what is queued (the interval is longer than a publish takes).   *)
FairSpec == Spec /\ WF_vars(Worker) /\ SF_vars(Absorb)

-------------------------------------------------------------------------------
(* Properties.                                                              *)

(* A directory once served stays good as long as its hash is in use: the    *)
(* live index and the saved one give every address in it the same slot,     *)
(* whatever writes failed and whenever the process died.                    *)
Continues(x, e) == x.id = e.id => x.base = e.base /\ IsPrefix(e.tail, x.tail)
SlotsAreStable ==
    \A e \in exposed : Continues(indexFile, e) /\ (pc # "down" => Continues(index, e))

(* Without a second fresh start the version tells the hashes apart, which   *)
(* is all a client and the loader of the two files go by.                   *)
SameHash(x, y) == x.version = y.version => x.id = y.id
VersionNamesHash ==
    inits <= 1 =>
        /\ \A x \in exposed, y \in exposed \cup {indexFile} : SameHash(x, y)
        /\ pc # "down" => \A x \in exposed : SameHash(x, index)
        /\ Restorable => keysFile.id = indexFile.id /\ keysFile.base = indexFile.base

(* Every slot the directory hands out is in the served database, with that  *)
(* address in it.                                                           *)
ExposedIsBuilt == directory.id = served.id => IsPrefix(directory.tail, served.tail)

(* So it is unless the last rebuild failed, whatever writes, compactions    *)
(* and updates failed, however far the live index is ahead, and again with  *)
(* the first rebuild that succeeds.                                         *)
ExposedIsRebuilt == rebuilt => ExposedIsBuilt

(* Once the queue is empty the server has the records of the map, in what   *)
(* it will rebuild from and in what it would compact from, but for refused  *)
(* updates.                                                                 *)
AbsorbedIsMap ==
    serving /\ queue = <<>> =>
        \A a \in Addr \ rejected : rows[a] = holders[a] /\ current[a] = holders[a]

(* The map is served in the end: every accepted change is in the database   *)
(* and every holder in the directory.                                       *)
MapIsServed ==
    /\ serving /\ queue = <<>>
    /\ directory.id = served.id
    /\ \A a \in Addr \ rejected :
          /\ served.rows[a] = holders[a]
          /\ holders[a] # 0 => a \in Indexed(directory)
PublishedEventually == <>[](MapIsServed \/ inits > 1)
===============================================================================
