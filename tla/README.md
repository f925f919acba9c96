# A formal model of poulpy-eth-pir-demo

The program keeps a table of the USDT and USDC balances of every Ethereum
address, built from the event logs of the two tokens, and serves it through
private information retrieval (PIR): a client learns the record of one address
without the server learning which. This directory holds TLA+ models of the part
that makes the answers right (following the chain, surviving failures and
reorganisations, handing changes to the PIR database, keeping slots stable on
disk and at clients), the TLC configurations that check them, and TLAPS proofs.

Paths below are relative to the repository.

## 1. Inventory

### 1.1 Components

| Component | State | Operations | Modelled in |
|---|---|---|---|
| Balance map (`src/map`) | `inner`: address -> balances and last-change stamps; `cursor`: last block folded in | `apply`, `prune_zero`, `save`, `load` | `BalanceMap`, `Syncer` |
| Chain queries (`src/chain`, `src/tokens.rs`) | none | tip by policy, block hash, logs of a range, balances at a block | `Chain` |
| Sync and follow loop (`src/follow`) | `PassState` (watch, `changed`), `SyncRun` (range, chunk size, `inserted`), time of the last snapshot | `sync_into`, `sync_one_chunk`, `fetch_logs`/`narrow_range`, `pass`, `finish_pass`, `on_failure` | `Syncer` |
| Reorg watch (`src/follow/watch.rs`) | hash of the cursor block, recently touched addresses | `record`, `trim`, `store_cursor_hash`, `repair_if_reorged` | `Syncer`, `ReorgWatch` |
| serve (`src/cli/serve_cmd.rs`) | mode: catching up or following | catch-up with retry, spawn of the PIR thread, follow loop | `Syncer`, `Publisher` |
| PIR thread (`src/publish`) | `EthPirServer`, `current`, `len_at_compaction`, deadlines | start or restore, absorb, rebuild, compact, expose | `Publisher` |
| Keyword files (`src/keyword_store`) | `.index`, `.keys` | `load`, `save_index`, `save_checkpoint` | `Publisher` |
| Keyword directory (`src/directory.rs`) | the blob the endpoint serves | `publish`, tail from an offset | `Publisher`, `Lookup` |
| Client library and portal (`client/`) | directory, pending queries | `sync_need`, `resync`, `apply_tail`, `query`, `decode`, `cancel`; `PirSession.sync`, `lookup` | `Lookup` |
| Query endpoint (`src/http/mod.rs`) | none of its own | `/v1/status`, `/v1/directory`, `/v1/directory/tail`, `/v1/query` | `Lookup` |
| Query batcher (`src/http/batch.rs`) | queue of queries, the batch in hand | `submit`, `collect`, `answer`, refuse | `Batcher`, `QueryService` |
| Rate limiter (`src/http/limit.rs`) | token bucket per client | `check_at`, `make_room` | `Limiter` |
| Progress (`src/progress.rs`) | three atomics | `record`, `sample` | `Monitor` |
| sync command (`src/cli/sync_cmd.rs`) | range, retry budget | `load_or_create_map`, `prepare_replay`, `run_sync`, `wait_to_retry` | `SyncCommand` |
| Snapshot lock and file (`src/map/lock.rs`, `snapshot.rs`) | the lock, the temporary file, the snapshot | `acquire`, `save`, `load` | `SyncCommand`, `Syncer` |
| follow, inspection commands, argument parsing, record layout, static files, scripts | - | - | not modelled (no state of their own beyond what is above) |

### 1.2 How they interact

```
 RPC provider --awaits--> syncer task --UpdateBatch channel--> PIR thread
                            |   |                                |      |
                     snapshot  (map)                .keys/.index files  directory handle
                                                                         |
                                              client  <--HTTP--  endpoint, query batcher
```

* The **syncer** is one async task. It owns the map; nothing else writes it. It
  is suspended at every RPC call, and the chain may grow or reorganise there.
* It hands over the changes of a *finished* pass over a channel to the **PIR
  thread**, an OS thread that alternates between receiving updates until a
  deadline and publishing (rebuild, maybe compact, write, expose).
* The **endpoint** reads the exposed directory and the served database
  concurrently with both. The client's status, directory and query requests are
  separate, so anything may happen between two of them. Its handlers share the rate
  limiter's table behind a lock, and read the syncer's progress without one.
* The **sync command** is another process on the same snapshot, started by hand or by
  a timer; a lock on a file beside the snapshot keeps the two apart.
* Two things outlive the process: the **snapshot** and the two **keyword
  files**. They are written at different times by different threads.

### 1.3 What is hard, and what makes each part correct

* *Failure in the middle of a pass.* A chunk is folded into the map at once,
  while what must be told to the PIR side, the reorg watch and the snapshot
  follow later, each behind a call that can fail. Correct: the map and the file
  are exact at their own cursor at every await (`MapExact`, `SnapshotExact`),
  and no change is lost on its way to the PIR side (`HoldersCurrent`,
  `PirFollowsMap`).
* *Reorganisations.* With `--confirmations N` a folded block can be replaced.
  Correct: as long as the stored hash still matches, the map is the chain at its
  cursor (`HashVouches`); what a repair would rewind over is covered
  (`WatchCoversWindow`) and nothing is remembered for ever
  (`WatchKeepsOnlyReachable`); nothing else moves the cursor back
  (`RewindNeedsReorg`).
* *Slots.* Clients compute where their record is from a copy of the directory,
  and the server cannot know who holds which copy. Correct: a slot once exposed
  is never another address's while its hash lives, through failed writes and
  restarts (`SlotsAreStable`); the version tells hashes apart
  (`VersionNamesHash`); and an exposed slot has a row in the served database unless the
  last rebuild failed (`ExposedIsRebuilt`).
* *A client's copy.* Correct: the slot of a query under way stands while the client
  syncs (`QuerySlotStands`); a listed address has a row and is answered with its
  record (`ListedIsFound`, which names three exceptions: a failed last rebuild, a hash
  replaced since the query, a second fresh start); and a client told it is current
  is (`CurrentMeansCurrent`, `NewHashIsNoticed`).
* *Pooled queries.* Queries wait for one another and their clients may leave.
  Correct: no job is lost or held twice (`HeldOnce`), each client that stays gets
  its own answer, from a database not older than its query
  (`ImplementsQueryService`), and gets one (`EveryQueryAnswered`).
* *Progress.* The syncer gets back to the tip (`CatchesUp`) and what it knows is
  served (`PublishedEventually`), after any bounded number of failures; what was
  served is never followed by something older (`NeverServesOlder`).
* *Being seen to be behind.* A sample of the progress is three loads, the syncer
  stores in between. Correct: a syncer that is behind never looks caught up
  (`LagNeverHidden`).
* *One client's share.* Handlers read the clock before they take the limiter's lock,
  and a full table forgets clients. Correct: nobody gets more than a burst and the rate
  over any window, but for what an early eviction gives away (`WithinRate`), and who waits
  as told gets in (`WaitIsEnough`).
* *One snapshot, several commands.* A command may fail, retry, be killed or lose
  power at any step, replay blocks already in the snapshot, or meet another command.
  Correct: a snapshot can always be resumed from its cursor (`SnapshotResumable`),
  nobody's blocks are discarded (`NoWorkLost`), success means saved
  (`OkIsSaved`), every command ends (`CommandEnds`), and a replay brings nothing old
  back (`ReplayRestoresNothing`, which fails).

`PROJECT.json` lists the hazards one by one with their lines.

## 2. The modules

```
 BalanceMap <- Chain <- Syncer <- ReorgWatch <- MCReorg
                          ^ ^
                          | Monitor <- MCMonitor
                          |    ^
                          |    SyncerProofs <- ReorgProofs, which also extends ReorgWatch
                          MCSyncer

 Publisher <- Publication <- MCPublisher           ServedView <-(implements)- Publication
     ^   ^    ^
     |   |    PublicationProofs, which also extends PublisherProofs
     |   Lookup <- MCLookup, LookupProofs, which also extends PublisherProofs
 PublisherProofs

 Batcher <- MCBatcher, BatcherProofs               QueryService <-(implements)- Batcher
 Limiter <- MCLimiter, LimiterProofs
 SyncCommand <- MCSyncCommand, SyncCommandProofs
```

An arrow points at the module that is extended.

**BalanceMap** - the writes to the map as operators on one slot (`ApplySlot`,
`Outcome`, `PruneZero`) and on the whole map (`ApplyAll`), what a pass records
about them (`ChangedAfter`, `InsertedAfter`) and what the PIR side makes of a
batch (`Absorb`). An address is independent of every other in all of them. A
slot is `Absent` or a balance and a stamp per token.

**Chain** - the environment: a sequence of blocks, each with the addresses its
watched events name, the token that moved and the balances after it. It grows
(`Mine`), and above the final block another branch may replace it (`Reorg`). A
block hash is height and branch. A block that changes a balance names it in an
event (the reason the program can work from logs at all); an event without a
change is possible too.

**Syncer** - `serve` from its first start. `pc` names the await the task is
suspended at, and each action is the code from there to the next await:

| `pc` | Action | Code |
|---|---|---|
| `poll` | `CheckCursorHash`, or straight to `StartSync`/`AtTip` when there is no hash to check | `watch.rs` `repair_if_reorged`, `loop_run.rs` `pass`, `serve_cmd.rs` `catch_up_once` |
| `repair` | `Repair` | `watch.rs` `repair` |
| `resolve` | `StartSync`, `AtTip` | `tip.rs` `resolve`, `loop_run.rs` `pass` |
| `logs` | `FetchLogs`, `NarrowRange` | `logs.rs` |
| `apply` | `ApplyChunk` | `syncer.rs` `sync_one_chunk`, `apply.rs`, `maybe_snapshot` |
| `finish` | `FinishPass`, `FinishCatchUp` | `loop_run.rs` `finish_pass`, `serve_cmd.rs` `sync_to_target` |

`BlockMissing` is a read at a block the node no longer has. `RpcFails`,
`ChunkSaveFails`, `HashFails`, `FinalSaveFails` are the error paths, all through
`GiveUp` (`on_failure`); `Restart` is a crash at any await and a start from the
snapshot. `published` is what the PIR side would hold with every sent batch
absorbed: it is the abstraction of the whole publishing side that the syncer's
properties need.

**ReorgWatch** - the same steps under the reorganisations the watch is built for:
between two passes, and leaving the tip the syncer follows at or past the first block
the watch has recorded. Outside that the code promises nothing: see the observations in
section 5. `repaired` is a history of the entries a
repair changed.

**Monitor** - the syncer of `Syncer` with its progress handle, and a handler of
`/v1/status` that samples it. `RecordStart` and `RecordFinish` are what the three callers of
`record` store, and `SyncerStep` says which steps of the syncer store what; `LoadCursor` and
`LoadTip` are the sample, with any steps of the syncer between them. `aim`, `rewound` and
`sample.least` are history: how far the syncer had to go, at the least, while the sample
was taken.

**Publisher** - the PIR thread and its files. `pc` is its next step: `keys`,
`index` (the two writes of `save_checkpoint`), `persist`, `expose` (the two
halves of `publish_directory`), `wait` (receiving), `decide` (compact or not),
`down`. `index` and `rows` are the live keyword index and records of
`EthPirServer`, `served` the database queries are answered from since the last
rebuild, `current` the thread's own table that a compaction is made from,
`directory` the copy the endpoint hands out. Every step can fail once per
budgeted fault, and the process can die before any of them. `PublishFails` is every way
`publish_directory` ends without exposing: the blob is not made or not written (at
`persist`), or it is on disk and then not parsed, or the slot of the directory is poisoned
(at `expose`). `rebuilt` is history: whether the last rebuild succeeded.

**ServedView** - what publishing promises over time: the map moves on, and for each
address the record served is one the map has held, at a place in its history that
never goes back.

**Publication** - `Publisher` with two histories, what the map has held (`past`) and where
in it the served database stands (`shown`), which make it a ServedView. While a restart has no
database the view is the last one.

**Lookup** - a client of that server: status and plan (`PlanSync`), the fetch
(`FetchDirectory`, `FetchTail`), the currency check and the query (`Ask`), the
response and its decoding (`Respond`), each a step of its own; a request may
fail. `Ask` is two steps of `PirSession.lookup` in one, `ensureCurrent` (which awaits a
status) and `Client::query` (which checks nothing). What the server does between the two it may
as well do right after `Ask`, before the response; the query's slot is from the copy either
way, and no property asks how current that was. `Nobody` owns empty rows. A response is
decrypted and its row compared with the address by eth_pir (`InSet`, external);
`Client::decode` makes a report of it, `Found` or `NotHeld`.

**QueryService** - what the query endpoint promises, without queue or worker: a
query is taken on or refused; those taken on are answered in groups, each with its
own answer or a failure, a group from one database served at some moment since its
queries arrived; a client may leave.

**Batcher** - how it is kept. `worker` is where the worker task stands: `idle` (the
`recv` of `worker`), `pooling` and `closing` (the loop of `collect`, before and after
its deadline), `passing` (the blocking pass), `replying`. `Submit` and
`Overloaded` are `submit`; `Receive`, `Take`, `WindowEnds` and `Dispatch` are `worker` and
`collect`; `Pass` and `Reply` are `answer`. A job is the name of its query; `results`
are kept by position, as the code keeps them. The refinement maps QueryService's
`asked` to the queries whose client still waits; `Reply` is its `AnswerAll`, every
step of the worker before that a stutter. That a pass is answered from one database, and
`Respond` of `Lookup` reads the served database in one step, both rest on the mutex in
eth_pir that `batch.rs` speaks of.

**Limiter** - the token buckets. A handler is two steps: `Arrive` reads the clock, and
`Admitted`, `Refused` or `TurnedAway` is `check_at` under the lock; other handlers may come
in between, so stamps reach a bucket in any order. A tick is the time in which a bucket
gains one unit, a query costs `Cost` units. `Retained` and `HasRoom` are `make_room`,
`Refilled` is the refill. `opened`, `admitted`, `skew`, `horizon` and `promise` are an
observer's: it opens a window at any moment and counts.

**SyncCommand** - `sync` as a process: `Acquire`, `Load` (the range from `--from` and `--to`,
`prepare_replay`) or `Declined`; `ApplyChunk`, `RangeDone` and `AttemptFails` are one attempt;
`WriteTmp`, `SaveSucceeds` and `SaveFails` are a save, at a chunk's end, after a failed attempt
or at the end (`job.after` says what follows it); `Retry` and `RetryEnds` are
`wait_to_retry` and the end of the loop in `run_sync`. A balance is the block it was read at,
which is all that these properties need of it. `file` is the snapshot as processes see it,
`disk` as it is after a power failure (`PowerFails`): a rename may or may not have
survived, and a file that was not synced before the rename is `Torn`.

The definitions whose comment begins with "Mutant" are faulty variants of the
operator next to them. No specification uses them. Each is what a plausible slip
in that code would look like, and each makes one property fail: the property
depends on the line in question.

## 3. Abstractions, and why they lose nothing the properties need

* Balances are small naturals, records `0..MaxRecord` with 0 for "holds
  neither token"; addresses are model values. Formats, checksums, sizes and wording are
  left out.
* The touches of a block are given; log decoding is not modelled. A chunk's
  balances are read in one step although `read_balances` sends several
  multicalls: all name the same block, so only a reorganisation between two
  of them could tell the difference, and a reorganisation during a pass is unprotected
  in any case (section 5). A reverted `balanceOf` (read as 0) is not modelled. The
  queries for the USDT owner after a supply event (`src/follow/apply.rs`
  `add_usdt_owner_touches`) are awaits of their own between logs and balances: the model
  has them in the step that fetches the logs, as touches of the owner's address, so the same holds
  of them.
* Every start of `serve` has a preflight at the block after the cursor (the chain's id, the age
  of the multicall contract, whether state and logs there are served) that may end the
  process. It comes before anything is written, so the model's `Restart` has only the
  starts that get past it; a provider that never serves that block means no service, which
  `CatchesUp` does not speak of.
* In `Syncer` a snapshot write happens or it does not; `SyncCommand` has the temporary
  file, its sync and the rename. The bytes and the checksum's arithmetic are left out: a file
  cut short is refused.
* `Limiter` counts in whole units, so the rounding of `f64` is not there; nor are
  a limiter switched off (`--rate-limit 0`) and a poisoned lock. Rate, burst and eviction time
  are free, as on the command line. A client that is evicted comes back to a full bucket: if a
  bucket refills no later than it is evicted (the defaults do) that gives nothing away, with
  `--rate-limit 1 --rate-burst 20` (20 minutes to refill, 10 to be evicted) it does. The
  observer counts it in `forgiven`, at most `Shortfall` for each eviction.
* `Monitor` loads cursor and tip in the order of the code. The atomics are relaxed, so a
  processor may reorder them; `HalfStored` covers what that can show of one record. A reordering
  over two records, a whole pass apart, is excluded.
* The age in a sample is left out: it is the time of the last record.
* A snapshot may be written after any chunk; the timer that decides it is left out.
* eth_pir is external. Taken from how `src/` uses it: a keyword index is a
  minimal perfect hash over `base` and an append-only `tail`; each hash built is
  different, which the model records in a ghost number `id`; `init` starts at
  version 0 (the status example of `README.md`) and a compaction adds one;
  `restore` checks that table and hash have equally many keys; an address not in
  the directory may hash to any slot of the base.
* An address without a record may still have a row of zeros in the database (its balance
  drained since the last compaction) or none (a restart or a compaction left it out), so
  `Lookup` lets a slot of a record 0 lead to either: it is reported as held with nothing, or as
  not held.
* The syncer sends changes in batches; the queue of the model has them one by
  one, in an order the map's iteration may give.
* The publish interval appears only as fairness; the size trigger of a compaction
  (bytes of tail against bytes of hash) is a free choice, the count trigger exact.
* `Lookup` has one client with one query under way. Queries do not see each other, and the
  server keeps no state for a client.
* In `Batcher` a query may fail on its own in any combination; a pass that fails or
  panics is the combination in which all do. The end of the worker (`Stopped`) is left out.
* Before the first directory is exposed the endpoint serves an empty one. The
  client is taken to refuse it, as it has no capacity.

## 4. The runs

| Run | Configuration | Shows |
|---|---|---|
| `finalized` | `Finalized.cfg` | `MapExact`, `SnapshotExact`, `StampsExact`, `HoldersCurrentUnlessFailed` |
| `reorg` | `Reorg.cfg` | `TypeOK`, `HashVouches`, `WatchCoversWindow`, `WatchKeepsOnlyReachable`, `HoldersCurrentUnlessRepaired`, `RewindNeedsReorg` |
| `tripwire` | `Tripwire.cfg` | `CatchesUp` |
| `monitor` | `Monitor.cfg` | `LagNeverHidden` |
| `publisher` | `Publisher.cfg` | `SlotsAreStable`, `VersionNamesHash`, `ExposedIsRebuilt`, `AbsorbedIsMap`, `PublishedEventually`, `NeverServesOlder` |
| `lookup` | `Lookup.cfg` | `LookupTypeOK`, `CurrentMeansCurrent`, `QuerySlotStands`, `ListedIsFound` |
| `batcher` | `Batcher.cfg` | `TypeOK`, `HeldOnce`, `ImplementsQueryService`, `EveryQueryAnswered` |
| `limiter` | `Limiter.cfg` | `TypeOK`, `WithinRate`, `WaitIsEnough` |
| `sync_command` | `SyncCommand.cfg` | `TypeOK`, `SnapshotResumable`, `NoWorkLost`, `OkIsSaved`, `CommandEnds` |
| `ghost_after_drain` | `GhostAfterDrain.cfg` | counterexample to `PirFollowsMap` |
| `new_hash_unnoticed` | `NewHashUnnoticed.cfg` | counterexample to `NewHashIsNoticed` |
| `replay_restores_old` | `ReplayRestoresOld.cfg` | counterexample to `ReplayRestoresNothing` |

Deadlock is checked in every run but those of `SyncCommand`: `serve` never stops of itself, and
neither does its model; commands end, and when the last one has, nothing happens.

### 4.1 Bounds

* **One address** in the syncer's runs. Every operator on the map treats
  addresses separately (`SyncerProofs` proves what they return of each), and the shared state
  (cursor, range, watch) does not depend on how many there are. Two tokens
  where stamps matter.
* **`finalized`**: 4 blocks over an initial height of 1, chunks of 2: a sync of
  several chunks, a narrowed one, a pass that follows a pass; one fault and one
  restart at any await, one reorganisation above the final block.
* **`reorg`**: initial height 3, 7 blocks, window 2, chunk 3 (so that a chunk
  straddles the window's edge) and two reorganisations, the second after the
  repair of the first. The initial height is above the window, as millions are
  above 64. No faults: `WatchKeepsOnlyReachable`, `HoldersCurrentUnlessRepaired` and
  `RewindNeedsReorg` speak of runs without one (section 5 says why), while `HashVouches` and
  `WatchCoversWindow` hold through them, which section 6 proves.
* **`tripwire`**: a reorganisation at any await, one fault and one restart; **`monitor`** is
  the same with samples without end.
* **`publisher`**: two addresses (two tail slots that could be swapped), three
  changes, two faults and two restarts; `CompactAfter` = 2, so compactions
  happen by size (one new address) and by count (two).
* **`lookup`**: the same with two changes, one fault and one restart beside the
  client's unbounded requests.

* **`batcher`**: queue and batch of two and four clients, so that a batch fills while
  the queue behind it fills too and a query is refused, or only becomes possible once
  others have left; one new database, at any step. Clients come back without end.
* **`limiter`**: two clients and room for one, so every newcomer needs an eviction; two
  threads, so stamps can be swapped; six ticks, enough to empty a bucket of two queries,
  and be evicted after three, a tick before it would be full. The window opens at any tick, again and again.
* **`sync_command`**: blocks and chunks such that a range takes two chunks; two commands in
  two processes, one power failure, one tolerated attempt without progress, unlimited
  failures of calls and saves. One address: nothing relates two of them.

Every bound is a CONSTANT named in the module that has it (`Max...`); proofs
hold for all of them.

### 4.2 Fairness

`Syncer!FairSpec` is weak fairness of `Step`, the task's own code: tokio
resumes a task whose await is answered. Nothing is assumed of the environment
or of faults; with the fault, restart and reorganisation budgets spent, only the
syncer's own steps are left, and `CatchesUp` says they suffice. A block that was
read and then disappeared must end in an error for that to hold (the mutant
`WaitForBlock`).

`Publisher!FairSpec` is weak fairness of the thread, and strong fairness of
`Absorb`: between two publishes the thread receives what is queued. That is
so because `rebuild_every` is longer than a publish. It is an assumption of the
deployment, not of the code: `last_publish` is taken when the publish starts
(`src/publish/worker.rs:116`), so when a rebuild outlasts the interval (one second is
allowed, `src/cli/args.rs`) the next deadline has passed before anything is received.

`Batcher!FairSpec` is weak fairness of `Worker`: the runtime polls the worker, the
window's timer fires and a database pass ends. Nothing is assumed of clients; a stream of
them cannot hold a batch open, since it ends at `MaxBatch`.

`SyncCommand!FairSpec` is weak fairness of each process's `Step`: a command that was started is
run. Its calls may fail for ever, and `CommandEnds` says that it ends all the same.

## 5. Where code and documentation part

Three runs end in a counterexample. In each the model does what the code does and
the property is what a line of the repository says.

1. **`ghost_after_drain`**. An address that was published, drains, is funded
   again and drains again within one pass is taken by `record_removed` for one
   the PIR side never knew: the pending deletion is dropped. No fault is needed.
2. **`new_hash_unnoticed`**. A fresh hash is always version 0. The process dies
   between `.keys` and `.index` of the first compaction; the next start finds
   versions 1 and 0, discards both, builds a new hash, at version 0; a client of
   the first version 0 is told it is up to date.
3. **`replay_restores_old`**. `sync --from 1 --to 2` on a snapshot at block 3: the balances are
   read at block 2, the older value replaces the newer one, and the cursor is left at 2.
   `README.md` says that replaying an old range does not restore old balances. The
   snapshot is consistent at block 2 and can be resumed (`SnapshotResumable`), so the next
   plain `sync` repairs it; until then `lookup` and `serve` see the past.

Observations without a run of their own, all seen as counterexamples while the properties
were being stated:

* The PIR thread absorbs an address the directory did not have, the rebuild fails
  (`src/publish/worker.rs:114` logs it and goes on), and `publish_directory` writes and
  exposes the live index all the same. A client that syncs now lists the address, its slot
  has no row, and the lookup reports "not held" for an address that is, until the next
  rebuild that succeeds. `src/directory.rs:8-10`, `src/publish/checkpoint.rs:80-81` and
  `README.md:221-224` say that publishing after the rebuild prevents this: the order is
  kept, but not the condition that the rebuild succeeded. TLC finds the exposure as a
  counterexample to `ExposedIsBuilt` alone, and the missed lookup as one to `ListedIsFound`
  without its condition `rebuilt`.
* `sync_into` clears `changed` at the start of each attempt. A pass that applied a chunk and
  then failed leaves the new balance in the map and in the snapshot; the next pass starts
  after that block and has nothing to send, so the PIR database serves the old balance until
  the address moves again. `HoldersCurrentUnlessFailed` (run `finalized`) shows that a failed
  pass is the only way this happens to a holder, and does not hold without that condition.
* After a failed pass the cursor has moved and the stored hash has not; the next pass
  compares hashes of two different blocks and rewinds without a reorganisation
  (`RewindNeedsReorg` says `faults = 0`). Harmless for the balances. Nor does a failed pass
  trim what its chunks recorded; the next that ends well does.
* A repair rewinds by the whole window even when the watch, new since a start or the last
  repair, has recorded less. An address moved in a block that is unwound but was not recorded
  keeps its balance from ahead of the cursor. The pass after the repair reads that block again,
  unless the reported tip (`--confirmations 1` or more, or a branch still short) is below
  it: then the pass ends with the hash of the rewound cursor stored over a balance from ahead
  of it (`HashVouches` needs the condition on the tip in `WithinWatch`).
* The hash of the cursor block is asked for after the balances were read: a reorganisation in
  between gives the new branch's hash for the old branch's balances, and the next check finds
  nothing wrong (`HashVouches` needs reorganisations between passes).
* `collect` takes what is queued, up to `--max-batch`, before it looks at the window; so with
  `--batch-window 0` queries that arrive during a pass are pooled in the next, though
  three places say each is answered on its own.
* After a finished pass the sample's tip is the target of that pass, so `lagBlocks` is 0 until
  the next sync begins, not "about 32" as `README.md` has it for `--confirmations 32`; the
  end of the catch-up records nothing, so the lag of its beginning is shown until the first
  pass that finds a new block.
* The age is set when a sync begins, so it looks recent while every pass fails, as long as
  the target keeps being ahead.
* `sync --from` past the cursor leaves a gap that nothing marks; if the first attempt fails
  before it advances, the retry starts at the cursor and fills it.
* Two `--state` paths that differ in their extension have two locks and one temporary file.
* `follow::run` has no way to return: what follows it in `run_pir_loop` (closing the channel,
  stopping the endpoint, joining the thread) and `Rejected::Stopped` are never reached.

The models also show, without a line that contradicts it: a repair writes the
map and not `changed`, so the PIR side keeps the orphaned balance until the
address moves again; under `finalized` the watch records chunks and is never
trimmed; after a compaction, until the new directory is exposed, a client that was told
it is current can hear "not held" (`ListedIsFound` excepts a replaced hash);
a server whose first write failed serves the empty directory of version 0, against which
a client of an earlier version 0 is told it is current (`CurrentMeansCurrent` excepts it);
where a bucket refills more slowly than it is evicted, a client that is evicted gets up to
`Shortfall` units for nothing each time (`forgiven` in `WithinRate`); every restart counts the restored tail as compacted, so
the tail may grow by `compact_after` again; a second crashed fresh start can
leave keyword files of one version and two hashes, which `restore` either refuses
at every start or, if their sizes agree, accepts. In the second case the table of one hash is
served under the directory of another, and an address the client has listed is reported
as not held although both are "of the same hash": the proof of `ListedIsFound`
could not be closed there, and TLC then found the run (two crashed starts, four failures), so the
property is stated up to the second fresh start, as `CurrentMeansCurrent` is.

## 6. The proofs

All hold for every set of addresses, tokens and clients and every value of the bounds.

**SyncerProofs** - first what the operators of the map return: writing over a slot gives a
well-formed entry that carries the reading, `apply` leaves no slot behind for a zero reading and
the balances read otherwise, and pruning keeps a map without zero entries as it is. Then
`SyncerTypeOK`: `Spec => []TypeOK`. The one fact that is not
bookkeeping: a narrowed chunk never becomes 0, or the sync would stand still.

*The rewind.* `SyncerRewindNeedsReorg`: `Spec => RewindNeedsReorg`, under both tip policies.
`UndisturbedInv` says of a process that nothing has failed in and a chain that has
not branched: the cursors of map and snapshot are on the chain, a running range ends on it, and
the stored hash is that of the cursor block from the end of a pass until the next begins.
So the check finds what it stored, and of the other steps only a chunk moves the cursor.

*Finalized blocks.* `FinalizedMapExact` and `FinalizedSnapshotExact`: under
`--confirmations finalized` (the default of `follow`; `serve` has 32), the map at every await and the
snapshot file always are the chain at their own cursor. Assumed: `Finalized` and
the two constant assumptions of `Chain` and `Syncer`. Neither statement is inductive: whether the fold of a
chunk gives the chain at its end depends on what was seen between the fetch of the logs and
the reads, and on no reorganisation having got in between. The inductive invariant adds

* `RunOK`: the running chunk is a range that is not empty and does not
  pass the end of its run;
* `ChainMoves`: a block that names no event for an address leaves its balance;
* `BelowFinal`: both cursors are at most `final`, a running range starts right after
  the cursor and its run ends at most at `final`, and there is no repair; what is
  final does not reorganise (`FinalPrefix`);
* `SeenCurrent`: the touches in hand are those of the running range, on the chain
  as it is now.

An absent address at the new cursor then either had no touch in the chunk, and
by `ChainMoves` has its old balance, or had one and was read. `ApplyChunk` is the step
where all four are used; a reorganisation is harmless by `BelowFinal`.

`FinalizedStampsExact` adds `StampInv`: the stamps of the map and of the snapshot are the last
moves up to their cursors. A chunk's stamp is the last move within the chunk, and none
there leaves the older one (`LastTouchSplit`, `ChunkStamps`); a token without a
stamp has the balance 0 (`ChainMoves`, stated per token). `FinalizedHoldersCurrent` adds
`HandedOn`: what is published, once it has absorbed what the running pass has recorded, is every
holder's entry. `ChangeHandsOver` shows it of one slot: the delta of a chunk, put after those of
the chunks before it, either carries the new entry or the entry did not change.

*The monitor.* `MonitorLagNeverHidden`: `MonitorSpec => LagNeverHidden`. `ReportInv` relates
the numbers reported to the syncer's: the tip is never below the target of the last sync, the
cursor not above the map's unless a rewind went unreported, and what a sample under way has
promised to show, it still can with the cursor it loaded and the tip it may load now. A step
that moves the target up stores the tip at the same time, and a step that moves the cursor up
only lowers what is outstanding (`ObservedFits`).

**ReorgProofs** - `ReorgHashVouches` and `ReorgWatchCovers`: `WatchSpec => []HashVouches` and
`WatchSpec => []WatchCoversWindow`, for any number of addresses, of failed calls and saves and
of reorganisations that keep to `WithinWatch` (between passes, within the reach of a rewind).
Assumed: `~Finalized`, no restart (a restarted
watch is empty until its first pass; `tripwire` has restarts), and `Origin > Confirmations +
Window`, so that no rewind goes below block 1. After a repair the
map is a patchwork: a corrected address stands at the rewound cursor, any other further
ahead, at a place no two addresses need to share. The invariant `WatchInv` follows that:

* `Bounds`: how cursor, tip, the running range and the window lie to each other at each await,
  and that no stored hash is of a branch that is yet to come;
* `Clean`: every address's slot fits the chain at some block between the cursor and `Ahead`,
  the end of the pass that will read those blocks again, and the watch has every
  address that moved between the reachable block and the cursor (`Covered`); with a hash stored
  `Ahead` is the cursor, which is `HashVouches`;
* `Dirty`: a block was replaced. Then the next check cannot but notice (`Replaced`), and
  the addresses the watch does not name fit at the reachable block.

A reorganisation leads from `Clean` to `Dirty`, the repair back. A failed pass stays `Clean`
because a place ahead of the cursor stays within the next pass, and a place that a later
block overtakes is taken to the new cursor (`FitsAlong`, `CleanChunk`). `TrimKeeps`
says that the watch loses nothing a rewind can reach. A restart cannot be allowed: a block
that is replaced while the hash is known, and a process that dies before it checks, leave a
snapshot no later check doubts (the hazard at `src/follow/loop_run.rs:12`).

`ReorgWatchKeepsOnlyReachable` (assumed: `~Finalized`) and `ReorgHoldersCurrent` (nothing
assumed) need less, and allow restarts. They rest on `Steady`: a running pass never
works above the tip, since no block is replaced under it (`TipRises`), starts after the
cursor, and neither the map nor the file has an entry without a balance. `KeptInv`
adds for the first that the watch's entries are in the order of their blocks and none is
above the cursor: `trim` drops a prefix, which of a sequence in order leaves nothing
too old (`TrimInOrder`). `PirInv` adds for the second that what is published, once it has absorbed
the changes of the running pass, is the entry of every holder no repair has
changed, and that what is queued for any holder is its entry (`QueuedIsEntry`), so an
address that a repair changed is right again as soon as a finished pass has moved it.

**PublisherProofs** - `PublisherTypeOK` and `PublisherSlotsAreStable`: no
failed write, no order of restarts, and no order in which restored
addresses are appended can move an address whose slot was exposed. A directory is only exposed
once it is on disk, so the file continues every exposed directory of its hash, and
the live index does too, since it starts from the file and only appends.
The strengthening (`SlotInv`): ids are at most `builds` (a new hash is new), the file
continues what is exposed, the live index continues the file's generation
while the thread runs, and at `expose` the file is the index.

`PublisherVersionNamesHash` speaks of versions up to the second fresh start. Its invariant
adds `NothingYet` (before the first start there are no files and nothing was exposed) and
`Ordered`: every exposed directory is `Before` the `.index` file and both files are `Before`
the live index, that is of an earlier version or of the same hash; and a pair of files that
passes `load`'s check is of one hash.

`PublisherExposedIsRebuilt` adds `RebuiltInv`: unless the last rebuild failed, from a rebuild
until the exposure the served database stands at the live tail, and an exposed directory is a
beginning of the live one, or of an older hash. No other failure matters: a write that fails
exposes nothing, and a refused update is in no tail. `PublisherAbsorbedIsMap` adds `PendingInv`: the
last queued update of an address carries the map's record; if none is queued, the thread's
tables have it or the update was refused.

**PublicationProofs** - `PublicationImplements`: `PastSpec => NeverServesOlder`, so for any
number of addresses, changes, faults and crashes no record is served after a later one.
`shown` is read off the records served, so most of the invariant (`PastInv`) says where in
`past` the thread's records stand:

* `PastFits`: the past of an address ends with the map's record and what is shown is in it;
* `DownFits`: a thread that is down serves nothing and has nothing queued;
* `InOrder`: for each address there is a place in its past, not before the shown one, of the
  record the thread holds, and places of the queued updates after it in the order of the queue.

The places are not state of the model: a record may return, and `Later` takes its earliest
place, so the proof only claims that some places exist and each step names the next ones
(`QueueMoves` for an update taken, the new last place for a change). A refused
update moves no place, a rebuild or a compaction shows at most the place of what the thread
holds, and a start shows the end of the past.

**LookupProofs** - a client beside that thread: `LookupTypes`, `LookupCurrentMeansCurrent`,
`LookupQuerySlotStands` and `LookupListedIsFound`, from the invariants of PublisherProofs and

* `DirectoryInv`: what the endpoint serves is nothing or an exposed directory, and it goes on
  where every exposed one of its hash ends;
* `TableInv`: the tail of the served database is a beginning of the live one's; up to the
  second fresh start its hash and base are those of the live index;
* `BuiltInv`: up to the second fresh start, and unless the last rebuild failed, the served
  database has rows for the whole tail of every directory ever exposed of its hash;
* `ClientInv`: up to the second fresh start the client's directory, and the one a pending query
  went by, are a beginning of one that was exposed (`Kept`), although they were put together
  from answers of different moments; and the slot of a pending query stands.

Two directories of one version are then of one hash (`Ordered` of PublisherProofs), so equal
lengths make them equal, which is `CurrentMeansCurrent`. A slot the client has listed is a slot
of an exposed directory (`Kept`), so it has a row (`BuiltInv`), and the row at that slot is of the
same address, since both tails are beginnings of the live one: that is `ListedIsFound`.
`QuerySlotStands` is one case each for the two ways a copy changes: a full directory drops the
query, a tail is appended (`FetchedCopy`).

**BatcherProofs** - `BatcherTypeOK`, `BatcherHeldOnce` and `BatcherImplements` (`Spec =>
ImplementsQueryService`). The invariant `BatchInv` is `TypeOK`, `HeldOnce` and `ResultsFit`:
between the pass and the replies the results stand beside the batch, from one
database no older than any query in it. `HeldOnce` makes a query's position in the
batch unique, so pairing by position gives each its own result whoever has left; the
theorem follows step by step from there (`ServiceStep`).

**LimiterProofs** - `LimiterTypeOK`, `LimiterWithinRate` and `LimiterWaitIsEnough`, for every
rate, burst and eviction time (all positive), and `LimiterForgivesNothing`, which assumes that a
bucket is kept for as long as an empty one takes to fill: then `forgiven` stays 0, and
`WithinRate` is a burst, the rate and the skew. The invariant `LimiterInv` adds to the types

* `StampsPast`: no stamp is ahead of the clock;
* `Accounted`: up to the time its bucket was last refilled, what a client was let through in
  the window and what its bucket still holds are at most a burst, what the time earned, and
  what stamps that came late earned twice; a client the table has forgotten had earned a full
  bucket by then, but for the `Shortfall` put down to its eviction, which is why it may be
  given one when it returns;
* `PromiseStands`: at the earliest moment promised the bucket will hold one query's cost.

`WithinRate` alone is not inductive, since it says nothing of what the bucket still holds.

**SyncCommandProofs** - `SyncCommandSnapshotResumable`, `SyncCommandNoWorkLost`,
`SyncCommandOkIsSaved` and `SyncCommandTypeOK`, for every number of processes, failures and
outages. Assumed: bounds are numbers, and neither a missing nor a torn file is a
map. The invariant `SyncInv` adds

* `Held`: who runs holds the lock, so one process runs at most;
* `FilesWhole`: the snapshot as processes see it and as a power failure would leave it are
  both whole, since the rows are synced before the rename;
* `RangeFits`: what is left of a range starts behind the map's cursor, everything between the
  two is known to be left out, and once the range is done the cursor is at its end;
* `JobFits`: the map in memory has missed nothing, the file is what this process loaded or
  saved last, and a save that was not refused left them equal.

Only model-checked: what needs fairness (`CatchesUp`, `PublishedEventually`,
`EveryQueryAnswered`, `CommandEnds`), since fairness and ENABLED are out of the prover's reach.
Every invariant and every action property of the passing runs is proved for every
value of the constants.

## 7. Plan

1. *Done*: map, chain, syncer, reorg watch, publisher, lookup, batcher.
2. *Done*: limiter, sync command with snapshot file and lock, progress, and the served view as
   an abstract specification of publishing; the proofs of limiter and sync command.
3. *Done*: that Publication implements ServedView, proved.
4. *Done*: `HashVouches` and `WatchCoversWindow` under `WatchSpec`, proved.
5. *Done*: the client's properties, the lag a monitor sees, the rewind, and what watch and PIR
   side hold in the confirmations mode, proved.
6. Left: `HashVouches` with restarts, under the condition that no replaced block is
   unnoticed when the process dies.

### Not modelled

Byte formats and checksum arithmetic (round-trip tests cover them), the
cryptography and the index of eth_pir (another repository), the preflight of a start
(section 3), argument parsing, the commands that only read a snapshot
(`lookup`, `stat`, `sample`), static files, the page's layout, scripts.
