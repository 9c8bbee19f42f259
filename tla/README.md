# Specifications of gowaves

This directory holds TLA+ specifications of the Waves node written in Go
(`src/`), the TLC configurations that check them on small instances, and proofs
that TLAPS checks for instances of any size. The specifications are translated
from the source; `PROJECT.json` names for every definition the lines it stands
for.

The models are about what is concurrent, interruptible or order-dependent in the
node: the event loop and its state machine, the goroutines around it, the ledger
they write to and how it is stored, block generation, connections, and the pool of
unconfirmed transactions.

## 1. The system

A node keeps a blockchain and a key-value state derived from it. It learns of
blocks and transactions from its peers, chooses between forks by their score,
mines key blocks and microblocks itself (Waves-NG) and answers API requests.

| Component | State | Operations | Interacts with |
| --- | --- | --- | --- |
| Event loop (`pkg/node/node.go`) | the current FSM state | `Run`: one event at a time from four channels | everything below |
| State machine (`pkg/node/fsm`) | Idle, NG, Sync, Persist, WaitSnapshot, WaitMicroSnapshot, Halt; synchronization session; cache of block versions; skip list | one handler per event; a handler may return a new state, asynchronous tasks and an error | storage, peers, scheduler, pool |
| Asynchronous tasks (`fsm/tasks`) | timers, a channel of ten results | Ping, AskPeers, MineMicro, PersistComplete, SnapshotTimeout; dropped when the channel is full | event loop |
| Network goroutine (`pkg/node/network`) | reads `SyncPeer`, which the state machine writes | connect and error notices of connections; sends StartMining, StopMining, StopSync, ChangeSyncPeer | peer manager, event loop |
| Peer manager (`pkg/node/peers`) | active and spawned peers by ID, suspended and black-listed peers, scores | spawn, accept, register within limits, disconnect, restrict, choose the best peer | connections, network goroutine, event loop |
| Block applier (`pkg/node/blocks_applier`) | none of its own | check, roll back, add, restore | storage |
| State manager (`pkg/state/state.go`, `threadsafe_wrapper.go`) | blocks, entities, heights; one flag for writers | addBlocks, RollbackTo(Height), Map, reads | files, database |
| Block files (`blockreadwriter.go`) | transactions, headers, IDs; where the protobuf format begins | write, flush, truncate, `syncWithDb` at start | database |
| Histories (`history_storage.go`, `history_formatter.go`) | records per entity valid by block number, rollback window | add an entry, filter, cut, read at a height | database |
| Key-value storage (`pkg/keyvalue`) | LevelDB, cache, Bloom filter and its file | Get, Has, Put, Delete, batches, open, close | block files, histories |
| UTX pool (`pkg/miner/utxpool`) | heap, IDs, accounted size | Add, Pop, Clean | API, state machine, micro miner, cleaning goroutine |
| Miner, micro miner, scheduler (`pkg/miner`) | timers for the next block | Reschedule, MineBlock, MineMicro | state machine, pool, storage |
| Connections (`pkg/p2p`) | goroutines and queues of a connection | handshake, send, receive, report an error, close | network goroutine, event loop |
| API (`pkg/api`, `pkg/grpc`) | none | reads, broadcast, debug rollback | storage, event loop |
| Consensus, transactions, RIDE, serialization, cryptography | none | pure or sequential calculations | state manager |

What is hard here:

* A handler that fails part-way returns a new state together with an error. The
  state machine then changes state but skips the entry action.
* Notices and task results are decided on by one goroutine and received by
  another, later, after the state has changed. The channel of task results drops
  what does not fit; the channel of notices blocks its sender.
* A reorganization is a rollback followed by an addition, with the removed blocks
  in memory only. It may fail, the process may die, and the debug API may roll
  back in between.
* The cleaning of the pool validates without the mutex what it removes under it.
* An addition of blocks writes the files before the database, a rollback the other
  way round, and histories are rewritten beside the batch. A crash or an error may
  come between any two writes.
* Timers, emits, mined blocks and micro mining tasks name a block that need not be the
  top when they arrive.
* Connections are objects, peers are IDs: two connections to one host share the
  entry of the peer manager, and notices about the one arrive when the other is in it.

What makes the components correct:

* Pool: no transaction twice, size and IDs account for the heap, only what was
  validated is removed, the flag of the cleaning never sticks.
* State machine: the shared `SyncPeer` is the session's peer, every state hears
  the messages it needs, a session and a wait state are never left without
  something that ends them.
* Ledger: always a valid chain; changed only for a chain with a higher score,
  by a microblock, or by order of the operator; restored when a fork turns out to
  be invalid; never shortened below what histories need.
* Storage: whatever was interrupted, the stored chain reads back from the files, reads
  of entities return what the blocks of the chain wrote, no record of a removed block
  becomes visible again, and cache and filter are invisible. Where the code falls short of
  this (protobuf info, a filter file left in place), section 5 says how.
* Miner: generation does not stop by itself, own blocks keep within their limit,
  no transaction is lost between the pool and a block, or in both.
* Peers: limits hold, what is registered is open and what is open is registered, no
  address stays marked as being dialled.

`PROJECT.json` lists the hazards that properties are about, with their lines; section 5 has
others that were met on the way.

## 2. Modules

| Module | Models | Extends |
| --- | --- | --- |
| `UtxPool` | pool and cleanings | |
| `Network` | network goroutine, active peers | |
| `NodeFSM` | event loop, state machine, tasks, session | `Network` |
| `Chains` | blocks, chains, scores | |
| `ForkChoice` | what the ledger promises (abstract) | `Chains` |
| `BlocksApplier` | handlers that change the ledger, applier, storage writes, API rollback, crash | `Chains`, refines `ForkChoice` |
| `BlockStorage` | block files, protobuf info, database batch, restart | |
| `HistoryStorage` | histories of entities, block numbers, rollback window | |
| `KeyValue` | what the key-value storage promises (abstract) | |
| `KeyVal` | cache, Bloom filter and its file, batches, restart | refines `KeyValue` |
| `Mining` | scheduler, miner, micro miner and the handlers between them | |
| `PeerManager` | peer manager and the goroutines of connections | |
| `MC...` | instances for TLC | the module of that name |
| `..._proofs` | theorems | the module of that name |

`BlocksApplier` sees an addition or a rollback as one step of a storage that
survives crashes; `BlockStorage` opens that step for the files, `HistoryStorage` for
the entities and `KeyVal` for the database below both, which they take to be a map
with atomic batches, as `KeyValue` promises. `NodeFSM` takes mined blocks and
connections as inputs; `Mining` and `PeerManager` are about where these come from.

Definitions named `X_Something` are mutants of `X`, plausible mistakes that a
property has to notice. No specification uses them.

### UtxPool

`transactions` is the set of heap items, each with a serial number that stands
for the pointer; `transactionIds` and `curSize` are the fields of `UtxImpl`.
`Add` is `AddWithBytes`, `AddWithBytesRaw` and `Add`, `Pop` takes an item with
the best fee per byte. `CleanUtx` and `CancelCleanUTX` are the two methods of
`BaseInfo` that the event loop calls. A cleaning is a process: `Validate` (the
early end without transactions or when the last block is old), `TakeSnapshot` under
the mutex, `Check` of one item at a time with the context checked before each,
`RemoveDropped` under the mutex, and the deferred function split where the
code can be interrupted: `Defer` reads the context, `Store` clears the flag.
The model keeps that `Clean` touches neither `transactionIds` nor `curSize`.

### Network and NodeFSM

`Network` splits the handling of one notice at each send to `networkInfoCh`,
because the goroutine blocks there and reads `SyncPeer` between two sends.
`NodeFSM` has one action per handler, named by the state and the event
(`SyncBlock`, `NGMinedBlock`, `WaitTask`...). `Become(s, err)` is
`createPermitDynamicCallback` with the entry action: with an error the state
changes and `skipList`, the name of the state whose list is installed, does not.
The events that a state permits, and the messages that it skips, are the sets
`...Events` and `...Skip`.

The session is `confPeer`, `waiting` (for block IDs), `requested`, `gotBlocks` and
`gotSnapshots`; `stalled` says that the timeout has passed. Task results pass
through `tasksCh`, which drops what does not fit; `lost` remembers that the
completion of the current state was dropped. Whether a score is higher, a
block valid or an ID known depends on the ledger and is left open. Any peer may
send any message at any time, since messages read before a list was installed
are delivered after it.

### Chains, ForkChoice and BlocksApplier

A block has a parent, a score and a verdict of the state manager; a microblock is
a new version of a block (`Base`) with the same parent. `ForkChoice` allows three
changes of the ledger: `Adopt` a chain with a higher score that branches off no
deeper than the limit, `ReplaceTop` by its next version, `Cut` from the top
(API, or a crash in a reorganization, or a failed restoration).

`BlocksApplier` is a process that runs one handler at a time: `SyncBatch`,
`MinedBlock`, `MinedBlockInSync`, `Block`, `MicroBlock` and `MineMicro` start one;
`Exists`, `CachedRollback`, `CachedApply` (the cache of NG), `Snapshot` and
`SnapshotTimeout` (light node), `MicroTop`, `Lock` (`Map`), `CheckRefuses` /
`CheckAccepts`, `RollbackToHeight`, `AddDeserializedBlocks`, `Restore` and
`Applied` / `Refused` are its steps. `held` is the writer flag of the thread-safe
wrapper: handlers inside `Map` keep it, the others take it for each call.
`ApiLock` and `ApiRollback` are an HTTP goroutine, `StorageFails` an error of the
storage at any call, `Crash` the end of the process, after which `chain` and
`minHeight` are left. `before` and `calm` are history variables: the ledger when
the handler started, and whether nothing interfered since.

A call of `addBlocks` or of a rollback is one step here: what happens inside of
it belongs to the modules of the storage.

### BlockStorage

`file` and `buf` are the three files and their writers as sequences of cells (two
cells for a long ID, one for a short one, so that an offset computed with a wrong
protobuf info hits the wrong cell); `rw` are the counters of `blockReadWriter`, `db`
what the database holds (height, metas, rollback window, protobuf info), `batch` what
the unflushed batch says of that info. A block is the sequence of contents from the
genesis to itself. `Open`, `WriteGenesis`, `FlushGenesis`, `ApplyPreActivatedFeatures`,
`SyncWithDb` and `FinishOpening` are the start; `ProcessBlock`, `FlushFiles` and
`FlushDB` an addition, `AddBlocksFails` its failure at any point with the deferred
reset and `syncWithDb`; `Rollback` and `RollbackFails` a rollback; `Crash` keeps
any prefix of what the writers held. Whether BlockV5 is active follows from
the votes in the blocks, as `features.go` counts them. `misled` is a history variable: a
flush has stored blocks by a wrong protobuf info, that is, one of them was written in the
format of the other side of the activation, or the storage goes by an info that the
database does not get (`StoresByWrongInfo`). The code allows both (finding 2). The
properties hold up to that flush, also while the memory has a wrong info and nothing has
been stored by it, and exploration ends there (`NotMisled`).

### HistoryStorage

`hist` are the histories in the database, `stor` those of `localHistoryStorage`,
`batch` those flushed into the batch. `AddBlock` gives a number and takes what the
block will write into `todo`; each `AddNewEntry` is one write of a transaction;
`UpdateHistory` is a read that filters and cuts and writes the result at once;
`FlushHistory` moves one key to the batch, `FlushDB` writes it. `AddFails` and
`Crash` may come at any point. `Open` takes the amend flag of the process and
merges it with the stored one.

### KeyValue and KeyVal

`KeyValue` is a map with a batch. A read returns the present value or fails; only of a
`doubtful` key may it return anything else. A failed read may make its key doubtful, and
so may, for any key, a start that follows a faulty one (`risk`); a write ends the doubt.
`KeyVal` has LevelDB, the cache (which may drop an entry at any time), the Bloom filter
(which may take an unknown key for a known one) and the file with its temporary; opening
and closing are split at every file operation and a crash may come between them. Reads of
LevelDB may fail, saving the filter may fail, and loading it may fail with the file gone or
still there (`LoadFails`). `left` is a history variable: the file, or the filter loaded from
it, may be behind the database because a load has left the file in place. The mapping takes
as doubtful the keys that the filter hides and those whose cached value is not the one in
the database.

### Mining

`timers`, `firing` and `mine` are a timer that runs, one that is over and has
not sent, and the channel to the miner; `miner` is the emit that the miner's goroutine
works on, `internal` the channel to the event loop. `Reschedule` is a part of each
handler that calls it. `micro` is a call of `Micro`, which pops one transaction per
step (`Inapplicable`, `Applicable`, `CommitmentError`); tasks carry the limit that is
left. `Submit`, `NGBlock`, `NGMicroBlock`, `Score`, `SyncApplied`... are what else
happens to the node. The histories `refused`, `seen` and `left` are read by
properties only.

### PeerManager

A connection is a slot that is used again once its goroutine has ended and nothing
refers to it. `SpawnOutgoing`, `Connect` (of the API), `Accept`, `Established`,
`Fail`, `ReportError`, `HandleEnds` and `RemoveSpawned` are its goroutine;
`HandleConnected`, `CountDirections` and `AddConnected` are `NewConnection` in the
network goroutine, split where it releases the lock; `HandleInternalErr` and
`RestrictPeer` (suspension by the event loop) close and unregister by ID.
`evicted` and `early` record the two exceptions that the code leaves (section 5).

## 3. Runs

| Run | Configuration | Distinct states | Shows |
| --- | --- | --- | --- |
| `utx_pool` | `UtxPool.cfg` | 382 938 | with two cleanings at a time, the pool never holds a transaction twice or more bytes than accounted, removes only what was there at the snapshot, and the flag is cleared |
| `fsm_full` | `NodeFSMFull.cfg` | 181 806 | full node, two peers, storage failures: `SyncPeer` agrees with the session, no batch is left for StopSync, silent and broken peers are left |
| `fsm_light` | `NodeFSMLight.cfg` | 293 314 | light node: skip lists serve the states, sessions and waits have something to end them and end, NG hears blocks again after a failed entry |
| `blocks_full` | `BlocksApplierFull.cfg` | 155 292 | full node: valid ledger, right decisions, restoration, bounded loss by a crash, refinement of `ForkChoice` |
| `blocks_light` | `BlocksApplierLight.cfg` | 365 304 | a refused fork leaves the ledger as it was, also when blocks come with snapshots; returning to a cached version of a block never costs more than one block |
| `blocks_lock_panic` | `BlocksApplierPanic.cfg` | violation | the debug API can make the writer flag panic (finding 1) |
| `keyvalue` | `KeyVal.cfg` | 92 214 | filter and stored filter know every key but for what a load has left in place, refinement of `KeyValue`, with errors of LevelDB and of the file |
| `block_storage` | `BlockStorage.cfg` | 664 460 | across the activation of protobuf, with empty blocks, crashes and failures, the stored chain reads back and the activation is not missed, until blocks are stored by a wrong info |
| `storage_dropped_info` | `BlockStorageDroppedInfo.cfg` | violation | a refused empty block at the end of the activating period leaves protobuf info in memory that is never stored (finding 2) |
| `histories` | `HistoryStorage.cfg` | 1 221 398 | reads at every height of the window, of stored and of new blocks, agree with the chain; removed records stay removed |
| `mining` | `Mining.cfg` | 1 822 346 | own blocks fit their limit, transactions are in one place, generation goes on |
| `peers` | `PeerManager.cfg` | 873 264 | limits, spawned entries, and that registered and open agree but for two exceptions |

`DecisionsMatchReference` compares the sequence of checks, spread over the
handlers, the applier and the storage, with one formula about the best chain:
the blocks are applied exactly if a chain that ends in them branches off the
ledger within the allowed depth and has a higher score. For NG's Block the
ledger ending in a cached block counts as well.

### Bounds

* Pool: three transactions of different sizes and fees with a limit that does not
  hold all of them, three additions (so that a transaction is popped and added
  again), two cleanings. A third cleaning would only repeat what the second does
  to the first. In the pool's model the additions are bounded, so a run of it may
  come to an end; deadlock is not checked there.
* State machine: two peers are a session's and another one; two blocks make a
  full batch of two and a last batch of one. Channels of one or two places are
  full often; a longer channel only delays. `MaxMineTimers` and `MaxPersistJobs`
  bound tasks that a node could start again before the earlier ones ended; two
  jobs are enough for an abandoned one to report to a later state. The light node
  has one peer and one block: its waits do not depend on more.
* Ledger: the tree has twelve blocks beside the genesis block: a main branch of four,
  versions of two of its blocks that microblocks make, a key block on an earlier
  version, a fork that is heavier than two blocks of the main branch, ties with
  three and loses against four, and two invalid blocks. With `MaxRollbackDelta = 2` and `RollbackMaxBlocks = 3`
  forks below, at and beyond both limits are possible. One API rollback and one
  crash may come at any point.
* Block files: heights up to seven, packs of two, a voting window of two and
  rollbacks of two blocks: both sides of the activation, its removal by a rollback and a
  second activation happen. Blocks are empty or have transactions of one size, so that the
  transactions end at the start of the protobuf ones with and without the block before it.
  States after a flush by a wrong info are checked and not explored further; the
  properties say nothing about them. The properties were also checked with sizes 0, 1
  and 2, with rollbacks of four blocks and packs of three, and with BlockV5 preactivated.
* Histories: one key whose history is cut and one whose is not; blocks write
  nothing, to the uncut key once, or to the cut key twice. Heights up to six
  with rollbacks of two blocks move the window several times, eight numbers let a block
  be removed and added again.
* Key-value storage: two keys, a value and the empty one.
* Mining: three transactions of sizes 1, 1 and 2 with a limit of 2, so that one
  fills the block; two are in the pool early. One account, channels of capacity one,
  three versions of blocks; a fourth only repeats what the third did to
  the second. Blocks of other nodes hold no transaction of the pool, each transaction is
  submitted once, and Sync is left for NG only with a new block (`sync_state.go:149` also
  leaves it without one; the same states are reached through Idle). The model is bounded, deadlock is not checked.
* Peers: two hosts, of which one declares its address; two outgoing and one incoming
  connection to the first, one outgoing to the second, a limit of one per direction and
  room for two notices. Three connections with one ID are enough for a notice about
  the first to arrive when the second is registered and the third is dialled. With one
  incoming connection the incoming limit is never reached; `LimitsHold` proves that half
  for any number. Closing the peer manager at Halt (`halt_state.go:28`) is left out.

Symmetry is used in `mining` and `peers` for transactions and connections of the same
kind; `ScheduleGoesOn` does not mention transactions. A view in `mining` leaves
`refused` out, which no action and no invariant reads; the action property reads its value
after the step only, which TLC evaluates for every step before it looks the state up. A view in
`keyvalue` leaves the last answer out for the same reason.

### Fairness

* `UtxPool`: weak fairness of every cleaning. It blocks on nothing but the mutex, which
  its holders release.
* `NodeFSM`: weak fairness of receiving task results and notices. The loop blocks
  only when no channel has anything, and `select` picks among the ready ones at
  random, so none is passed over for ever. Weak fairness of the network goroutine
  in the middle of a notice (not of receiving one: peers need not fail), of the
  timeout of the current wait state and of persisting jobs, which end by themselves.
  Strong fairness of the Ping of the ticker when the channel has room: the loop
  empties the channel again and again and ticks do not always meet it full. No
  fairness of peers: no message is ever owed to the node.
* The other modules state no liveness. `ScheduleGoesOn` says as an action property
  what liveness rests on there: no step takes the last trigger away.

## 4. Proofs

All theorems are of the form `Spec => []P`, `Spec => [][A]_vars` or, for a
refinement, `Spec => AbstractSpec`, some with a hypothesis on the behaviour that is named
below, and hold for every value of the constants under the
named assumptions of the modules (`UtxAssumption`, `NetworkAssumption`,
`NodeFSMAssumption`, `ChainsAssumption`, `VersionsAssumption`, `BlocksApplierAssumption`, `KeyValAssumption`,
`MiningAssumption`, `NothingAssumption`, `PeerManagerAssumption`,
`HistoryAssumption`, `NoDataAssumption`, `BlockStorageAssumption`, `NoBlockAssumption`), which only give types, tell `nil` from other values and, for
`VersionsAssumption`, say that versions of a block do not complete one another in a
circle (each names the one before it by a hash).

**UtxPool_proofs.** `TypeCorrect`, `PoolHasNoDuplicates`, `FlagCanBeCancelled`,
`CleaningRemovesOldItems`, `PopDoesNotPanic`. `NoDuplicates` is not inductive alone: an addition has
to know that its serial number is new, and a removal that what it removes is old.
`IInv` adds that serial numbers in the heap have been handed out
(`SerialsHandedOut`) and that what a cleaning holds is not younger than its
snapshot (`SnapshotIsOld`). `BytesAccounted` carries `NoPopPanic`: the bytes of the heap
never exceed `curSize`, which `Clean` lets fall behind in one direction only. The size of the heap is
the number of its bytes (`BytesOf`), so that what an addition or a removal does to
it follows from the cardinality of unions and needs no induction.

**NodeFSM_proofs.** `TypeCorrect`, `SyncPeerIsTheSessions`,
`NoBatchLeftForStopSync`, `SkipListIsServing`, `SessionAwaitsSomething`,
`WaitsAreGuarded`. The machine has some thirty handlers; lemma `Moves` shows that
each of them makes one of seven moves on state, skip list and session (stay,
keep, leave, start a session, request, receive, drop a batch). `MachineInv` is
shown inductive for the moves: `SyncPeerAgrees`, nothing left over of a session
outside of Sync, `NoPoppableBatch`, and `ListFits`, which says which lists may be
installed in which state. The list of a state can be left over from the
previous one, so `SkipListServesState` needs that finer relation.
`SessionAwaitsSomething` and `WaitsAreGuarded` assume that the storage does not fail:
`BatchLost` and the error of Height in a wait state are the exceptions.

**BlocksApplier_proofs.** `TypeCorrect`, `LedgerIsValid`, `WindowIsOnChain`.
Lemmas about chains (a prefix of a chain is a chain, a chain extended by linked
valid blocks is one) carry the ledger; lemma `StorageSteps` shows that every step
leaves the storage alone, cuts it inside of the rollback window or extends it.
`LedgerInv` conjoins the facts about the storage (`StoredInv`) and the types of what a
handler keeps in memory (`VolatileInv`). The storage checks every height and
every parent itself, so the ledger stays valid even when an API rollback has made
what the handler remembers out of date.

The same module has theorems about what a handler does to the ledger: `CachedRollbacksAreShallow`, `SavedBlocksComplete`,
`RefusalsRestore`, `CrashesLoseLittle`, `LedgerFollowsForkChoice`, `DecisionsAreRight`. No block is in a chain twice (by the first
repetition), so a height read before a rollback is still that block's after it. `WorkInv` has
five parts: what a request looks like at each step (`HandlerInv`), what a microblock
still knows of the top after the API may have cut it (`MicroInv`), that what is left and what is
saved make a chain (`PlanInv`), how the ledger differs from what it was (`HistoryInv`), and
that the cache fits the ledger (`CacheInv`). The last one is the hard one: that parents of
cached blocks are near the top (`Shallow`) is not preserved by a rollback followed by an
addition unless a parent that has left the ledger cannot come back. It cannot because it is
an older version of a block of which ledger and cache hold newer versions only (`Outdated`),
and versions only become newer (`VersionsAssumption`); also all such parents on the ledger
are one block (`OneParent`).

`LedgerFollowsForkChoice` is the refinement of `ForkChoice`. Seen through `before`, a handler
makes its step when it ends, is interrupted by the API or dies, so `ForkInv` says of every
point of it that the ledger, and each prefix to which the API may cut it, can be reached from the
ledger at the start in one step of `ForkChoice` (`AllCuts`), and that what is to be
added outscores what was there. `Score` is a recursive function; that it is additive is
shown by the least prefix for which it is not.

`DecisionsAreRight` is `DecisionsMatchReference`. `CalmInv` says what an undisturbed
handler knows at each step; where it decides, the checks it has passed or failed
are turned into a chain that the reference adopts, or into a proof that there is
none. It assumes that a batch is not longer than the rollback window (`MaxBatch <= RollbackMaxBlocks`) and that the window has at least
two blocks: nodes list 100 IDs at most (`actions_by_type.go:120`, `:148`) and the
window is 2000 blocks (`state.go:34`). A longer batch would move the window above the block
it branches off.

**KeyVal_proofs.** `TypeCorrect`, `FilterIsComplete`, `StoredFilterIsNeverStale` and `Refinement`, without
a hypothesis: errors of LevelDB and of the filter's file are part of the specification. The filter needs
the file and the file the filter: the inductive invariant adds to the two properties that no file to trust is there while the
database may be written but one that was left, and that a temporary about to be renamed knows
what the filter knows (`FilesAreHandled`).

**Mining_proofs.** `TypeCorrect`, `GenerationGoesOn`, `TransactionsAreConserved`,
`OwnBlocksFit`. `Typed` adds to the types that the counters of `Micro` stay within its task. `Conserved` adds
that every transaction seen is in a place (`Counted`) and in no two (`OnePlace`), stated
for the five places pairwise, which is what the steps preserve one at a time. `Limited` is for
the size of own blocks: a task and the call of `Micro` that works on it fit after the version
they are for (`TasksFit`, `MicroWithinLimit`), also when the top has been rolled back to an
earlier version in between, because versions only grow (`IdsOrdered`).

**PeerManager_proofs.** `TypeCorrect`, `EverySpawnedHasOwner`, `RegisteredAreOpen`,
`OpenAreRegistered`, `LimitsHold`. `Registry` is inductive: a connection is announced at most
once (`AnnouncedOnce`), registered under its host (`Hosted`), an ended one is
referred to by nothing (`Vacant`), and where its goroutine is agrees with what has been
said of it. `LimitsHold` needs that the count in `net` is not outdated by anyone
but the network goroutine: others only remove.

**HistoryStorage_proofs.** `TypeCorrect`, `ChainIsNumbered`, `RemovedNeverReturns`,
`HistoriesTellTheChain`, `NewestTellsTheChain`. `IInv`
says that all numbers in use, in histories, batch and memory, are below the
next one (`Numbers`), that every block of the chain has a number (`Known`) and
that there is something to write only while a block is added (`TodoFits`). What `Filter`
and `Cut` return is defined by the least index with a property; a lemma by least
counterexample (`LeastNatural`) shows that it exists.

For what reads return, `Good(s, n, num, val, W, m)` says that the first `n` records of a
history are those of the blocks at heights `W`, with ascending numbers, and that one may be missing only
behind a newer one below height `m`, as `cut` leaves it. Lemmas about `Good` say what filtering,
cutting, appending, joining and removing blocks do to it, and that a read or a range of
reads in a good history finds the last writer up to each height. `HInv` adds to `IInv` that
IDs, numbers and the valid ones are those of the chain, with numbers that grow with the
height (`Chained`); that a process that removes blocks filters, and so does every later one
(`Ordered`: without it a record of a removed block would be read); and that stored histories,
up to an invalid tail, those in memory and those in the batch are good for the stored chain,
the blocks being added, and both.

**BlockStorage_proofs.** `StoredChainAlwaysReadsBack`, `CountersAlwaysMatchFiles` and
`OnlyTwoThingsMislead`, with BlockV5 preactivated or voted
for. `BInv` says that there are a chain, an offset for each of its blocks and
an edge, the height after which blocks are protobuf, for which the storage
stands (`StandsFor`): the files hold the blocks up to the height in the database, each at its
offset and in its format (`Holds`), possibly with more behind them that `SyncWithDb` will
remove; the buffers continue them (`Counted`, `Full`); the metas are those of the chain; and the
protobuf info of the database `Fits`, that is, it is the one of the stored blocks or of an
activation above them that the next batch removes, or it is `Pending`, preactivated and not
yet put. The edge is needed because offsets of headers and transactions mean different files on
its two sides. One lemma per action shows that `BInv` is kept.

The theorems have two hypotheses about a behaviour. `InfoKept`: no failed operation has dropped
the protobuf info of the batch. `EdgeHasTransactions`: the last block before the first
protobuf block is not empty, because `rollback` compares sizes of the file of transactions to
tell that the activation is undone. The code guarantees neither, and where one fails the
storage can be misled (finding 2). `OnlyTwoThingsMislead` says that there is no other way:
under both, `misled` stays false, so the other two theorems hold without their exception. What
the properties say between the failure of a hypothesis and the flush that stores blocks by a
wrong info is model-checked (`block_storage`).

Only model-checked: liveness (fairness and `ENABLED` are out of the prover's
reach), `ActivationIsNotForgotten`, and `BlockStorage` after a failed operation has dropped
protobuf info or an empty block has ended the activating period.

## 5. Findings

With a run that shows the violation:

1. `lock` (`pkg/state/threadsafe_wrapper.go:564`): a debug rollback of the API
   that meets a write of the event loop, or the other way round, panics. The
   comment says that this never happens because one thread writes.
2. `setProtobufActivated` (`pkg/state/blockreadwriter.go:1013`) and `rollback` (`:946`): an
   empty block ends the activating period and is refused or its addition fails. The batch with the
   protobuf info is dropped; the flag in memory stays, because the transactions end
   exactly where the info says that protobuf begins. The block, when added again, is
   written as protobuf before that start, and the info is never stored, because the flag is
   set already. The next start finds no info and a protobuf header. With BlockV5
   preactivated a failed first addition does the same, whatever the sizes of the blocks
   (`Preactivated = TRUE`).

Seen while modelling, each reachable in the models or at the line named, without a
run of their own:

* `Clean` (`pkg/miner/utxpool/pool.go:119`) leaves the IDs and the bytes of what it
  removes: such a transaction can never be added again, and the pool slowly becomes full
  of nothing.
* `CleanUtx` (`pkg/node/fsm/fsm.go:123`): a finished cleaning that passed the check of
  its context clears the flag of the next one, so that two run beside each other.
* `Get` (`pkg/keyvalue/leveldb.go:222`) caches the empty value that comes with a
  read error; the key reads as empty until it is evicted or written.
* `load` (`pkg/keyvalue/bloom_filter.go:193`, `:197`) fails and leaves the file if it cannot be read
  or cannot be removed, and `initBloomFilter` goes on with a rebuilt filter. Writes
  followed by a crash or a failed save then make the next start trust the old file: keys
  written in between are not found. `Close` saves that filter, so clean restarts keep the
  fault; a crash, or a failed save, makes the following start build the filter
  anew. A clean `Close` of the process whose load failed replaces the file and does no harm.
* `rollback` of the block files (`blockreadwriter.go:946`) keeps the protobuf info if the
  block that ended the activating period is empty, also when that block is removed by a
  rollback; the format of the next block is then
  wrong. `removeProtobufInfo` (`:916`) is deleted in the database with the next batch
  only, and a failed addition or rollback drops that removal with the batch. The database
  then keeps the info of an activation that is undone. If later blocks are larger, so that
  reopening after a crash does not take it for undone either, blocks below
  the activation are written as protobuf. Replacing the comparison by `<=` is no remedy: a rollback
  to the last block before protobuf would forget the activation (`RemoveProtobufInfo_AlsoAtStart`).
* A crash after the genesis block is stored and before the preactivated
  features are (`state.go:575`) leaves a state without them for good.
* A rollback deeper than the window leaves histories cut above the range of
  the generating balance (`history_storage.go:772`, `balances.go:777`).
* After a commitment error `Micro` resets its count and lists but not `binSize`
  (`micro_miner.go:113-131`): the microblock is smaller than it could be. It may also
  hold one transaction more than `maxMicroblockTransactions` (`:81`).
* Transactions of a microblock that `ApplyMicro` refuses (`ng_state.go:306`), or of an own
  block that is replaced, do not return to the pool.
* A MineMicro task that arrives outside of NG ends micro mining of the block. A mined
  block that fails in Sync (`sync_state.go:214`) or arrives in Persist
  (`persist_state.go:86`) or in a wait state of a light node, and an error of
  `MineKeyBlock` (`miner.go:123`), are not followed by `Reschedule`.
* The late error of a connection refused as a duplicate unregisters the live
  connection of that host (`peer_manager.go:409`): the check for
  `ErrPeerAlreadyConnected` (`network.go:136`) looks at the error of the connection, which
  is never that one. The live connection goes on unseen by the manager.
* A connection that the event loop closes before the network goroutine registers it
  stays among the active peers (`peer_manager.go:511`).
* A timeout of an earlier wait state that is already in the channel ends a later wait of
  the same kind (`wait_snapshot_state.go:75`). The wait states ignore Halt, and the loop
  completes the Halt message all the same (`node.go:184`).
* NG's Block of a full node returns with an empty cache (`ng_state.go:205`): a key
  block that refers to an earlier version of that block is refused. A light node
  caches its own blocks without a snapshot (`ng_state.go:121`), with the same effect.
* The handshake of an outgoing connection has no deadline (`outgoing.go:99`): a silent host
  keeps its address among the spawned ones.
* The peer storage changes its map before a save that may fail (`cbor.go:506`), although
  `AddToBlackList` promises strong guarantees (`:355`).

## 6. Plan

Left to do:

1. The files of the peer storage (known, suspended, black-listed) with their failed saves
   and crashes, and the selection of the best peer by groups of scores.
2. The queues of a connection, composed with `PeerManager` and `Network`: who waits for
   whom when `EachConnected` sends with the mutex held.
3. The wait states of a light node in `Mining`.
4. Proofs: the properties of `BlockStorage` without its two hypotheses, up to the flush that
   stores blocks by a wrong info, as its run checks them.
5. `Mining`: blocks of other nodes that hold transactions of the own pool.

## 7. Not modelled

Validation and application of transactions, RIDE, consensus arithmetic,
serialization, cryptography, and generated code are most of the repository's lines. They are
sequential and data-heavy: the models take their verdicts as inputs, and a model of
them would repeat the code. Read-only API and gRPC handlers change nothing. LevelDB,
the cache, the clock and the stateless library are external: a write of LevelDB is atomic
and survives a crash of the process (the node does not ask it to sync, so a power failure
may lose more, which the models leave out), timers end, and the state machine library
skips the entry action when the destination selector fails. `PROJECT.json` lists
every part with its status.
