# Verification of interstellar-db

TLA+ modules, TLC runs and TLAPS proofs about the spatio-temporal store in
`src/`: how rows, their Merkle summary and the seal records on disk stay in
agreement while requests, synchronisation, sealing and crashes interleave.

## 1. The system

| component | source | state | operations | talks to |
|---|---|---|---|---|
| Store | `src/src/store.rs` | the SurrealKV tree (rows, seal records), `forest`, `seal` (`sealed`, `inflight`), `seal_io`, the broadcast tap | `open`, `store`, `store_batch`, `ingest`, `seal_settled_epochs`, reads | the key-value engine, forest, tap |
| Merkle forest | `src/crates/interstellar-index/src/merkle.rs` | one octree of XOR hashes per macro epoch | `insert`, `remove`, `serialize_epoch`, `load_sealed_epoch`, `node_hash`, `child_hashes`, `diff_forests` | called under the store's lock |
| Indexer | `src/crates/interstellar-index/src/lib.rs` | none (half range, epoch length) | key encoding, decoding, range planning for sphere and time queries | called by the store's writes and queries |
| Mesh sync | `src/src/sync.rs`, `src/src/bin/server.rs` | a round's work queue | `roots`, `children`, `fetch` (server side), `sync_once` (puller), the peer loop | the peer's forest and rows, the puller's `ingest` |
| Subscription hub | `src/src/hub.rs`, `subscribe` in the server | the list of subscriptions, their buffers | `attach`, `run`, `dispatch`, the forwarding task | the store's tap, gRPC streams |
| gRPC server | `src/src/bin/server.rs` | tasks: sealer (every 600 s), sync loop, hub, one per request | `store`, `query_window`, `subscribe` | all of the above |
| Browser client | `src/crates/interstellar-wasm`, `src/web` | page: `pending`; worker: `indexer`, `params`, `db`; IndexedDB rows | `config`, `store`, `queryEpoch`, `queryWindow`, `count`, `clear` | the indexer, IndexedDB |
| Demos, benchmark | `src/src/bin/*_demo.rs`, `bench.rs` | none | drive the library | |

What is hard, and what makes each component correct:

* **Store.** Three copies of one fact: rows on disk, the forest in memory, seal
  records on disk. A write is at least four steps (mark or unseal the epoch,
  commit, fold, publish), each separated from the next by an await or a lock;
  the sealer serializes a tree between them; a process may die, and a gRPC
  handler's future may be dropped, at any await. Correct means: a seal record
  found by `open` describes exactly the rows of its epoch; the forest differs
  from the rows only where a call is under way; every call returns; every
  settled epoch is sealed in the end; the larger item digest wins.
* **Merkle forest.** The hash of a cell is the XOR of what lies below it at
  every depth; serializing and loading an epoch changes nothing; comparing two
  forests, of different leaf depths perhaps, names every cell where they differ.
* **Indexer.** The key ranges of a query cover every key whose observation
  satisfies it, at cell and epoch boundaries too, with no key twice.
* **Mesh sync.** The peer moves while a round reads it in many requests; a
  round may fail half-way; nodes repeat rounds against several peers. Correct
  means no row is invented, none is lost, and peers converge.
* **Subscription hub.** A broadcast ring and two bounded buffers drop events
  under load; what does arrive is in order and matches; a gone client's
  subscription is removed.
* **Query.** Callers commit while the ranges of a query are scanned; its rows
  pass through a bounded channel to a client that may be slow or leave. Correct
  means: the rows of one moment, in time order, all of them if the stream ends
  well, and an end on both sides.
* **Browser client.** Requests of a page are handled by interleaved async
  handlers over an indexer and a connection made by whichever comes first.
  Correct means: an answer is that of one moment and of the parameters it was
  asked under, and every request is settled.

## 2. Modules

| module | role |
|---|---|
| `Rows` | keys, epochs, payloads, items, XOR of item sets |
| `SealedDisk` | abstract: rows and seal records; a row only changes under no record, a record is only made of the epoch's rows |
| `SealedStore` | the store: write path, sealer, open, crashes, dropped handlers |
| `SealedStoreInv` | the inductive invariants |
| `SealedStoreLive` | the store with a moment from which callers are quiet |
| `SealedStoreProofs` | proofs that hold for every workload |
| `SealedStoreRowProofs` | proofs for callers that use a key once; refinement of `SealedDisk` |
| `Cells` | Morton cells as an epoch and octal digits |
| `MerkleForest` | the octrees of XOR hashes, their seal records, comparing two forests |
| `MerkleForestProofs` | proofs for every depth and set of items: what hashes and counts stand for, what a comparison finds |
| `MeshRows` | abstract: rows of the nodes; a row only moves up, to a payload somebody stored |
| `MeshSync` | nodes that pull from each other, request by request |
| `MeshSyncInv` | the inductive invariant |
| `MeshSyncProofs` | proofs for every mesh: types and cells; what is folded in; rounds and the refinement of `MeshRows` |
| `MeshSyncLive` | the mesh with a moment from which clients are quiet and links work |
| `SubscriptionHub` | tap, hub, subscriptions, forwarding tasks, clients |
| `SubscriptionHubProofs` | proofs for every set of clients and size of the channels |
| `QueryPlan` | operators: keys, range planning, the exact filters |
| `QueryPlanProofs` | proofs for every width of an axis, grid, epoch and query: keys decode, ranges cover, are apart and few |
| `SnapshotQuery` | abstract: an answer is what the store held at one moment; only a whole one ends well |
| `WindowQuery` | one query of the server: check, plan, scan, sort, stream |
| `WindowQueryProofs` | proofs for every query, workload and channel: order, refinement of `SnapshotQuery`, and `QueryPlanProofs` for the query that is put |
| `BrowserWorker` | the page's requests, the worker's handlers, IndexedDB transactions, reloads |
| `BrowserWorkerProofs` | proofs for every session; refinement of `SnapshotQuery` for each read |
| `MCRows`, `MCSealedStore`, `MCSealedStoreLive`, `MCMerkleForest`, `MCMeshRows`, `MCMeshSyncLive`, `MCSubscriptionHub`, `MCWindowQuery`, `MCBrowserWorker` | instances for TLC |

`Rows` is under everything but the hub and the queries; `Cells` extends it for
`MerkleForest` and `MeshSync`. `WindowQuery` extends `QueryPlan`, and
`BrowserWorker` instantiates it with the parameters of each indexer.
`SealedStore` refines `SealedDisk`, `MeshSync` refines `MeshRows`, and
`WindowQuery` and each read of `BrowserWorker` refine `SnapshotQuery`. Between the models, `MerkleForest` shows that a node's
hashes are those of a set of items, which is what `SealedStore` and `MeshSync`
keep for a forest; `SealedStore` has the steps between a commit and its fold
that `MeshSync` takes as two.

Each module with operations holds a section of *slips*: operations with one
plausible mistake, which no specification uses. Put in an operation's place a
slip breaks one of the properties, which shows that the property can fail.

### Vocabulary

A payload is a number: its rank by `item_digest` among the payloads its key can
carry, so "larger digest" is `>`. A node hash is a set of items: XOR of digests
is symmetric difference, and hash 0 is `{}`. This takes SHA-256 digests as
independent, so the models say nothing about collisions.

### SealedStore and `store.rs`

A step is what a task does between two points at which another task can act: an
await or the release of a mutex.

| variable | code |
|---|---|
| `kv`, `record` | rows and `seal_key` entries in SurrealKV, as committed |
| `forest`, `trees` | `merkle`: the items folded in; the epochs that have a tree |
| `sealed`, `inflight` | `SealState`; a missing in-flight entry is 0 |
| `io` | who holds the `seal_io` mutex |
| `pc`, `rows`, `old`, `todo`, `marked` | a call's place, rows, `existing`, epochs to mark, epochs marked |
| `spc`, `cands`, `bytes` | the sealer's place, epochs left in the pass, serialized leaves |
| `depth` | `MERKLE_LEAF_DEPTH_BITS` of the running build |

A batch marks its epochs in ascending order (`MarkUnsealed`), taking the slow
path for a sealed one: `FindSealed`, `AcquireIo`, `DeleteLands` or
`DeleteFails`, `MarkDeleted`. Then `CommitLands` or `CommitFails`, `Fold`,
`Publish`, `EndWrites`. `Drop` is tonic dropping the future of a request: the
`seal_io` guard is released by its destructor, the counts in `inflight` are
not. The sealer's pass is `SealPass`, then per candidate `SealLock`, `SealSkip`
or `SealMark`, `SealNothing` or `SealSnapshot`, `RecordLands` or `RecordFails`.
`Reopen` is `open` after a close or a crash at any point.

Taken from outside `src/`: a SurrealKV commit lands wholly or fails wholly, and
may have landed when its future is dropped, but does not land later. SurrealKV
may lose the tail of its log in a power failure; the state then is an earlier
pair of rows and records, which satisfies the same invariants, so it is not a
separate action. The server calls `store` only; `store_batch` is the library's.
One sealer runs at a time, as in the server's `main`.

The runs and proofs split on what callers do. `ExclusiveKeys` says that no call
stores a key that has a row or that another call is writing. Everything about
marks, locks, records and the tree in memory holds without it; agreement with
the rows needs it, and findings 1 and 2 show why. `OneDepth` says every build
that opens the store has one leaf depth; finding 5 is what happens with two.

### MerkleForest and `merkle.rs`

| variable | code |
|---|---|
| `leaf` | `leaf_depth_bits / 3` |
| `trees` | `epochs`: per epoch the item count and the hash of each cell, of every level |
| `record` | what the store keeps of `serialize_epoch`: leaf depth, count, leaf hashes |

`Insert`, `Remove`, `New`, `LoadSealedEpoch` are the methods; `Seal` is the
store persisting `Serialize`. `Reached` is `diff_forests`, `Fetched` the cells
`sync_once` asks for. `folded` and `snapshot` record what a forest and a record
ought to stand for. `remove` demands what was inserted, as its comment does.
Two replicas are two forests compared, so one may be loaded where the other was
filled, at any two leaf depths.

### MeshSync and `sync.rs`

| variable | code |
|---|---|
| `kv`, `forest`, `trees` | a node's rows, items folded in, epochs with a tree |
| `storing`, `lost` | a client's `store` between its commit and its fold; the items of those dropped there (history) |
| `pc`, `at` | the sync loop: between rounds, in a round, in `ingest` between commit and fold; which peer |
| `goal`, `work`, `reply`, `batch` | `descend_to`, `frontier`, an answer's nodes left to look at, a stream's rows left to ingest |
| `taken` | `ingest`'s row and `existing` |

A round is `Roots`, then `Compare` per hash, `AskChildren` or `Fetch` per cell,
`IngestNothing` or `IngestCommit` and `IngestFold` per row, `RoundDone`.
`RoundFails` is any error of it; `Unreachable` a failed connect; `Restart` a
process that dies at any point. A `Store` ends in `StoreFold` or, when its
client goes away while the commit is awaited, in `StoreDropped`: the row is on
disk and in no forest until the node restarts. A node with no peers runs no loop
and is only asked. Cells are visited in any order (the code's order is one of
them). `base`, `written` and `lost` are history.

The two liveness properties say where dropped calls leave off.
`EventualConsistency`: a node ends up with every row of a peer whose link works,
or a winning one, but for rows in `lost` at the peer. `RoundsQuiet`: two nodes
with the same rows and nothing in `lost` end up with nothing to fetch from each
other; a node that has lost a fold differs from its peers' summaries until it
restarts, and rounds over that cell repeat.

### SubscriptionHub and `hub.rs`

| variable | code |
|---|---|
| `tap` | the broadcast ring as the hub sees it: what it has not received yet |
| `hub`, `event`, `left`, `anyClosed` | `run` and `dispatch` |
| `subs`, `queue` | `subs` and each subscription's channel |
| `rx`, `held` | the forwarding task's receiver and the event it is sending |
| `stream`, `out`, `got` | the client's stream |

"In order" is the order of publication, which is that of the tap; two calls may
publish in the opposite order of their commits.

`attach` cannot come between two subscriptions of a fan-out, since that holds
the read lock; it can come between fan-out and sweep. An event's geometry is
the set of clients whose sphere has it; the age guard, which reads the clock,
is a choice.

### QueryPlan and `lib.rs`

A world of few bits: `AxisBits` for 21, `Ticks` for a second's nanoseconds,
coordinates in integers that are `Scale` apart on the grid, so what `f64`
approximates is exact here. Observations are made at `Coordinates`: on the grid,
between its points, past the edge. `Normalize` clamps and rounds them as the code
does, and `DecodeKey` gives back the grid point, which is what the exact filter
of a query judges; the properties of the plan speak of where the observation was
made. A Morton word keeps the bit the code never sets, so
prefixes of `depth_bits` drop a bit of z as they do in the code. `EpochRanges`
is the single-epoch plan of the browser client, `WindowRanges` the plan of both.

### WindowQuery, `server.rs` and `store.rs`

| variable | code |
|---|---|
| `tree`, `snap` | the committed rows; those the read transaction sees |
| `pc` | the handler `query_window`, then the task it spawns |
| `plan`, `left`, `hits` | the key ranges, those to scan, what `collect` has found |
| `queue`, `channel`, `received`, `stream` | rows sorted, in the channel, at the client; the client's side |

`Refuse` and `Accept` are the handler; `Plan`, `Begin`, `Scan` per range and
`Sort` are `SpatioTemporalStore::query_window` and `collect`; `Send`,
`SendDone`, `SendError` the loop over the channel. `Commit` is any caller that
stores, between any two of these. SurrealKV's read transactions are taken to
see one snapshot, which is what `begin` promises in the engine.

### BrowserWorker and `web/`

| variable | code |
|---|---|
| `obs` | the object store: keys with the observation its label stands for |
| `indexer`, `params`, `db` | the worker's globals |
| `request`, `at` | the page's session; where each request is |
| `used`, `found`, `answer` | the indexer a request's keys or ranges were made with, its scan, its reply |
| `inbox`, `outbox`, `txs`, `pending` | messages, transactions in the order they were created, the page's map |

A step is what runs from one event to the next, since nothing else can run
between two awaits that are already settled. `Handle` is a message that finds
an indexer; `Instantiate`, `InitDone`, `OpenDone` and `ReadyFails` are
`ensureReady`; `Configure`, `OpenTx`, `Throw` an operation up to its own await;
`PutBatch`, `ClearAll`, `ScanRanges`, `CountAll` and `Abort` a transaction,
`Finish` and `Aborted` the handler's end; `Reload` a page closed or reloaded at
any point. From outside `src/`: a transaction takes effect as a whole, one that
writes is alone, and they run in the order they were created.

## 3. Runs

Each is `<name>.cfg`; distinct states in brackets.

| run | asks | bounds |
|---|---|---|
| `seal` [18 624] | do marks balance, are records deleted before data change, do records match rows, is the summary exact where no call is under way, do events follow folds, does the disk implement `SealedDisk`; does every call return; is every settled epoch sealed in the end unless a dropped call was writing it | 2 handlers (one droppable), 1 syncer, sealer, 3 keys in 2 epochs, restarts |
| `forest` [7 056] | are all hashes exact, does comparing and pulling name exactly the cells that differ | 2 forests, 2 keys that share an octant, leaf depths 1 and 2 |
| `mesh` [72 848] | is a finished round complete though everybody moves, do rows only move up, do all working links carry rows in the end, but those of dropped calls, do rounds fall quiet | 3 nodes: a source without peers, and two that pull from it and from each other, one link broken; leaf depths 3 and 2, 2 keys, conflicting payloads, calls dropped at their commit, restarts |
| `hub` [132 476] | order, no loss of what is accepted, no listener swept, reader served, hub never waits, gone clients cleared | 2 clients, 4 events, ring of 2, channel and stream of 1 |
| `query` [97 k] | are ranges complete, disjoint and few; is the client's answer that of one moment, in order, whole if the stream ends well; does the call end | 4x4x4 grid with observations on it, off it and past its edge, 3 epochs of 2 seconds of 2 ticks, 2 commits, channel of 1 |
| `browser` [31 222] | is each read the answer of one moment; is every request settled | 9 sessions of 3 requests, one configuration, any failures and reloads |
| `repeat_store`, `ingest_race`, `dropped_call`, `query_last_second`, `other_depth`, `browser_reconfigured` | the findings of section 6 | |

Why the bounds are enough. Marks, records and trees of different epochs only
meet in a batch over several, in a pass over several and in `open`: two epochs
have all of these. Two keys in one epoch are what distinguishes an epoch's tree
from a row; a third of another epoch makes a batch span both. Two handlers and
a syncer are the three kinds of writers that can hold one epoch; the sealer is
one task. Ranks 1 and 2 give a losing, an equal and a winning payload for `seal`
and `mesh`; in `forest`, which compares no payloads, one is enough. The one
clock reading of `seal` settles both epochs, so every epoch is a candidate of a
pass whenever it is neither sealed nor marked. In `forest` two octal digits give
cells that agree above and part below, and forests of either depth. In `mesh`
the keys share a cell at level 1 and part at level 2, the goal of the shallower
node, while the others have a third level below it: rounds descend two levels,
and between nodes of equal depth three. A client that has stopped reading has
one event in its stream, one in its task's hand and one in its channel, so the
fourth finds the channel full for good; three events overflow a ring of two. A
grid of 4 has interior, boundary and clamped cells on each axis; an observation
lies past the edge, on a grid point, half way between two and nearer to the
lower or the upper one; and searches range from a point to more than everything.
Two commits, one of which replaces a row of the other and adds two, are what can
tear an answer; three requests are a writer, a reader and a third that replaces
or clears what the first wrote, or that arrives while the worker is still set
up.

One action of the store is out of reach of `seal`: `SealNothing` meets a tree
whose items have cancelled, which only callers that repeat keys can make. Types,
marks, locks and the order of deletion and commit are proved for those callers
too (section 5), and with them this action.

`CHECK_DEADLOCK FALSE` stands where things end: the hub's bounded number of
events.

## 4. Fairness

* Tasks are scheduled: weak fairness of a call's own steps, the sealer's, the
  sync loop's, the hub's and the forwarding tasks' (tokio runs a ready task).
* `seal_io` is a tokio mutex, which is FIFO: a waiter is not passed over for
  ever, hence strong fairness of `AcquireIo` and `SealLock`.
* The sealer's interval fires every 600 s, however late the clock reads: strong
  fairness of `SealPass` for every reading; and a seal commit that is retried
  for ever lands some time: strong fairness of `RecordLands`.
* A call of the mesh that has committed goes on: it folds its row in or is
  dropped, whichever its client makes it (weak fairness of the two together).
* A request that does not fail is answered; a link in `Broken` may fail always.
* Only clients in `Readers` are sure to read. The client of a query that has not
  left reads its stream; it may leave at any moment.
* The page and the worker run their event loops, and what a browser is asked for
  (instantiation, a connection, a transaction) it does or refuses.

"Once callers stop" is said with `calm`: a step `CalmDown` that may come at any
moment and after which calls, restarts and failing links are out. A premise
about actions (`<>[][~Reopen]`) would not do: a restart of an idle store is the
same step as a stutter or the end of a pass, so fairness would be at odds with
it. `calm` is not constrained by fairness; the properties speak of behaviours
in which it comes.

## 5. Proofs

`SealedStoreProofs` and `SealedStoreRowProofs` hold for every set of keys,
epochs, payloads, handlers, syncers, batches and clock readings.

* **AccountInv**: types, `InflightExact` (a count is the number of writers that
  hold a mark) and `MarksHeld` (which epochs a call at each place has marked).
  The type of `inflight` is not inductive alone: that a decrement stays in
  `Nat` is because the writer still holds its mark. Gives `TypeCorrect` and
  `MarksBalance`, with no assumption on callers or builds.
* **RecordInv**: who holds `seal_io` at which place; a record on disk is known
  in `sealed`; a sealed epoch has no marks; what the sealer is about to persist
  is still the tree. `SealTracksForest` alone breaks at `RecordLands` without
  the last and at `Fold` without the others. Gives `SealRecordsTrack` and
  `UnsealBeforeWrite` under `OneDepth`.
* **RowInv**: calls under way use different keys; a call's `existing` is what
  is on disk until it commits and what is in the tree until it folds; every
  other key is in the tree as on disk, but for what a dropped call left. Gives
  `RowsAccord` (itself), `SummaryExact`, `RecordsTrustworthy` and
  `ImplementsDisk` (the refinement of `SealedDisk`, step by step) under
  `OneDepth` and `ExclusiveKeys`.
* **EventInv**: what a call is about to commit outranks what is on disk; no item
  in the forest outranks the row on disk; what a call publishes is in the
  forest. With `RowInv` it gives `EventsAfterRows`. The same hypotheses give
  `LargerDigestStays` and `KeptInLockstep`: the two properties that
  `ingest_race` and `repeat_store` refute hold as soon as no key has two
  writers at once and none is stored twice, so those runs show the only ways in
  which they fail.

`MerkleForestProofs` holds for every set of epochs, keys and payloads, any
number of levels, and forests of different leaf depths side by side.

* **ForestInv**: a tree is a function of the items folded in and not out again,
  a record one of those sealed (`Exact`, `Sealed`), and each counts no fewer
  than there are. That a tree is loaded *exactly* is inductive only with what
  the records on disk stand for. Gives `TypeCorrect`, `HashesExact` (through
  every order of XORs, records of other depths and rebuilds) and `CountsCover`.
* From hashes that are sets of items, `DiffFindsAll` and `FetchFindsAll`: a
  descent that only follows cells whose hashes differ reaches every cell that
  differs, and no other. The argument takes the least level at which a path to
  a differing cell is left; the parent of a differing cell differs.

`MeshSyncProofs` holds for every set of nodes, peer lists, leaf depths, keys,
Morton codes and workload; all but the types under `ExclusiveKeys`, without
which `ingest_race` refutes them.

* **TypeInv**: types, and that a loop between rounds holds nothing of one. That
  a child of a cell above the goal is within the goal (`ChildrenWithin`) is why
  nobody is asked for a level it has not. Gives `TypeCorrect`.
* **FoldInv**: a row committed and not folded in is on disk, with nothing
  (`store`) or the losing row (`ingest`) under its key in the forest; a row whose
  call was dropped (`lost`) is on disk, or beaten there, and the forest may lack it
  but holds nothing under its key that beats the row on disk; every other key is folded in as on
  disk. From it: forests never run ahead of rows
  (`ForestBelow`) and never lose what is not beaten (`ForestUp`), through an
  XOR, a fold that takes out a superseded row, and a restart.
* **RoundInv**: `RoundCovers` needs two things more. When a hash equals the
  node's own, the node has the *rows* (`ForestBelow`); when a cell is asked
  about again, the peer still has what it had when the round began (`BaseKept`,
  from `ForestUp`). Gives `CoversAlways`, `RoundsComplete` and, with
  `NothingInvented`, `ImplementsMesh` (the refinement of `MeshRows`).

`MeshInv`, their conjunction, also holds in the instance of `mesh`.

`SubscriptionHubProofs` holds for every set of clients, regions and sizes of the
tap and of both channels of a subscription.

* **HubInv**: types; the events in the tap are newer than the one being
  dispatched and in order (`TapRising`); and a client not yet offered that one
  has only older ones on their way (`OfferedOnce`). `InOrder` alone is not
  inductive: it says nothing of what the hub will put behind the last event.
  Gives `TypeCorrect`, `HeardInOrder`, `ListenersStay` and `AcceptedStay`
  (nothing accepted is taken back or overtaken while the client listens).

`QueryPlanProofs` is about operators only and holds for every width of an axis,
scale, epoch length and number of ticks.

* `DecodeBack`: a key decodes to the grid point nearest to where its observation
  was made, and to its second and tick; `Rounding`: that point is within half a
  grid step on each axis, and exact on the grid.
  Bits are digits of sums of powers of eight and two; the lemmas on powers,
  division, and on prefixes of Morton codes (`PrefixCovers`, `PrefixUnique`)
  are proved from the least element of a set of numbers, since the library's
  induction theorems cannot be instantiated (`LeastNumber`, `UpTo`,
  `Recursion`).
* `SphereCovered`, `RangesCover`: normalisation is monotone and the chosen level
  has cells wider than the sphere, so that each of its points is in the cell of
  one of the corners; and a cell is one range of codes. `RangesApart`: two
  ranges that share a key are those of one cell and epoch. `RangesFew`: on one
  axis the walk meets at most two cells, hence eight in all.

`WindowQueryProofs` holds for every indexer, query, set of rows and batches and
channel size.

* **QueryInv**: types; nothing is sent before the scan has ended (`Phases`); the
  ranges scanned so far have given every row of theirs that matches
  (`ScannedExact`); and the rows received, in the channel and in the queue are
  together the answer unless the stream holds an error (`NoneLost`). The bound
  of the channel is not inductive without the first: the error is sent without
  waiting, and fits because nothing was sent before it. Gives `TypeCorrect` and
  `ImplementsSnapshot` (the refinement of `SnapshotQuery`, step by step).
* **Sorted**: what is received, in the channel and in the queue is in order, and
  each follows the one before. Gives `ArrivesInOrder`.
* **PlanMade**: the plan is that of the query. With `QueryPlanProofs` it gives
  `WindowIsCovered`, `NoneIsTwice`, `FanOutIsBounded` and `EpochIsCovered`. The
  ranges themselves are exact for observations off the grid too (normalisation
  is monotone: `EpochIsCovered`); what is not is the filter, which judges the
  decoded grid point. So `WindowIsCovered` has two gaps for every parameter: the
  one `query_last_second` shows, and observations within half a grid step of the
  sphere's surface (`KeptInSphere`).

`BrowserWorkerProofs` holds for every set of sessions and of parameters the
constructor of an indexer accepts.

* **QueuesInv**: a request is in one of the three queues at most and once, where
  it is says in which, and the page waits for it as long as the worker has it or
  its reply. That a request is in a queue *once* is what makes taking it off
  the end of it. **ValuesInv**: a request with a transaction was given an
  indexer, and there is one until the page goes. Gives `TypeCorrect`.
* **ReadsInv**: what a query has found lies in its ranges, and its reply is what
  it asks for of that. Inductive when decoding uses the parameters that made
  the ranges, **KeptInv**, which `SameConfig` gives: no session asks for
  parameters other than the first. (`browser_reconfigured` shows what happens
  otherwise.) Gives `ReadsAreSnapshots`: each read is a behaviour of
  `SnapshotQuery`. A store needs an argument of its own: a batch may hold a key
  twice, and is what is left of it put over the rest (`PutIsOver`, from the
  greatest position of a key).

Hypotheses beyond the assumptions on constants are these three, each with
instances that satisfy it among the runs: `OneDepth` (every build that opens a
store has the same leaf depth), `ExclusiveKeys` (callers never store a key twice
nor write it concurrently) and `SameConfig`.

Every safety property of a passing run is proved. Only model-checked are the
liveness properties, which are out of the prover's reach: `OthersSealed`,
`CallsReturn`, `EventualConsistency`, `RoundsQuiet`, `ReadersServed`,
`GoneCleared`, `TapDrained`, `CallsEnd` and `Settled`; and what the runs that
expect a violation refute.

## 6. Findings

1. `repeat_store`: `store` and `store_batch` insert without removing what the
   key held. The same row stored twice, by a client's retry say, XORs itself out
   of the summary, and so out of what peers fetch; another payload under the
   key leaves both in the summary, and in the seal record if the epoch is
   sealed, which every later open trusts.
2. `ingest_race`: `ingest` compares with a payload read before its transaction;
   a row stored in between is overwritten by a losing payload.
3. `dropped_call`: a handler dropped at its data commit (its client
   disconnects) leaves its epoch marked in flight, and it is not sealed until
   restart. A row that landed so is also never folded in: it is missing from the
   summary, and no peer fetches it before a restart, though `docs/MESH.md:111-113`
   promises every row to every connected node. `EventualConsistency` excepts just
   these rows. A handler dropped between a record's deletion and the epoch's
   removal from `sealed` does the same; `OthersSealed` says how far the damage
   goes.
4. `query_last_second`: the last epoch's ranges end at the first nanosecond of
   `end_secs`. An observation later in that second is lost if its Morton code
   is the last of its cell. `WindowCovered` shows that, rounding aside (see
   below), this is the only gap.
5. `other_depth`: a record sealed at another leaf depth is neither loaded nor
   deleted. A build of that depth, started later, trusts it, though rows have
   been written to its epoch since.
6. `browser_reconfigured`: a query that awaits its scan while a configuration is
   applied has its candidates decoded by the new indexer, which places them
   elsewhere: rows in the sphere are dropped. **Seed** applies its configuration
   while a query of the orbit demo may still be under way.

Seen besides, without a run of their own: the exact filter of a query judges the
grid point a key decodes to (`store.rs:576-586`), so that within half a grid step
of the sphere's surface rounding decides: with grid points -6, -2, 2 and 6 an
observation made at 0 decodes to 2, a query at 0 of radius 1 misses it and one at
2 of radius 1 returns it, and what is made past the edge of the space is kept at
the edge (`lib.rs:30`). With 21 bits an axis the step is about a millionth of the
half range. Also: a forwarding task whose client is gone
waits in `recv` until an event matches (`server.rs:159`), so `GoneCleared`
speaks of matching events only; a full channel loses an event without telling
the client (`hub.rs:109`), so `InOrder` and `AcceptedKept` do not say that
nothing is missing; the browser's worker sets its indexer before it has a
connection (`worker.js:17-18`), so a request handled in between is answered with
an error, and all are if the connection is refused; rows stored under one
configuration stay on disk under the next, which decodes them to other places.

## 7. Not modelled

* SurrealKV, tonic, tokio and IndexedDB beyond what section 2 takes from them; a
  power failure that loses an acknowledged commit's tail is covered by restarts.
* Collisions of SHA-256; timestamps beyond 32-bit epochs.
* The server's configuration from its environment, conversions of replies, and
  the streams of the mesh service, each of which is one step of `MeshSync`.
* Parameters that the constructor of an indexer refuses and windows that end
  before they start, in the browser: both are assertions of the compiled module
  (`ConfigsAssumption`, `SessionsAssumption` leave them out). The server refuses
  such a window, which is `Refuse`.
* `ingest`'s read, comparison and commit are one step of `MeshSync`; apart they
  are in `SealedStore`, where `ingest_race` shows what a second writer does.
* The page's drawing, buttons and statistics; several tabs over one store.
* Demos, benchmark, generated code: they drive the library and keep no state.

## 8. Plan

Done: store, forest, mesh, hub, query, browser client, and the proofs of section
5. What could follow:

1. `TrueSphere` under `SameConfig` for observations at grid points, from
   `DecodeBack`: an instance with parameters hides the facts of its module, so
   `BrowserWorker` would need the parameters as operator arguments;
2. the store's events composed with the hub: what a subscriber hears are rows
   that landed, in the order the store published them.
