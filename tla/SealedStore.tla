---------------------------- MODULE SealedStore ----------------------------
(***************************************************************************)
(* SpatioTemporalStore (src/src/store.rs): the write path, the in-memory   *)
(* Merkle forest, the seal records of settled epochs, and open.            *)
(*                                                                         *)
(* Handlers are gRPC tasks running store or store_batch, Syncers are       *)
(* tasks running ingest, and one sealer runs seal_settled_epochs.  A step  *)
(* is what a task does between two points where another can run: an await, *)
(* or the release of a mutex.  A transaction either lands or fails; open   *)
(* may happen at any moment and forgets everything but the disk.           *)
(***************************************************************************)
EXTENDS Rows

CONSTANTS
    Handlers,       \* tasks that call store_batch (store is the batch of one row)
    Syncers,        \* tasks that call ingest
    Droppable,      \* handlers whose future the server may drop at an await
    Batches,        \* the sequences of rows handlers store
    Deliveries,     \* the items syncers ingest
    ExclusiveKeys,  \* callers never store a key twice nor write it concurrently
    LeafDepths,     \* the Merkle leaf depths of the builds that open the store
    EpochSecs,      \* the epoch duration
    Grace,          \* the sealer's grace period
    Times,          \* the clock readings the sealer may take
    Sealer, Free    \* the holders of seal_io that are no writer

Writers == Handlers \union Syncers

ASSUME TasksAssumption ==
    /\ IsFiniteSet(Writers) /\ Handlers \intersect Syncers = {}
    /\ Droppable \subseteq Handlers
    /\ Sealer \notin Writers /\ Free \notin Writers /\ Sealer # Free
ASSUME WorkloadAssumption ==
    /\ Batches \subseteq Seq(Items) /\ Deliveries \subseteq Items
    /\ ExclusiveKeys \in BOOLEAN
ASSUME ClockAssumption ==
    EpochSecs \in Nat \ {0} /\ Grace \in Nat /\ Times \subseteq Nat
ASSUME DepthAssumption == LeafDepths \subseteq Nat \ {0}

VARIABLES
    kv,         \* on disk: the payload of each key
    record,     \* on disk: the seal record of each epoch
    depth,      \* MERKLE_LEAF_DEPTH_BITS of the running build
    forest,     \* in memory: the items folded into the forest
    trees,      \* in memory: the epochs with a tree in the forest
    sealed,     \* SealState.sealed
    inflight,   \* SealState.inflight; 0 for an absent entry
    io,         \* who holds seal_io
    pc,         \* where each writer is
    rows,       \* the rows each writer is writing
    old,        \* the row ingest read as `existing`, as a set of items
    todo,       \* the epochs begin_write_epochs has yet to mark
    marked,     \* the epochs the writer holds marked in inflight
    spc,        \* where the sealer is
    cands,      \* the epochs left in the sealer's pass
    bytes       \* the leaf hashes the sealer serialized

disk == <<kv, record>>
summary == <<forest, trees>>
seal == <<sealed, inflight>>
calls == <<pc, rows, old, todo, marked>>
sealerVars == <<spc, cands, bytes>>
vars == <<disk, depth, summary, seal, io, calls, sealerVars>>

ForestOf(e) == Within(forest, e)
DataOf(e) == Within(RowsIn(kv), e)
First(e, es) == e \in es /\ \A f \in es : e <= f

Init ==
    /\ kv = [k \in Keys |-> NoPayload]
    /\ record = [e \in Epochs |-> NoRecord]
    /\ depth \in LeafDepths
    /\ forest = {} /\ trees = {} /\ sealed = {}
    /\ inflight = [e \in Epochs |-> 0]
    /\ io = Free
    /\ pc = [w \in Writers |-> "idle"]
    /\ rows = [w \in Writers |-> <<>>]
    /\ old = [w \in Writers |-> {}]
    /\ todo = [w \in Writers |-> {}]
    /\ marked = [w \in Writers |-> {}]
    /\ spc = "idle" /\ cands = {} /\ bytes = {}

-----------------------------------------------------------------------------
(* Slips: each is an operation below with one plausible mistake in it, kept  *)
(* to show that the properties tell it from the code.                        *)

\* The superseded row is left in the forest.
NothingSuperseded(w) == {}

\* A writer does not look whether the epoch is sealed.
MarkUnchecked(w, e) ==
    /\ pc[w] = "begin" /\ First(e, todo[w])
    /\ inflight' = [inflight EXCEPT ![e] = @ + 1]
    /\ todo' = [todo EXCEPT ![w] = @ \ {e}]
    /\ marked' = [marked EXCEPT ![w] = @ \union {e}]
    /\ UNCHANGED <<disk, depth, summary, sealed, io, pc, rows, old, sealerVars>>

\* A writer deletes a record without seal_io.
AcquireNothing(w) ==
    /\ pc[w] = "wait"
    /\ pc' = [pc EXCEPT ![w] = "delete"]
    /\ UNCHANGED <<disk, depth, summary, seal, io, rows, old, todo, marked,
                   sealerVars>>

\* A writer steps back while another one waits for seal_io.
AcquireAlone(w) ==
    /\ pc[w] = "wait" /\ io = Free /\ \A v \in Writers \ {w} : pc[v] # "wait"
    /\ io' = w
    /\ pc' = [pc EXCEPT ![w] = "delete"]
    /\ UNCHANGED <<disk, depth, summary, seal, rows, old, todo, marked,
                   sealerVars>>

\* The delete is not committed before the data.
DeleteUncommitted(w, e) ==
    /\ pc[w] = "delete" /\ First(e, todo[w])
    /\ pc' = [pc EXCEPT ![w] = "deleted"]
    /\ UNCHANGED <<disk, depth, summary, seal, io, rows, old, todo, marked,
                   sealerVars>>

\* A failed begin gives back one epoch too many.
DeleteFailsOffByOne(w) ==
    /\ pc[w] = "delete"
    /\ io' = Free
    /\ pc' = [pc EXCEPT ![w] = "end"]
    /\ \E e \in todo[w] : /\ First(e, todo[w])
                          /\ marked' = [marked EXCEPT ![w] = @ \union {e}]
    /\ UNCHANGED <<disk, depth, summary, seal, rows, old, todo, sealerVars>>

\* The slow path forgets to count its mark.
MarkDeletedUncounted(w, e) ==
    /\ pc[w] = "deleted" /\ First(e, todo[w])
    /\ sealed' = sealed \ {e}
    /\ todo' = [todo EXCEPT ![w] = @ \ {e}]
    /\ marked' = [marked EXCEPT ![w] = @ \union {e}]
    /\ io' = Free
    /\ pc' = [pc EXCEPT ![w] = "begin"]
    /\ UNCHANGED <<disk, depth, summary, inflight, rows, old, sealerVars>>

\* A failed commit goes unnoticed.
CommitFailsUnnoticed(w) ==
    /\ pc[w] = "begin" /\ todo[w] = {}
    /\ pc' = [pc EXCEPT ![w] = "fold"]
    /\ UNCHANGED <<disk, depth, summary, seal, io, rows, old, todo, marked,
                   sealerVars>>

\* The sealer ignores writes in flight.
SealMarkAnyway(e) ==
    /\ spc = "check" /\ First(e, cands) /\ e \notin sealed
    /\ sealed' = sealed \union {e}
    /\ spc' = "marked"
    /\ UNCHANGED <<disk, depth, summary, inflight, io, calls, cands, bytes>>

\* The sealer releases seal_io before its commit.
SealSnapshotUnlocked(e) ==
    /\ spc = "marked" /\ First(e, cands) /\ ForestOf(e) # {}
    /\ bytes' = ForestOf(e)
    /\ spc' = "persist" /\ io' = Free
    /\ UNCHANGED <<disk, depth, summary, seal, calls, cands>>

\* A failed seal commit leaves its epoch marked as sealed.
RecordFailsMarked(e) ==
    /\ spc = "persist" /\ First(e, cands)
    /\ io' = Free
    /\ spc' = "idle" /\ cands' = {} /\ bytes' = {}
    /\ UNCHANGED <<disk, depth, summary, seal, calls>>

\* The rescan on open stops at the last sealed epoch.
ScannedNoTail(d) ==
    {i \in RowsIn(kv) : /\ record[EpochOf(i)].depth # d
                        /\ \E e \in Epochs : EpochOf(i) < e /\ record[e].depth = d}

-----------------------------------------------------------------------------
(* The write path *)

Busy(k) ==
    \E w \in Writers : pc[w] \notin {"idle", "dropped"} /\ k \in KeysOf(rows[w])
Fresh(batch) ==
    /\ DistinctKeys(batch)
    /\ \A k \in KeysOf(batch) : kv[k] = NoPayload /\ ~Busy(k)

Begin(w, batch, existing) ==
    /\ pc[w] = "idle"
    /\ pc' = [pc EXCEPT ![w] = "begin"]
    /\ rows' = [rows EXCEPT ![w] = batch]
    /\ old' = [old EXCEPT ![w] = existing]
    /\ todo' = [todo EXCEPT ![w] = EpochsOf(batch)]
    /\ UNCHANGED <<disk, depth, summary, seal, io, marked, sealerVars>>

CallStore(w, batch) ==
    /\ ExclusiveKeys => Fresh(batch)
    /\ Begin(w, batch, {})

\* An identical row and a losing payload return before anything is marked.
CallIngest(w, item) ==
    /\ kv[item[1]] < item[2]
    /\ ExclusiveKeys => ~Busy(item[1])
    /\ Begin(w, <<item>>, {i \in RowsIn(kv) : i[1] = item[1]})

\* begin_write_epoch of the next epoch when no record covers it.
MarkUnsealed(w, e) ==
    /\ pc[w] = "begin" /\ First(e, todo[w]) /\ e \notin sealed
    /\ inflight' = [inflight EXCEPT ![e] = @ + 1]
    /\ todo' = [todo EXCEPT ![w] = @ \ {e}]
    /\ marked' = [marked EXCEPT ![w] = @ \union {e}]
    /\ UNCHANGED <<disk, depth, summary, sealed, io, pc, rows, old, sealerVars>>

\* The slow path: wait for seal_io, delete the record, then mark.
FindSealed(w, e) ==
    /\ pc[w] = "begin" /\ First(e, todo[w]) /\ e \in sealed
    /\ pc' = [pc EXCEPT ![w] = "wait"]
    /\ UNCHANGED <<disk, depth, summary, seal, io, rows, old, todo, marked,
                   sealerVars>>

AcquireIo(w) ==
    /\ pc[w] = "wait" /\ io = Free
    /\ io' = w
    /\ pc' = [pc EXCEPT ![w] = "delete"]
    /\ UNCHANGED <<disk, depth, summary, seal, rows, old, todo, marked,
                   sealerVars>>

DeleteLands(w, e) ==
    /\ pc[w] = "delete" /\ First(e, todo[w])
    /\ record' = [record EXCEPT ![e] = NoRecord]
    /\ pc' = [pc EXCEPT ![w] = "deleted"]
    /\ UNCHANGED <<kv, depth, summary, seal, io, rows, old, todo, marked,
                   sealerVars>>

\* begin_write_epochs gives back the epochs marked so far.
DeleteFails(w) ==
    /\ pc[w] = "delete"
    /\ io' = Free
    /\ pc' = [pc EXCEPT ![w] = "end"]
    /\ UNCHANGED <<disk, depth, summary, seal, rows, old, todo, marked,
                   sealerVars>>

MarkDeleted(w, e) ==
    /\ pc[w] = "deleted" /\ First(e, todo[w])
    /\ sealed' = sealed \ {e}
    /\ inflight' = [inflight EXCEPT ![e] = @ + 1]
    /\ todo' = [todo EXCEPT ![w] = @ \ {e}]
    /\ marked' = [marked EXCEPT ![w] = @ \union {e}]
    /\ io' = Free
    /\ pc' = [pc EXCEPT ![w] = "begin"]
    /\ UNCHANGED <<disk, depth, summary, rows, old, sealerVars>>

CommitLands(w) ==
    /\ pc[w] = "begin" /\ todo[w] = {}
    /\ kv' \in [Keys -> Payloads \union {NoPayload}]
    /\ SetInOrder(rows[w], kv, kv')
    /\ pc' = [pc EXCEPT ![w] = "fold"]
    /\ UNCHANGED <<record, depth, summary, seal, io, rows, old, todo, marked,
                   sealerVars>>

CommitFails(w) ==
    /\ pc[w] = "begin" /\ todo[w] = {}
    /\ pc' = [pc EXCEPT ![w] = "end"]
    /\ UNCHANGED <<disk, depth, summary, seal, io, rows, old, todo, marked,
                   sealerVars>>

\* Under the forest lock: remove the superseded row, if its epoch has a tree,
\* and insert the new ones.
Superseded(w) == {i \in old[w] : EpochOf(i) \in trees}
Fold(w) ==
    /\ pc[w] = "fold"
    /\ forest' = Xor(Xor(forest, Superseded(w)), Folded(rows[w]))
    /\ trees' = trees \union EpochsOf(rows[w])
    /\ pc' = [pc EXCEPT ![w] = "publish"]
    /\ UNCHANGED <<disk, depth, seal, io, rows, old, todo, marked, sealerVars>>

\* One event per row of rows[w] goes to the broadcast channel.
Publish(w) ==
    /\ pc[w] = "publish"
    /\ pc' = [pc EXCEPT ![w] = "end"]
    /\ UNCHANGED <<disk, depth, summary, seal, io, rows, old, todo, marked,
                   sealerVars>>

EndWrites(w) ==
    /\ pc[w] = "end"
    /\ inflight' = [e \in Epochs |->
                      IF e \in marked[w] THEN inflight[e] - 1 ELSE inflight[e]]
    /\ pc' = [pc EXCEPT ![w] = "idle"]
    /\ rows' = [rows EXCEPT ![w] = <<>>]
    /\ old' = [old EXCEPT ![w] = {}]
    /\ todo' = [todo EXCEPT ![w] = {}]
    /\ marked' = [marked EXCEPT ![w] = {}]
    /\ UNCHANGED <<disk, depth, summary, sealed, io, sealerVars>>

\* The server drops a handler's future at an await: the seal_io lock, the
\* delete's commit or the data's commit, whether or not the commit has landed.
\* The seal_io guard is released; the marks in inflight are not.
AtAwait(w) ==
    \/ pc[w] \in {"wait", "delete", "deleted", "fold"}
    \/ pc[w] = "begin" /\ todo[w] = {}
Drop(w) ==
    /\ w \in Droppable /\ AtAwait(w)
    /\ pc' = [pc EXCEPT ![w] = "dropped"]
    /\ io' = IF io = w THEN Free ELSE io
    /\ UNCHANGED <<disk, depth, summary, seal, rows, old, todo, marked,
                   sealerVars>>

-----------------------------------------------------------------------------
(* The sealer *)

Monus(a, b) == IF a > b THEN a - b ELSE 0
Settled(e, now) == e < Monus(now, Grace) \div EpochSecs

SealPass(now) ==
    /\ spc = "idle"
    /\ spc' = "next"
    /\ cands' = {e \in trees : Settled(e, now)}
    /\ UNCHANGED <<disk, depth, summary, seal, io, calls, bytes>>

SealPassDone ==
    /\ spc = "next" /\ cands = {}
    /\ spc' = "idle"
    /\ UNCHANGED <<disk, depth, summary, seal, io, calls, cands, bytes>>

SealLock ==
    /\ spc = "next" /\ cands # {} /\ io = Free
    /\ io' = Sealer
    /\ spc' = "check"
    /\ UNCHANGED <<disk, depth, summary, seal, calls, cands, bytes>>

\* The sealer is through with epoch e and goes on to the next candidate.
NextCandidate(e) ==
    /\ cands' = cands \ {e}
    /\ io' = Free
    /\ bytes' = {}
    /\ spc' = "next"

SealSkip(e) ==
    /\ spc = "check" /\ First(e, cands)
    /\ e \in sealed \/ inflight[e] > 0
    /\ NextCandidate(e)
    /\ UNCHANGED <<disk, depth, summary, seal, calls>>

SealMark(e) ==
    /\ spc = "check" /\ First(e, cands)
    /\ e \notin sealed /\ inflight[e] = 0
    /\ sealed' = sealed \union {e}
    /\ spc' = "marked"
    /\ UNCHANGED <<disk, depth, summary, inflight, io, calls, cands, bytes>>

\* serialize_epoch finds no non-zero leaf.
SealNothing(e) ==
    /\ spc = "marked" /\ First(e, cands) /\ ForestOf(e) = {}
    /\ sealed' = sealed \ {e}
    /\ NextCandidate(e)
    /\ UNCHANGED <<disk, depth, summary, inflight, calls>>

SealSnapshot(e) ==
    /\ spc = "marked" /\ First(e, cands) /\ ForestOf(e) # {}
    /\ bytes' = ForestOf(e)
    /\ spc' = "persist"
    /\ UNCHANGED <<disk, depth, summary, seal, io, calls, cands>>

RecordLands(e) ==
    /\ spc = "persist" /\ First(e, cands)
    /\ record' = [record EXCEPT ![e] = RecordAt(depth, bytes)]
    /\ NextCandidate(e)
    /\ UNCHANGED <<kv, depth, summary, seal, calls>>

\* A failed commit unmarks the epoch and ends the pass.
RecordFails(e) ==
    /\ spc = "persist" /\ First(e, cands)
    /\ sealed' = sealed \ {e}
    /\ io' = Free
    /\ spc' = "idle" /\ cands' = {} /\ bytes' = {}
    /\ UNCHANGED <<disk, depth, summary, inflight, calls>>

-----------------------------------------------------------------------------
(* open, after a close or a crash, with a build of leaf depth d: readable    *)
(* records are loaded as they are, every other epoch is rescanned.           *)

Loadable(d) == {e \in Epochs : record[e].depth = d}
Loaded(d) == UNION {record[e].items : e \in Loadable(d)}
Scanned(d) == {i \in RowsIn(kv) : EpochOf(i) \notin Loadable(d)}

Reopen(d) ==
    /\ depth' = d
    /\ forest' = Loaded(d) \union Scanned(d)
    /\ trees' = Loadable(d) \union {EpochOf(i) : i \in Scanned(d)}
    /\ sealed' = Loadable(d)
    /\ inflight' = [e \in Epochs |-> 0]
    /\ io' = Free
    /\ pc' = [w \in Writers |-> "idle"]
    /\ rows' = [w \in Writers |-> <<>>]
    /\ old' = [w \in Writers |-> {}]
    /\ todo' = [w \in Writers |-> {}]
    /\ marked' = [w \in Writers |-> {}]
    /\ spc' = "idle" /\ cands' = {} /\ bytes' = {}
    /\ UNCHANGED disk

-----------------------------------------------------------------------------
\* One writer's own steps, once its call has begun.
WriterStep(w) ==
    \/ \E e \in Epochs : MarkUnsealed(w, e) \/ FindSealed(w, e)
    \/ AcquireIo(w)
    \/ \E e \in Epochs : DeleteLands(w, e) \/ MarkDeleted(w, e)
    \/ DeleteFails(w)
    \/ CommitLands(w) \/ CommitFails(w)
    \/ Fold(w) \/ Publish(w) \/ EndWrites(w)

\* The sealer's own steps within a pass.
SealerStep ==
    \/ SealPassDone \/ SealLock
    \/ \E e \in Epochs :
          \/ SealSkip(e) \/ SealMark(e) \/ SealNothing(e) \/ SealSnapshot(e)
          \/ RecordLands(e) \/ RecordFails(e)

Next ==
    \/ \E w \in Handlers, batch \in Batches : CallStore(w, batch)
    \/ \E w \in Syncers, item \in Deliveries : CallIngest(w, item)
    \/ \E w \in Writers : WriterStep(w) \/ Drop(w)
    \/ \E now \in Times : SealPass(now)
    \/ SealerStep
    \/ \E d \in LeafDepths : Reopen(d)

Spec == Init /\ [][Next]_vars

(***************************************************************************)
(* Tasks are scheduled fairly and transactions complete one way or the     *)
(* other; tokio's mutex is FIFO, so a waiter is not passed over forever;   *)
(* a seal commit retried for ever lands some time; and passes go on being  *)
(* run, however late the clock reads.                                      *)
(***************************************************************************)
Fairness ==
    /\ \A w \in Writers : WF_vars(WriterStep(w)) /\ SF_vars(AcquireIo(w))
    /\ WF_vars(SealerStep) /\ SF_vars(SealLock)
    /\ \A e \in Epochs : SF_vars(RecordLands(e))
    /\ \A now \in Times : SF_vars(SealPass(now))

FairSpec == Spec /\ Fairness

-----------------------------------------------------------------------------
(* Properties *)

WriterPlaces == {"idle", "begin", "wait", "delete", "deleted", "fold",
                 "publish", "end", "dropped"}
SealerPlaces == {"idle", "next", "check", "marked", "persist"}
Records == [depth : LeafDepths, items : SUBSET Items] \union {NoRecord}

\* The type of every variable.
TypeOK ==
    /\ kv \in [Keys -> Payloads \union {NoPayload}]
    /\ record \in [Epochs -> Records]
    /\ depth \in LeafDepths
    /\ forest \subseteq Items /\ trees \subseteq Epochs /\ sealed \subseteq Epochs
    /\ inflight \in [Epochs -> Nat]
    /\ io \in Writers \union {Sealer, Free}
    /\ pc \in [Writers -> WriterPlaces]
    /\ rows \in [Writers -> Seq(Items)]
    /\ old \in [Writers -> SUBSET Items]
    /\ todo \in [Writers -> SUBSET Epochs]
    /\ marked \in [Writers -> SUBSET Epochs]
    /\ spc \in SealerPlaces /\ cands \subseteq Epochs /\ bytes \subseteq Items

\* SealState.inflight counts exactly the writers that marked the epoch: the
\* error paths of begin_write_epochs never give back a mark they did not take,
\* so the decrement in end_write_epochs cannot underflow.
Markers(e) == {w \in Writers : e \in marked[w]}
InflightExact == \A e \in Epochs : inflight[e] = Cardinality(Markers(e))

\* A seal record on disk is the in-memory tree of its epoch, whatever callers
\* write: "a seal record is only ever written when the in-memory tree exactly
\* matches" (the sealer side) and it is gone before the tree moves on.
SealTracksForest ==
    \A e \in Epochs : record[e] # NoRecord => record[e].items = ForestOf(e)

\* "A seal record on disk exactly matches its epoch's data on disk", at every
\* moment a crash may come.
SealMatchesData ==
    \A e \in Epochs : record[e] # NoRecord => record[e].items = DataOf(e)

\* The Merkle summary a peer reads differs from the rows only in epochs some
\* call holds marked, which the sealer leaves alone.
QuietExact ==
    \A e \in Epochs : inflight[e] = 0 => ForestOf(e) = DataOf(e)

\* A row never changes under a seal record: the record's deletion lands before
\* the data commit, on the fast path, the slow path and after any restart.
UnsealFirst ==
    [][\A k \in Keys : kv'[k] # kv[k] => record[KeyEpoch[k]] = NoRecord]_vars

\* A subscriber woken by an event finds the row, in the data and in the
\* summary: publish comes after the commit and the fold.
EventsOfLandedRows ==
    [][\A w \in Writers :
          Publish(w) => RowSet(rows[w]) \subseteq RowsIn(kv) \intersect forest]_vars

\* The two things on disk evolve as SealedDisk says.
Disk == INSTANCE SealedDisk
DiskSpec == Disk!Spec

\* With no call under way, the in-memory summary is the data: it is "kept in
\* lockstep with every write".
Lockstep == (\A w \in Writers : pc[w] = "idle") => forest = RowsIn(kv)

\* What ingest commits over a row has the larger item digest.
LargerDigestWins ==
    [][\A w \in Syncers : CommitLands(w) => \A k \in Keys : kv'[k] >= kv[k]]_vars

\* Every call returns (or was dropped, or ended with the process): waiting for
\* seal_io never deadlocks or starves.
CallsReturn ==
    \A w \in Writers : pc[w] # "idle" ~> pc[w] \in {"idle", "dropped"}
=============================================================================
