------------------------- MODULE SealedStoreProofs -------------------------
(***************************************************************************)
(* Theorems about SealedStore, for every workload and number of tasks.     *)
(***************************************************************************)
EXTENDS SealedStoreInv, FiniteSetTheorems, TLAPS

-----------------------------------------------------------------------------
(* Lemmas on rows and on counting marks *)

\* The epochs and keys a sequence of rows names are epochs and keys.
LEMMA RowsTyped ==
    ASSUME NEW rs \in Seq(Items)
    PROVE  /\ EpochsOf(rs) \subseteq Epochs /\ KeysOf(rs) \subseteq Keys
           /\ RowSet(rs) \subseteq Items /\ Folded(rs) \subseteq Items
BY DEF EpochsOf, Epochs, KeysOf, RowSet, Folded, Items

\* There are finitely many markers of an epoch.
LEMMA MarkersFinite ==
    ASSUME NEW e
    PROVE  IsFiniteSet(Markers(e)) /\ Cardinality(Markers(e)) \in Nat
<1>1. IsFiniteSet(Writers) /\ Markers(e) \in SUBSET Writers
  BY TasksAssumption DEF Markers
<1> QED
  BY <1>1, FS_Subset, FS_CardinalityType

\* With the counts exact, a count is positive while some writer holds a mark.
LEMMA MarkedPositive ==
    ASSUME TypeOK, InflightExact, NEW e \in Epochs
    PROVE  inflight[e] = 0 <=> \A w \in Writers : e \notin marked[w]
<1>1. inflight[e] = 0 <=> Markers(e) = {}
  BY MarkersFinite, FS_EmptySet DEF InflightExact
<1> QED
  BY <1>1 DEF Markers

\* Taking one more mark of one epoch keeps the counts exact.
LEMMA CountMark ==
    ASSUME TypeOK, InflightExact, NEW w \in Writers, NEW e \in Epochs,
           e \notin marked[w],
           inflight' = [inflight EXCEPT ![e] = @ + 1],
           marked' = [marked EXCEPT ![w] = @ \union {e}]
    PROVE  InflightExact'
<1> SUFFICES ASSUME NEW f \in Epochs
             PROVE  inflight'[f] = Cardinality(Markers(f)')
  BY DEF InflightExact
<1>1. CASE f = e
  <2>1. Markers(f)' = Markers(f) \union {w} /\ w \notin Markers(f)
    BY <1>1 DEF Markers, TypeOK
  <2>2. Cardinality(Markers(f)') = Cardinality(Markers(f)) + 1
    BY <2>1, MarkersFinite, FS_AddElement
  <2> QED
    BY <1>1, <2>2 DEF InflightExact, TypeOK
<1>2. CASE f # e
  <2>1. Markers(f)' = Markers(f)
    BY <1>2 DEF Markers, TypeOK
  <2> QED
    BY <1>2, <2>1 DEF InflightExact, TypeOK
<1> QED
  BY <1>1, <1>2

\* end_write_epochs gives back exactly the writer's marks, below no count of 0.
LEMMA CountRelease ==
    ASSUME TypeOK, InflightExact, NEW w \in Writers, EndWrites(w)
    PROVE  InflightExact' /\ inflight' \in [Epochs -> Nat]
<1>1. ASSUME NEW e \in Epochs
      PROVE  inflight'[e] = Cardinality(Markers(e)') /\ inflight'[e] \in Nat
  <2>1. Markers(e)' = Markers(e) \ {w}
    BY DEF EndWrites, Markers, TypeOK
  <2>2. Cardinality(Markers(e)')
          = IF w \in Markers(e) THEN Cardinality(Markers(e)) - 1
                                ELSE Cardinality(Markers(e))
    BY <2>1, MarkersFinite, FS_RemoveElement
  <2>3. inflight'[e] = IF w \in Markers(e) THEN inflight[e] - 1 ELSE inflight[e]
    BY DEF EndWrites, Markers
  <2>4. Cardinality(Markers(e)') \in Nat
    <3>1. IsFiniteSet(Markers(e) \ {w})
      BY MarkersFinite, FS_RemoveElement
    <3> QED
      BY <2>1, <3>1, FS_CardinalityType
  <2> QED
    BY <2>2, <2>3, <2>4 DEF InflightExact
<1>2. inflight' = [e \in Epochs |-> inflight'[e]]
  BY DEF EndWrites
<1> QED
  BY <1>1, <1>2 DEF InflightExact

\* Steps that leave the marks alone leave the counts exact.
LEMMA CountKept ==
    ASSUME InflightExact, inflight' = inflight, marked' = marked
    PROVE  InflightExact'
BY DEF InflightExact, Markers

\* No mark is held and no count is positive: initially and after open.
LEMMA CountZero ==
    ASSUME inflight' = [e \in Epochs |-> 0], marked' = [w \in Writers |-> {}]
    PROVE  InflightExact'
<1>1. ASSUME NEW e \in Epochs PROVE Cardinality(Markers(e)') = 0
  <2>1. Markers(e)' = {}
    BY DEF Markers
  <2> QED
    BY <2>1, FS_EmptySet
<1> QED
  BY <1>1 DEF InflightExact

-----------------------------------------------------------------------------
(* Type correctness and the accounting of marks: neither is inductive alone, *)
(* as only exact counts keep end_write_epochs from counting below 0.         *)

LEMMA AccountInit == Init => AccountInv
<1> SUFFICES ASSUME Init PROVE AccountInv
  OBVIOUS
<1>1. TypeOK
  BY DEF Init, TypeOK, Records, WriterPlaces, SealerPlaces
<1>2. InflightExact
  <2>1. ASSUME NEW e \in Epochs PROVE Cardinality(Markers(e)) = 0
    <3>1. Markers(e) = {}
      BY DEF Init, Markers
    <3> QED
      BY <3>1, FS_EmptySet
  <2> QED
    BY <2>1 DEF Init, InflightExact
<1>3. ASSUME NEW w \in Writers PROVE MarksHeld(w)
  BY DEF Init, MarksHeld, PreCommit
<1> QED
  BY <1>1, <1>2, <1>3 DEF AccountInv

\* A call that begins names epochs to mark and holds no mark.
LEMMA AccountBegin ==
    ASSUME AccountInv, NEW w \in Writers, NEW batch \in Seq(Items),
           NEW existing \in SUBSET Items, Begin(w, batch, existing),
           \A i \in existing : i[1] \in KeysOf(batch)
    PROVE  AccountInv'
<1> USE DEF AccountInv
<1>1. EpochsOf(batch) \subseteq Epochs
  BY RowsTyped
<1>2. TypeOK'
  BY <1>1 DEF Begin, TypeOK, WriterPlaces, vars, disk, summary, seal, sealerVars
<1>3. InflightExact'
  BY CountKept DEF Begin, seal
<1>4. ASSUME NEW v \in Writers PROVE MarksHeld(v)'
  <2>1. CASE v = w
    BY <2>1 DEF Begin, TypeOK, MarksHeld, PreCommit
  <2>2. CASE v # w
    BY <2>2 DEF Begin, TypeOK, MarksHeld, PreCommit
  <2> QED
    BY <2>1, <2>2
<1> QED
  BY <1>2, <1>3, <1>4

\* Every step of a writer keeps the accounts.
LEMMA AccountWriter ==
    ASSUME AccountInv, NEW w \in Writers, WriterStep(w) \/ Drop(w)
    PROVE  AccountInv'
<1> USE DEF AccountInv, TypeOK, WriterPlaces, disk, summary, seal, calls, sealerVars
<1>1. ASSUME NEW e \in Epochs, MarkUnsealed(w, e) PROVE AccountInv'
  <2>1. TypeOK'
    BY <1>1 DEF MarkUnsealed
  <2>2. InflightExact'
    BY <1>1, CountMark DEF MarkUnsealed, First, MarksHeld, PreCommit
  <2>3. ASSUME NEW v \in Writers PROVE MarksHeld(v)'
    BY <1>1 DEF MarkUnsealed, First, MarksHeld, PreCommit
  <2> QED
    BY <2>1, <2>2, <2>3
<1>2. ASSUME NEW e \in Epochs, FindSealed(w, e) PROVE AccountInv'
  <2>1. TypeOK' /\ InflightExact'
    BY <1>2, CountKept DEF FindSealed
  <2>2. ASSUME NEW v \in Writers PROVE MarksHeld(v)'
    BY <1>2 DEF FindSealed, MarksHeld, PreCommit
  <2> QED
    BY <2>1, <2>2
<1>3. CASE AcquireIo(w)
  <2>1. TypeOK' /\ InflightExact'
    BY <1>3, CountKept DEF AcquireIo
  <2>2. ASSUME NEW v \in Writers PROVE MarksHeld(v)'
    BY <1>3 DEF AcquireIo, MarksHeld, PreCommit
  <2> QED
    BY <2>1, <2>2
<1>4. ASSUME NEW e \in Epochs, DeleteLands(w, e) PROVE AccountInv'
  <2>1. TypeOK' /\ InflightExact'
    BY <1>4, CountKept DEF DeleteLands, Records
  <2>2. ASSUME NEW v \in Writers PROVE MarksHeld(v)'
    BY <1>4 DEF DeleteLands, MarksHeld, PreCommit
  <2> QED
    BY <2>1, <2>2
<1>5. CASE DeleteFails(w)
  <2>1. TypeOK' /\ InflightExact'
    BY <1>5, CountKept DEF DeleteFails
  <2>2. ASSUME NEW v \in Writers PROVE MarksHeld(v)'
    BY <1>5 DEF DeleteFails, MarksHeld, PreCommit
  <2> QED
    BY <2>1, <2>2
<1>6. ASSUME NEW e \in Epochs, MarkDeleted(w, e) PROVE AccountInv'
  <2>1. TypeOK'
    BY <1>6 DEF MarkDeleted
  <2>2. InflightExact'
    BY <1>6, CountMark DEF MarkDeleted, First, MarksHeld, PreCommit
  <2>3. ASSUME NEW v \in Writers PROVE MarksHeld(v)'
    BY <1>6 DEF MarkDeleted, First, MarksHeld, PreCommit
  <2> QED
    BY <2>1, <2>2, <2>3
<1>7. CASE CommitLands(w)
  <2>1. TypeOK' /\ InflightExact'
    BY <1>7, CountKept DEF CommitLands
  <2>2. ASSUME NEW v \in Writers PROVE MarksHeld(v)'
    BY <1>7 DEF CommitLands, MarksHeld, PreCommit
  <2> QED
    BY <2>1, <2>2
<1>8. CASE CommitFails(w)
  <2>1. TypeOK' /\ InflightExact'
    BY <1>8, CountKept DEF CommitFails
  <2>2. ASSUME NEW v \in Writers PROVE MarksHeld(v)'
    BY <1>8 DEF CommitFails, MarksHeld, PreCommit
  <2> QED
    BY <2>1, <2>2
<1>9. CASE Fold(w)
  <2>1. EpochsOf(rows[w]) \subseteq Epochs /\ Folded(rows[w]) \subseteq Items
    BY RowsTyped
  <2>2. forest' \subseteq Items /\ trees' \subseteq Epochs
    BY <1>9, <2>1 DEF Fold, Xor, Superseded
  <2>3. TypeOK' /\ InflightExact'
    BY <1>9, <2>2, CountKept DEF Fold
  <2>4. ASSUME NEW v \in Writers PROVE MarksHeld(v)'
    BY <1>9 DEF Fold, MarksHeld, PreCommit
  <2> QED
    BY <2>3, <2>4
<1>10. CASE Publish(w)
  <2>1. TypeOK' /\ InflightExact'
    BY <1>10, CountKept DEF Publish
  <2>2. ASSUME NEW v \in Writers PROVE MarksHeld(v)'
    BY <1>10 DEF Publish, MarksHeld, PreCommit
  <2> QED
    BY <2>1, <2>2
<1>11. CASE EndWrites(w)
  <2>1. InflightExact' /\ inflight' \in [Epochs -> Nat]
    BY <1>11, CountRelease
  <2>2. TypeOK'
    BY <1>11, <2>1 DEF EndWrites
  <2>3. ASSUME NEW v \in Writers PROVE MarksHeld(v)'
    BY <1>11 DEF EndWrites, MarksHeld, PreCommit
  <2> QED
    BY <2>1, <2>2, <2>3
<1>12. CASE Drop(w)
  <2>1. TypeOK' /\ InflightExact'
    BY <1>12, CountKept DEF Drop
  <2>2. ASSUME NEW v \in Writers PROVE MarksHeld(v)'
    BY <1>12 DEF Drop, MarksHeld, PreCommit
  <2> QED
    BY <2>1, <2>2
<1> QED
  BY <1>1, <1>2, <1>3, <1>4, <1>5, <1>6, <1>7, <1>8, <1>9, <1>10, <1>11, <1>12
  DEF WriterStep

\* The sealer takes and gives back no marks.
LEMMA AccountSealer ==
    ASSUME AccountInv, SealerStep \/ \E now \in Times : SealPass(now)
    PROVE  AccountInv'
<1> USE DEF AccountInv, disk, summary, seal, calls
<1>1. InflightExact' /\ \A w \in Writers : MarksHeld(w)'
  <2>1. UNCHANGED <<inflight, calls>>
    BY DEF SealerStep, SealPass, SealPassDone, SealLock, SealSkip, SealMark,
           SealNothing, SealSnapshot, RecordLands, RecordFails
  <2> QED
    BY <2>1, CountKept DEF MarksHeld
<1>2. TypeOK'
  <2> USE DEF TypeOK, SealerPlaces, NextCandidate
  <2>1. CASE \E now \in Times : SealPass(now)
    BY <2>1 DEF SealPass
  <2>2. CASE SealPassDone \/ SealLock
    BY <2>2 DEF SealPassDone, SealLock
  <2>3. ASSUME NEW e \in Epochs,
               SealSkip(e) \/ SealMark(e) \/ SealNothing(e) \/ SealSnapshot(e)
        PROVE  TypeOK'
    BY <2>3 DEF SealSkip, SealMark, SealNothing, SealSnapshot, ForestOf, Within
  <2>4. ASSUME NEW e \in Epochs, RecordLands(e) \/ RecordFails(e)
        PROVE  TypeOK'
    <3>1. [depth |-> depth, items |-> bytes] \in Records
      BY DEF Records
    <3>2. CASE RecordLands(e)
      BY <3>1, <3>2 DEF RecordLands, RecordAt
    <3>3. CASE RecordFails(e)
      BY <3>3 DEF RecordFails
    <3> QED
      BY <2>4, <3>2, <3>3
  <2> QED
    BY <2>1, <2>2, <2>3, <2>4 DEF SealerStep
<1> QED
  BY <1>1, <1>2

\* open starts from no marks; what it loads and scans is rows.
LEMMA AccountReopen ==
    ASSUME AccountInv, NEW d \in LeafDepths, Reopen(d)
    PROVE  AccountInv'
<1> USE DEF AccountInv
<1>1. InflightExact'
  BY CountZero DEF Reopen
<1>2. ASSUME NEW w \in Writers PROVE MarksHeld(w)'
  BY DEF Reopen, MarksHeld, PreCommit
<1>3. Loaded(d) \subseteq Items
  <2>1. ASSUME NEW e \in Epochs PROVE record[e].items \subseteq Items
    <3>1. CASE record[e] = NoRecord
      BY <3>1 DEF NoRecord
    <3>2. CASE record[e] \in [depth : LeafDepths, items : SUBSET Items]
      BY <3>2
    <3> QED
      BY <3>1, <3>2 DEF TypeOK, Records
  <2> QED
    BY <2>1 DEF Loaded, Loadable
<1>4. /\ Scanned(d) \subseteq Items /\ Loadable(d) \subseteq Epochs
      /\ {EpochOf(i) : i \in Scanned(d)} \subseteq Epochs
  BY DEF Scanned, RowsIn, Loadable, EpochOf, Epochs, Items
<1>5. TypeOK'
  BY <1>3, <1>4 DEF Reopen, TypeOK, WriterPlaces, SealerPlaces, disk
<1> QED
  BY <1>1, <1>2, <1>5

\* Every step keeps the accounts.
LEMMA AccountNext == AccountInv /\ [Next]_vars => AccountInv'
<1> SUFFICES ASSUME AccountInv, [Next]_vars PROVE AccountInv'
  OBVIOUS
<1>1. ASSUME NEW w \in Handlers, NEW batch \in Batches, CallStore(w, batch)
      PROVE  AccountInv'
  <2>1. batch \in Seq(Items) /\ w \in Writers
    BY WorkloadAssumption DEF Writers
  <2>2. \A i \in {} : i[1] \in KeysOf(batch)
    OBVIOUS
  <2> QED
    BY <1>1, <2>1, <2>2, AccountBegin DEF CallStore
<1>2. ASSUME NEW w \in Syncers, NEW item \in Deliveries, CallIngest(w, item)
      PROVE  AccountInv'
  <2>1. item \in Items /\ <<item>> \in Seq(Items) /\ w \in Writers
    BY WorkloadAssumption DEF Writers
  <2>2. {i \in RowsIn(kv) : i[1] = item[1]} \in SUBSET Items
    BY DEF RowsIn
  <2>3. \A i \in {i \in RowsIn(kv) : i[1] = item[1]} : i[1] \in KeysOf(<<item>>)
    BY <2>1 DEF KeysOf
  <2> QED
    BY <1>2, <2>1, <2>2, <2>3, AccountBegin DEF CallIngest
<1>3. ASSUME NEW w \in Writers, WriterStep(w) \/ Drop(w) PROVE AccountInv'
  BY <1>3, AccountWriter
<1>4. CASE SealerStep \/ \E now \in Times : SealPass(now)
  BY <1>4, AccountSealer
<1>5. ASSUME NEW d \in LeafDepths, Reopen(d) PROVE AccountInv'
  BY <1>5, AccountReopen
<1>6. CASE UNCHANGED vars
  <2>1. InflightExact'
    BY <1>6, CountKept DEF AccountInv, vars, seal, calls
  <2>2. TypeOK' /\ \A w \in Writers : MarksHeld(w)'
    BY <1>6 DEF AccountInv, vars, disk, summary, seal, calls, sealerVars,
                TypeOK, MarksHeld
  <2> QED
    BY <2>1, <2>2 DEF AccountInv
<1> QED
  BY <1>1, <1>2, <1>3, <1>4, <1>5, <1>6 DEF Next

LEMMA Accounts == Spec => []AccountInv
BY AccountInit, AccountNext, PTL DEF Spec

\* Every variable keeps its type; in particular no in-flight count of
\* SealState falls below 0.
THEOREM TypeCorrect == Spec => []TypeOK
<1>1. AccountInv => TypeOK
  BY DEF AccountInv
<1> QED
  BY <1>1, Accounts, PTL

\* SealState.inflight counts exactly the writers that hold a mark, through
\* failed deletes, failed commits, dropped calls and restarts.
THEOREM MarksBalance == Spec => []InflightExact
<1>1. AccountInv => InflightExact
  BY DEF AccountInv
<1> QED
  BY <1>1, Accounts, PTL

-----------------------------------------------------------------------------
(* Seal records, whatever the callers write, while every build that opens    *)
(* the store has the same leaf depth.                                        *)

LEMMA RecordInit == Init => RecordInv
BY TasksAssumption DEF Init, RecordInv, IoHeld, RecordsKnown, SealedUnmarked,
   DeletedGone, SnapshotFresh, SealTracksForest, First

\* The least element of a set of epochs is unique.
LEMMA FirstUnique ==
    ASSUME NEW es, es \subseteq Epochs, NEW e, NEW f, First(e, es), First(f, es)
    PROVE  e = f
<1>1. Epochs \subseteq Nat
  BY KeysAssumption DEF Epochs
<1> QED
  BY <1>1 DEF First

\* A fold touches the trees of the epochs its writer holds marked, no other.
LEMMA FoldLocal ==
    ASSUME AccountInv, NEW w \in Writers, Fold(w),
           NEW e \in Epochs, e \notin marked[w]
    PROVE  ForestOf(e)' = ForestOf(e)
<1>1. marked[w] = EpochsOf(rows[w]) /\ \A i \in old[w] : i[1] \in KeysOf(rows[w])
  BY DEF AccountInv, MarksHeld, Fold
<1>2. \A i \in old[w] : EpochOf(i) \in marked[w]
  BY <1>1 DEF EpochsOf, EpochOf
<1>3. \A i \in Folded(rows[w]) : EpochOf(i) \in marked[w]
  BY <1>1 DEF EpochsOf, EpochOf, Folded, RowSet, KeysOf
<1>4. \A i : EpochOf(i) = e => (i \in forest' <=> i \in forest)
  BY <1>2, <1>3 DEF Fold, Xor, Superseded
<1> QED
  BY <1>4 DEF ForestOf, Within

\* A known record and a mark on its epoch exclude each other.
LEMMA MarkedUnsealed ==
    ASSUME AccountInv, RecordInv, NEW w \in Writers, NEW e \in marked[w]
    PROVE  e \in Epochs /\ e \notin sealed /\ record[e] = NoRecord
<1>1. e \in Epochs
  BY DEF AccountInv, TypeOK
<1>2. inflight[e] # 0
  BY <1>1, MarkedPositive DEF AccountInv
<1> QED
  BY <1>1, <1>2 DEF RecordInv, SealedUnmarked, RecordsKnown

\* A step of a call that leaves disk, trees, counts and the sealer alone.
LEMMA RecordCallStep ==
    ASSUME AccountInv, RecordInv, AccountInv', NEW w \in Writers,
           UNCHANGED <<record, forest, sealed, inflight, spc, cands, bytes>>,
           \A v \in Writers \ {w} : pc'[v] = pc[v] /\ todo'[v] = todo[v],
           pc'[w] # "deleted",
           IoHeld'
    PROVE  RecordInv'
<1> USE DEF RecordInv
<1>1. RecordsKnown' /\ SealedUnmarked' /\ SealTracksForest'
  BY DEF RecordsKnown, SealedUnmarked, SealTracksForest, ForestOf
<1>2. SnapshotFresh'
  BY DEF SnapshotFresh, ForestOf
<1>3. DeletedGone'
  BY DEF DeletedGone
<1> QED
  BY <1>1, <1>2, <1>3

\* The steps of a writer.
LEMMA RecordWriter ==
    ASSUME AccountInv, RecordInv, AccountInv',
           NEW w \in Writers, WriterStep(w) \/ Drop(w)
    PROVE  RecordInv'
<1>0. TypeOK /\ TypeOK'
  BY DEF AccountInv
<1> USE <1>0, TasksAssumption
    DEF TypeOK, disk, summary, seal, calls, sealerVars
<1>a. IoHeld
  BY DEF RecordInv
<1>1. ASSUME NEW e \in Epochs, MarkUnsealed(w, e) PROVE RecordInv'
  <2>1. IoHeld' /\ RecordsKnown' /\ SealTracksForest' /\ SnapshotFresh'
    BY <1>1 DEF MarkUnsealed, RecordInv, IoHeld, RecordsKnown,
       SealTracksForest, SnapshotFresh, ForestOf
  <2>2. SealedUnmarked'
    BY <1>1 DEF MarkUnsealed, RecordInv, SealedUnmarked
  <2>3. DeletedGone'
    BY <1>1 DEF MarkUnsealed, RecordInv, DeletedGone
  <2> QED
    BY <2>1, <2>2, <2>3 DEF RecordInv
<1>2. ASSUME NEW e \in Epochs, FindSealed(w, e) PROVE RecordInv'
  <2>1. IoHeld'
    BY <1>2, <1>a DEF FindSealed, IoHeld
  <2> QED
    BY <1>2, <2>1, RecordCallStep DEF FindSealed
<1>3. CASE AcquireIo(w)
  <2>1. IoHeld'
    BY <1>3, <1>a DEF AcquireIo, IoHeld
  <2> QED
    BY <1>3, <2>1, RecordCallStep DEF AcquireIo
<1>4. ASSUME NEW e \in Epochs, DeleteLands(w, e) PROVE RecordInv'
  <2>1. IoHeld'
    BY <1>4, <1>a DEF DeleteLands, IoHeld
  <2>2. RecordsKnown' /\ SealedUnmarked' /\ SealTracksForest'
    BY <1>4 DEF DeleteLands, RecordInv, RecordsKnown, SealedUnmarked,
       SealTracksForest, ForestOf
  <2>3. DeletedGone'
    BY <1>4, FirstUnique DEF DeleteLands, RecordInv, DeletedGone
  <2>4. SnapshotFresh'
    BY <1>4 DEF DeleteLands, RecordInv, SnapshotFresh, ForestOf
  <2> QED
    BY <2>1, <2>2, <2>3, <2>4 DEF RecordInv
<1>5. CASE DeleteFails(w)
  <2>1. IoHeld'
    BY <1>5, <1>a DEF DeleteFails, IoHeld
  <2> QED
    BY <1>5, <2>1, RecordCallStep DEF DeleteFails
<1>6. ASSUME NEW e \in Epochs, MarkDeleted(w, e) PROVE RecordInv'
  <2>1. IoHeld'
    BY <1>6, <1>a DEF MarkDeleted, IoHeld
  <2>2. record[e] = NoRecord
    BY <1>6 DEF MarkDeleted, RecordInv, DeletedGone
  <2>3. RecordsKnown' /\ SealedUnmarked' /\ SealTracksForest'
    BY <1>6, <2>2 DEF MarkDeleted, RecordInv, RecordsKnown, SealedUnmarked,
       SealTracksForest, ForestOf
  <2>4. DeletedGone'
    BY <1>6, <1>a DEF MarkDeleted, IoHeld, RecordInv, DeletedGone
  <2>5. spc \notin {"marked", "persist"}
    BY <1>6, <1>a DEF MarkDeleted, IoHeld
  <2>6. SnapshotFresh'
    BY <1>6, <2>5 DEF MarkDeleted, SnapshotFresh
  <2> QED
    BY <2>1, <2>3, <2>4, <2>6 DEF RecordInv
<1>7. CASE CommitLands(w) \/ CommitFails(w)
  <2>1. IoHeld'
    BY <1>7, <1>a DEF CommitLands, CommitFails, IoHeld
  <2> QED
    BY <1>7, <2>1, RecordCallStep DEF CommitLands, CommitFails
<1>8. CASE Fold(w)
  <2>1. IoHeld'
    BY <1>8, <1>a DEF Fold, IoHeld
  <2>2. RecordsKnown' /\ SealedUnmarked' /\ DeletedGone'
    BY <1>8 DEF Fold, RecordInv, RecordsKnown, SealedUnmarked, DeletedGone
  <2>3. \A e \in sealed : ForestOf(e)' = ForestOf(e)
    BY <1>8, MarkedUnsealed, FoldLocal
  <2>4. SealTracksForest'
    BY <1>8, <2>3 DEF Fold, RecordInv, RecordsKnown, SealTracksForest
  <2>5. SnapshotFresh'
    BY <1>8, <2>3 DEF Fold, RecordInv, SnapshotFresh
  <2> QED
    BY <2>1, <2>2, <2>4, <2>5 DEF RecordInv
<1>9. CASE Publish(w)
  <2>1. IoHeld'
    BY <1>9, <1>a DEF Publish, IoHeld
  <2> QED
    BY <1>9, <2>1, RecordCallStep DEF Publish
<1>10. CASE EndWrites(w)
  <2>1. IoHeld' /\ RecordsKnown' /\ SealTracksForest' /\ SnapshotFresh'
    BY <1>10, <1>a DEF EndWrites, RecordInv, IoHeld, RecordsKnown,
       SealTracksForest, SnapshotFresh, ForestOf
  <2>2. DeletedGone'
    BY <1>10 DEF EndWrites, RecordInv, DeletedGone
  <2>3. ASSUME NEW e \in sealed PROVE inflight'[e] = 0
    <3>1. e \in Epochs /\ e \notin marked[w]
      BY MarkedUnsealed
    <3> QED
      BY <1>10, <3>1 DEF EndWrites, RecordInv, SealedUnmarked
  <2>4. SealedUnmarked'
    BY <1>10, <2>3 DEF EndWrites, SealedUnmarked
  <2> QED
    BY <2>1, <2>2, <2>4 DEF RecordInv
<1>11. CASE Drop(w)
  <2>1. IoHeld'
    BY <1>11, <1>a DEF Drop, AtAwait, IoHeld
  <2> QED
    BY <1>11, <2>1, RecordCallStep DEF Drop
<1> QED
  BY <1>1, <1>2, <1>3, <1>4, <1>5, <1>6, <1>7, <1>8, <1>9, <1>10, <1>11
  DEF WriterStep

\* The steps of the sealer.
LEMMA RecordSealer ==
    ASSUME AccountInv, RecordInv, SealerStep \/ \E now \in Times : SealPass(now)
    PROVE  RecordInv'
<1>0. TypeOK /\ IoHeld
  BY DEF AccountInv, RecordInv
<1> USE <1>0, TasksAssumption
    DEF TypeOK, disk, summary, seal, calls, NextCandidate
<1>1. CASE \/ \E now \in Times : SealPass(now)
           \/ SealPassDone \/ SealLock
  <2>1. spc' \notin {"marked", "persist"}
        /\ UNCHANGED <<record, forest, sealed, inflight, pc, todo>>
    BY <1>1 DEF SealPass, SealPassDone, SealLock
  <2>2. IoHeld'
    BY <1>1 DEF SealPass, SealPassDone, SealLock, IoHeld
  <2>3. RecordsKnown' /\ SealedUnmarked' /\ SealTracksForest' /\ DeletedGone'
    BY <2>1 DEF RecordInv, RecordsKnown, SealedUnmarked, SealTracksForest,
       DeletedGone, ForestOf
  <2>4. SnapshotFresh'
    BY <2>1 DEF SnapshotFresh
  <2> QED
    BY <2>2, <2>3, <2>4 DEF RecordInv
<1>2. ASSUME NEW e \in Epochs, SealSkip(e) PROVE RecordInv'
  BY <1>2 DEF SealSkip, RecordInv, IoHeld, RecordsKnown, SealedUnmarked,
     DeletedGone, SnapshotFresh, SealTracksForest, ForestOf
<1>3. ASSUME NEW e \in Epochs, SealMark(e) PROVE RecordInv'
  <2>1. IoHeld' /\ RecordsKnown' /\ SealedUnmarked' /\ DeletedGone'
        /\ SealTracksForest'
    BY <1>3 DEF SealMark, RecordInv, IoHeld, RecordsKnown, SealedUnmarked,
       DeletedGone, SealTracksForest, ForestOf
  <2>2. record[e] = NoRecord
    BY <1>3 DEF SealMark, RecordInv, RecordsKnown
  <2>3. SnapshotFresh'
    BY <1>3, <2>2, FirstUnique DEF SealMark, SnapshotFresh
  <2> QED
    BY <2>1, <2>3 DEF RecordInv
<1>4. ASSUME NEW e \in Epochs, SealNothing(e) \/ RecordFails(e) PROVE RecordInv'
  <2>1. record[e] = NoRecord
    BY <1>4 DEF SealNothing, RecordFails, RecordInv, SnapshotFresh
  <2>2. IoHeld' /\ SealedUnmarked' /\ DeletedGone' /\ SealTracksForest'
    BY <1>4 DEF SealNothing, RecordFails, RecordInv, IoHeld, SealedUnmarked,
       DeletedGone, SealTracksForest, ForestOf
  <2>3. RecordsKnown'
    BY <1>4, <2>1 DEF SealNothing, RecordFails, RecordInv, RecordsKnown
  <2>4. SnapshotFresh'
    BY <1>4 DEF SealNothing, RecordFails, SnapshotFresh
  <2> QED
    BY <2>2, <2>3, <2>4 DEF RecordInv
<1>5. ASSUME NEW e \in Epochs, SealSnapshot(e) PROVE RecordInv'
  <2>1. IoHeld' /\ RecordsKnown' /\ SealedUnmarked' /\ DeletedGone'
        /\ SealTracksForest'
    BY <1>5 DEF SealSnapshot, RecordInv, IoHeld, RecordsKnown, SealedUnmarked,
       DeletedGone, SealTracksForest, ForestOf
  <2>2. SnapshotFresh'
    BY <1>5, FirstUnique DEF SealSnapshot, RecordInv, SnapshotFresh, ForestOf
  <2> QED
    BY <2>1, <2>2 DEF RecordInv
<1>6. ASSUME NEW e \in Epochs, RecordLands(e) PROVE RecordInv'
  <2>1. e \in sealed /\ bytes = ForestOf(e)
    BY <1>6 DEF RecordLands, RecordInv, SnapshotFresh
  <2>2. IoHeld' /\ RecordsKnown' /\ SealedUnmarked' /\ SnapshotFresh'
    BY <1>6, <2>1 DEF RecordLands, RecordInv, IoHeld, RecordsKnown,
       SealedUnmarked, SnapshotFresh
  <2>3. DeletedGone'
    BY <1>6 DEF RecordLands, IoHeld, DeletedGone
  <2>4. SealTracksForest'
    BY <1>6, <2>1 DEF RecordLands, RecordAt, RecordInv, SealTracksForest, ForestOf
  <2> QED
    BY <2>2, <2>3, <2>4 DEF RecordInv
<1> QED
  BY <1>1, <1>2, <1>3, <1>4, <1>5, <1>6 DEF SealerStep

\* With one leaf depth every record on disk is readable.
LEMMA AllLoadable ==
    ASSUME OneDepth, TypeOK, NEW d \in LeafDepths
    PROVE  Loadable(d) = {e \in Epochs : record[e] # NoRecord}
<1>1. ASSUME NEW e \in Epochs
      PROVE  record[e].depth = d <=> record[e] # NoRecord
  <2>1. CASE record[e] = NoRecord
    BY <2>1, DepthAssumption DEF NoRecord
  <2>2. CASE record[e] \in [depth : LeafDepths, items : SUBSET Items]
    <3>1. record[e].depth \in LeafDepths
      BY <2>2
    <3>2. NoRecord.depth \notin LeafDepths
      BY DepthAssumption DEF NoRecord
    <3> QED
      BY <3>1, <3>2 DEF OneDepth
  <2> QED
    BY <2>1, <2>2 DEF TypeOK, Records
<1> QED
  BY <1>1 DEF Loadable

\* What open rebuilds of an epoch with a record is that record's items.
LEMMA ReopenLoads ==
    ASSUME OneDepth, AccountInv, RecordInv, NEW d \in LeafDepths, Reopen(d),
           NEW e \in Epochs, record[e] # NoRecord
    PROVE  ForestOf(e)' = record[e].items
<1>1. Loadable(d) = {f \in Epochs : record[f] # NoRecord}
  BY AllLoadable DEF AccountInv
<1>2. \A f \in Loadable(d) : record[f].items = ForestOf(f)
  BY <1>1 DEF RecordInv, SealTracksForest
<1>3. \A i : EpochOf(i) = e => (i \in Loaded(d) <=> i \in record[e].items)
  BY <1>1, <1>2 DEF Loaded, ForestOf, Within
<1>4. \A i \in record[e].items : EpochOf(i) = e
  BY <1>1, <1>2 DEF ForestOf, Within
<1>5. \A i \in Scanned(d) : EpochOf(i) # e
  BY <1>1 DEF Scanned
<1>6. forest' = Loaded(d) \union Scanned(d)
  BY DEF Reopen
<1> QED
  BY <1>3, <1>4, <1>5, <1>6 DEF ForestOf, Within

LEMMA RecordReopen ==
    ASSUME OneDepth, AccountInv, RecordInv, NEW d \in LeafDepths, Reopen(d)
    PROVE  RecordInv'
<1>1. Loadable(d) = {e \in Epochs : record[e] # NoRecord}
  BY AllLoadable DEF AccountInv
<1>2. IoHeld' /\ DeletedGone' /\ SnapshotFresh'
  BY TasksAssumption DEF Reopen, IoHeld, DeletedGone, SnapshotFresh, First
<1>3. RecordsKnown' /\ SealedUnmarked'
  BY <1>1 DEF Reopen, disk, RecordsKnown, SealedUnmarked
<1>4. SealTracksForest'
  BY ReopenLoads DEF Reopen, disk, SealTracksForest
<1> QED
  BY <1>2, <1>3, <1>4 DEF RecordInv

\* A call that begins has no hold on anything yet.
LEMMA RecordBegin ==
    ASSUME AccountInv, RecordInv, AccountInv', NEW w \in Writers,
           NEW batch, NEW existing, Begin(w, batch, existing)
    PROVE  RecordInv'
<1> USE DEF disk, summary, seal, sealerVars
<1>1. IoHeld'
  BY TasksAssumption DEF Begin, AccountInv, TypeOK, RecordInv, IoHeld
<1>2. \A v \in Writers \ {w} : pc'[v] = pc[v] /\ todo'[v] = todo[v]
  BY DEF Begin, AccountInv, TypeOK
<1>3. pc'[w] # "deleted"
  BY DEF Begin, AccountInv, TypeOK
<1> QED
  BY <1>1, <1>2, <1>3, RecordCallStep DEF Begin

LEMMA SealNext ==
    ASSUME OneDepth
    PROVE  SealInv /\ [Next]_vars => SealInv'
<1> SUFFICES ASSUME AccountInv, RecordInv, [Next]_vars
             PROVE  AccountInv' /\ RecordInv'
  BY DEF SealInv
<1>0. AccountInv'
  BY AccountNext
<1> USE <1>0
<1>1. ASSUME NEW w \in Writers, NEW batch, NEW existing, Begin(w, batch, existing)
      PROVE  RecordInv'
  BY <1>1, RecordBegin
<1>2. ASSUME NEW w \in Writers, WriterStep(w) \/ Drop(w) PROVE RecordInv'
  BY <1>2, RecordWriter
<1>3. CASE SealerStep \/ \E now \in Times : SealPass(now)
  BY <1>3, RecordSealer
<1>4. ASSUME NEW d \in LeafDepths, Reopen(d) PROVE RecordInv'
  BY <1>4, RecordReopen
<1>5. CASE UNCHANGED vars
  BY <1>5 DEF vars, disk, summary, seal, calls, sealerVars, RecordInv, IoHeld,
     RecordsKnown, SealedUnmarked, DeletedGone, SnapshotFresh,
     SealTracksForest, ForestOf
<1> QED
  BY <1>1, <1>2, <1>3, <1>4, <1>5 DEF Next, CallStore, CallIngest, Writers

LEMMA Seals ==
    ASSUME OneDepth
    PROVE  Spec => []SealInv
<1>1. Init => SealInv
  BY AccountInit, RecordInit DEF SealInv
<1> QED
  BY <1>1, SealNext, PTL DEF Spec

\* Whatever callers write, a seal record on disk is the tree in memory.
THEOREM SealRecordsTrack ==
    ASSUME OneDepth
    PROVE  Spec => []SealTracksForest
<1>1. SealInv => SealTracksForest
  BY DEF SealInv, RecordInv
<1> QED
  BY <1>1, Seals, PTL

\* Rows change only in epochs whose record is gone: a data commit follows the
\* marks of all its epochs, and a mark excludes a record.
LEMMA CommitUnsealed ==
    ASSUME SealInv, [Next]_vars, NEW k \in Keys, kv'[k] # kv[k]
    PROVE  record[KeyEpoch[k]] = NoRecord
<1> USE DEF disk
<1>1. PICK w \in Writers : CommitLands(w)
  BY DEF Next, vars, CallStore, CallIngest, Begin, WriterStep, MarkUnsealed,
     FindSealed, AcquireIo, DeleteLands, DeleteFails, MarkDeleted, CommitFails,
     Fold, Publish, EndWrites, Drop, SealPass, SealerStep, SealPassDone,
     SealLock, SealSkip, SealMark, SealNothing, SealSnapshot, RecordLands,
     RecordFails, Reopen
<1>2. k \in KeysOf(rows[w])
  <2>1. SetInOrder(rows[w], kv, kv')
    BY <1>1 DEF CommitLands
  <2>2. PICK n \in DOMAIN rows[w] : rows[w][n] = <<k, kv'[k]>>
    BY <2>1 DEF SetInOrder
  <2> QED
    BY <2>2 DEF KeysOf
<1>3. KeyEpoch[k] \in EpochsOf(rows[w])
  BY <1>2 DEF EpochsOf
<1>4. marked[w] = EpochsOf(rows[w])
  BY <1>1 DEF CommitLands, SealInv, AccountInv, MarksHeld, PreCommit
<1> QED
  BY <1>3, <1>4, MarkedUnsealed DEF SealInv

THEOREM UnsealBeforeWrite ==
    ASSUME OneDepth
    PROVE  Spec => UnsealFirst
<1>1. SealInv /\ [Next]_vars
        => [\A k \in Keys : kv'[k] # kv[k] => record[KeyEpoch[k]] = NoRecord]_vars
  BY CommitUnsealed
<1> QED
  BY <1>1, Seals, PTL DEF Spec, UnsealFirst
=============================================================================
