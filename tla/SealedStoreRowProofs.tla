------------------------ MODULE SealedStoreRowProofs ------------------------
(***************************************************************************)
(* Theorems about SealedStore for callers that never store a key twice nor *)
(* write one key concurrently, and builds of one leaf depth: the summary   *)
(* and the seal records are the data, and the disk behaves as SealedDisk.  *)
(***************************************************************************)
EXTENDS SealedStoreProofs

-----------------------------------------------------------------------------
(* Lemmas on the rows under one key *)

\* A row set that shares no key with k leaves what lies under k alone.
LEMMA XorElsewhere ==
    ASSUME NEW A, NEW B, NEW k, \A i \in B : i[1] # k
    PROVE  At(Xor(A, B), k) = At(A, k)
BY DEF At, Xor

\* With distinct keys each row is folded in once.
LEMMA DistinctFold ==
    ASSUME NEW rs \in Seq(Items), DistinctKeys(rs)
    PROVE  Folded(rs) = RowSet(rs)
<1> SUFFICES ASSUME NEW i \in RowSet(rs)
             PROVE  Cardinality({n \in DOMAIN rs : rs[n] = i}) % 2 = 1
  BY DEF Folded
<1>1. PICK n \in DOMAIN rs : rs[n] = i
  BY DEF RowSet
<1>2. {m \in DOMAIN rs : rs[m] = i} = {n}
  BY <1>1 DEF DistinctKeys
<1>3. Cardinality({m \in DOMAIN rs : rs[m] = i}) = 1
  BY <1>2, FS_Singleton
<1> QED
  BY <1>3

\* Rows that are all on disk are what the disk holds under their keys.
LEMMA RowsAtKey ==
    ASSUME NEW rs \in Seq(Items), RowSet(rs) \subseteq RowsIn(kv),
           NEW k \in KeysOf(rs)
    PROVE  At(RowSet(rs), k) = At(RowsIn(kv), k)
<1>1. At(RowSet(rs), k) \subseteq At(RowsIn(kv), k)
  BY DEF At
<1>2. ASSUME NEW i \in At(RowsIn(kv), k) PROVE i \in At(RowSet(rs), k)
  <2>1. PICK n \in DOMAIN rs : rs[n][1] = k
    BY DEF KeysOf
  <2>2. rs[n] \in RowsIn(kv) /\ rs[n] \in RowSet(rs)
    BY DEF RowSet
  <2>3. rs[n] \in Items /\ rs[n][2] = kv[k] /\ i \in Items /\ i[1] = k /\ i[2] = kv[k]
    BY <2>1, <2>2, <1>2 DEF RowsIn, At
  <2>4. rs[n] = i
    BY <2>1, <2>3 DEF Items
  <2> QED
    BY <2>2, <2>3, <2>4 DEF At
<1> QED
  BY <1>1, <1>2

\* A commit changes only what lies under its rows' keys.
LEMMA CommitElsewhere ==
    ASSUME NEW w \in Writers, CommitLands(w), NEW k \in Keys, k \notin KeysOf(rows[w])
    PROVE  At(RowsIn(kv), k)' = At(RowsIn(kv), k)
<1>1. SetInOrder(rows[w], kv, kv')
  BY DEF CommitLands
<1>2. ASSUME NEW n \in DOMAIN rows[w], rows[w][n] = <<k, kv'[k]>> PROVE FALSE
  BY <1>2 DEF KeysOf
<1>3. kv'[k] = kv[k]
  BY <1>1, <1>2 DEF SetInOrder
<1> QED
  BY <1>3 DEF At, RowsIn

\* A commit of rows with distinct keys puts every one of them on disk.
LEMMA CommitRows ==
    ASSUME TypeOK, NEW w \in Writers, CommitLands(w), DistinctKeys(rows[w])
    PROVE  RowSet(rows[w]) \subseteq RowsIn(kv)'
<1> SUFFICES ASSUME NEW n \in DOMAIN rows[w] PROVE rows[w][n] \in RowsIn(kv)'
  BY DEF RowSet
<1>1. rows[w] \in Seq(Items) /\ rows[w][n] \in Items
  BY DEF TypeOK
<1>2. SetInOrder(rows[w], kv, kv')
  BY DEF CommitLands
<1>3. rows[w][n][1] \in Keys /\ rows[w][n][1] \in KeysOf(rows[w])
  BY <1>1 DEF Items, KeysOf
<1>4. PICK m \in DOMAIN rows[w] :
        rows[w][m] = <<rows[w][n][1], kv'[rows[w][n][1]]>>
  BY <1>2, <1>3 DEF SetInOrder
<1>5. m = n
  BY <1>4 DEF DistinctKeys
<1> QED
  BY <1>1, <1>4, <1>5 DEF RowsIn

-----------------------------------------------------------------------------
(* The invariant on rows *)

LEMMA RowInit == Init => RowInv
<1> SUFFICES ASSUME Init PROVE RowInv
  OBVIOUS
<1>1. \A w \in Writers : pc[w] = "idle"
  BY DEF Init
<1>2. KeysApart /\ ReadsCurrent /\ FoldReady
  BY <1>1 DEF KeysApart, ReadsCurrent, FoldReady, Active, PreCommit
<1>3. RowsIn(kv) = {} /\ forest = {}
  BY PayloadsAssumption DEF Init, RowsIn, Items, NoPayload
<1>4. KeysFolded /\ ForestInTrees
  BY <1>3 DEF KeysFolded, ForestInTrees, At
<1> QED
  BY <1>2, <1>4 DEF RowInv

\* What a call may do before its commit, or after its fold, to the places and
\* marks: neither rows nor forest move.
LEMMA RowCallStep ==
    ASSUME TypeOK, RowInv, NEW w \in Writers,
           UNCHANGED <<kv, forest, trees, rows, old>>,
           \A v \in Writers \ {w} : pc'[v] = pc[v] /\ marked'[v] = marked[v],
           \/ pc[w] \in PreCommit /\ pc'[w] \in PreCommit \union {"end", "dropped"}
           \/ pc[w] = "publish" /\ pc'[w] = "end"
    PROVE  RowInv'
<1> USE DEF RowInv
<1>1. \A v \in Writers : pc'[v] \in Active => pc[v] \in Active
  BY DEF Active, PreCommit
<1>2. \A k : Stranded(k) => Stranded(k)'
  <2>1. pc[w] # "dropped"
    BY DEF PreCommit
  <2> QED
    BY <2>1 DEF Stranded
<1>3. \A v \in Writers : pc'[v] \in {"fold", "publish"} => pc'[v] = pc[v]
  BY DEF PreCommit
<1>4. KeysApart'
  BY <1>1 DEF KeysApart
<1>5. ReadsCurrent'
  BY DEF ReadsCurrent, PreCommit
<1>6. FoldReady'
  BY <1>1, <1>2, <1>3 DEF FoldReady
<1>7. \A k : Unfolded(k) => Unfolded(k)'
  BY DEF Unfolded, PreCommit
<1>8. KeysFolded'
  BY <1>2, <1>7 DEF KeysFolded
<1>9. ForestInTrees'
  BY DEF ForestInTrees
<1> QED
  BY <1>4, <1>5, <1>6, <1>8, <1>9

\* A call begins on keys no other live call writes.
LEMMA RowBegin ==
    ASSUME TypeOK, RowInv, NEW w \in Writers,
           NEW batch \in Seq(Items), NEW existing \in SUBSET Items,
           Begin(w, batch, existing), DistinctKeys(batch),
           \A k \in KeysOf(batch) : ~Busy(k) /\ At(existing, k) = At(RowsIn(kv), k)
    PROVE  RowInv'
<1> USE DEF RowInv, Begin, TypeOK
<1>1. /\ UNCHANGED <<kv, forest, trees, marked>>
      /\ pc[w] = "idle" /\ pc'[w] = "begin"
      /\ rows'[w] = batch /\ old'[w] = existing
      /\ \A v \in Writers \ {w} :
            pc'[v] = pc[v] /\ rows'[v] = rows[v] /\ old'[v] = old[v]
  BY DEF disk, summary
<1> HIDE DEF Begin
<1>2. \A k : Stranded(k)' <=> Stranded(k)
  BY <1>1 DEF Stranded
<1>3. \A k : Unfolded(k)' <=> Unfolded(k)
  BY <1>1 DEF Unfolded
<1>4. KeysApart'
  <2>1. ASSUME NEW v \in Writers, v # w, pc[v] \in Active
        PROVE  KeysOf(rows[v]) \intersect KeysOf(batch) = {}
    BY <2>1 DEF Busy, Active
  <2> QED
    BY <1>1, <2>1 DEF KeysApart
<1>5. ReadsCurrent'
  BY <1>1 DEF ReadsCurrent
<1>6. FoldReady'
  BY <1>1, <1>2 DEF FoldReady
<1>7. KeysFolded' /\ ForestInTrees'
  BY <1>1, <1>2, <1>3 DEF KeysFolded, ForestInTrees
<1> QED
  BY <1>4, <1>5, <1>6, <1>7

\* A commit lands rows the forest is about to be given.
LEMMA RowCommit ==
    ASSUME AccountInv, RowInv, NEW w \in Writers, CommitLands(w)
    PROVE  RowInv'
<1> USE DEF RowInv
<1>0. TypeOK
  BY DEF AccountInv
<1>1. /\ UNCHANGED <<forest, trees, rows, old, marked>>
      /\ pc[w] = "begin" /\ pc'[w] = "fold"
      /\ \A v \in Writers \ {w} : pc'[v] = pc[v]
  BY <1>0 DEF CommitLands, TypeOK, summary
<1>2. \A v \in Writers : pc'[v] \in Active <=> pc[v] \in Active
  BY <1>1 DEF Active
<1>3. DistinctKeys(rows[w])
  BY <1>1 DEF FoldReady, Active
<1>4. ASSUME NEW v \in Writers, v # w, pc[v] \in Active, NEW k \in KeysOf(rows[v])
      PROVE  k \in Keys /\ k \notin KeysOf(rows[w])
  <2>1. k \in Keys
    BY <1>0, RowsTyped DEF TypeOK
  <2> QED
    BY <1>1, <1>4, <2>1 DEF KeysApart, Active
<1>5. \A k : Stranded(k)' <=> Stranded(k)
  BY <1>1 DEF Stranded
<1>6. KeysApart'
  BY <1>1, <1>2 DEF KeysApart
<1>7. ReadsCurrent'
  <2> SUFFICES ASSUME NEW v \in Writers, pc'[v] \in PreCommit, NEW k \in KeysOf(rows[v])
               PROVE  At(old[v], k) = At(RowsIn(kv), k)'
    BY <1>1 DEF ReadsCurrent
  <2>1. v # w /\ pc[v] \in PreCommit /\ pc[v] \in Active
    BY <1>1 DEF PreCommit, Active
  <2>2. At(RowsIn(kv), k)' = At(RowsIn(kv), k)
    BY <1>4, <2>1, CommitElsewhere
  <2>3. At(old[v], k) = At(RowsIn(kv), k)
    BY <2>1 DEF ReadsCurrent
  <2> QED
    BY <2>2, <2>3
<1>8. RowSet(rows[w]) \subseteq RowsIn(kv)'
  BY <1>0, <1>3, CommitRows
<1>9. ASSUME NEW v \in Writers, v # w, pc[v] \in {"fold", "publish"}
      PROVE  RowSet(rows[v]) \subseteq RowsIn(kv)'
  <2> SUFFICES ASSUME NEW n \in DOMAIN rows[v] PROVE rows[v][n] \in RowsIn(kv)'
    BY DEF RowSet
  <2>1. pc[v] \in Active
    BY <1>9 DEF Active
  <2>2. rows[v][n] \in RowsIn(kv)
    BY <1>9 DEF FoldReady, RowSet
  <2>3. PICK k \in KeysOf(rows[v]) : k = rows[v][n][1]
    BY DEF KeysOf
  <2>4. At(RowsIn(kv), k)' = At(RowsIn(kv), k)
    BY <1>4, <1>9, <2>1, <2>3, CommitElsewhere
  <2> QED
    BY <2>2, <2>3, <2>4 DEF At
<1>10. ASSUME NEW k \in KeysOf(rows[w])
       PROVE  Stranded(k) \/ At(forest, k) = At(old[w], k)
  <2>1. k \in Keys
    BY <1>0, RowsTyped DEF TypeOK
  <2>2. ~Unfolded(k)
    BY <1>1 DEF Unfolded, KeysApart, Active
  <2>3. At(old[w], k) = At(RowsIn(kv), k)
    BY <1>1 DEF ReadsCurrent, PreCommit
  <2> QED
    BY <2>1, <2>2, <2>3 DEF KeysFolded
<1>11. FoldReady'
  <2> SUFFICES ASSUME NEW v \in Writers
               PROVE
        /\ pc'[v] \in Active => DistinctKeys(rows[v])
        /\ pc'[v] \in {"fold", "publish"} => RowSet(rows[v]) \subseteq RowsIn(kv)'
        /\ pc'[v] = "fold" =>
              \A k \in KeysOf(rows[v]) :
                  Stranded(k)' \/ At(forest, k) = At(old[v], k)
        /\ pc'[v] = "publish" =>
              \A k \in KeysOf(rows[v]) :
                  Stranded(k)' \/ At(forest, k) = At(RowsIn(kv), k)'
    BY <1>1 DEF FoldReady
  <2>1. CASE v = w
    BY <1>1, <1>3, <1>5, <1>8, <1>10, <2>1
  <2>2. CASE v # w
    <3>1. pc'[v] = pc[v]
      BY <1>1, <2>2
    <3>2. pc[v] = "publish" => \A k \in KeysOf(rows[v]) :
             At(RowsIn(kv), k)' = At(RowsIn(kv), k)
      BY <1>4, <2>2, CommitElsewhere DEF Active
    <3> QED
      BY <1>5, <1>9, <2>2, <3>1, <3>2 DEF FoldReady
  <2> QED
    BY <2>1, <2>2
<1>12. KeysFolded'
  <2> SUFFICES ASSUME NEW k \in Keys
               PROVE  At(forest, k) = At(RowsIn(kv), k)' \/ Unfolded(k)' \/ Stranded(k)'
    BY <1>1 DEF KeysFolded
  <2>1. CASE k \in KeysOf(rows[w])
    BY <1>1, <2>1 DEF Unfolded
  <2>2. CASE k \notin KeysOf(rows[w])
    <3>1. At(RowsIn(kv), k)' = At(RowsIn(kv), k)
      BY <2>2, CommitElsewhere
    <3>2. Unfolded(k) => Unfolded(k)'
      BY <1>1 DEF Unfolded
    <3> QED
      BY <1>5, <3>1, <3>2 DEF KeysFolded
  <2> QED
    BY <2>1, <2>2
<1>13. ForestInTrees'
  BY <1>1 DEF ForestInTrees
<1> QED
  BY <1>6, <1>7, <1>11, <1>12, <1>13

\* A fold leaves what lies under other keys alone.
LEMMA FoldElsewhere ==
    ASSUME AccountInv, NEW w \in Writers, Fold(w), NEW k, k \notin KeysOf(rows[w])
    PROVE  At(forest, k)' = At(forest, k)
<1>1. \A i \in Superseded(w) : i[1] # k
  BY DEF AccountInv, MarksHeld, Superseded
<1>2. \A i \in Folded(rows[w]) : i[1] # k
  BY DEF Folded, RowSet, KeysOf
<1>3. At(Xor(forest, Superseded(w)), k) = At(forest, k)
  BY <1>1, XorElsewhere
<1>4. At(Xor(Xor(forest, Superseded(w)), Folded(rows[w])), k)
        = At(Xor(forest, Superseded(w)), k)
  BY <1>2, XorElsewhere
<1>5. forest' = Xor(Xor(forest, Superseded(w)), Folded(rows[w]))
  BY DEF Fold
<1> QED
  BY <1>3, <1>4, <1>5

\* A fold over what its call read replaces it by what the call wrote.
LEMMA FoldReplaces ==
    ASSUME AccountInv, RowInv, NEW w \in Writers, Fold(w),
           NEW k \in KeysOf(rows[w]), At(forest, k) = At(old[w], k)
    PROVE  At(forest, k)' = At(RowsIn(kv), k)
<1>0. rows[w] \in Seq(Items) /\ pc[w] = "fold"
  BY DEF AccountInv, TypeOK, Fold
<1>1. At(Superseded(w), k) = At(forest, k)
  <2>1. At(old[w], k) \subseteq forest
    BY DEF At
  <2>2. \A i \in At(old[w], k) : EpochOf(i) \in trees
    BY <2>1 DEF RowInv, ForestInTrees
  <2> QED
    BY <2>2 DEF At, Superseded
<1>2. Folded(rows[w]) = RowSet(rows[w])
  BY <1>0, DistinctFold DEF RowInv, FoldReady, Active
<1>3. At(RowSet(rows[w]), k) = At(RowsIn(kv), k)
  BY <1>0, RowsAtKey DEF RowInv, FoldReady
<1>4. forest' = Xor(Xor(forest, Superseded(w)), Folded(rows[w]))
  BY DEF Fold
<1>5. At(Xor(Xor(forest, Superseded(w)), Folded(rows[w])), k) = At(Folded(rows[w]), k)
  BY <1>1 DEF At, Xor
<1> QED
  BY <1>2, <1>3, <1>4, <1>5

LEMMA RowFold ==
    ASSUME AccountInv, RowInv, NEW w \in Writers, Fold(w)
    PROVE  RowInv'
<1> USE DEF RowInv
<1>0. TypeOK
  BY DEF AccountInv
<1>1. /\ UNCHANGED <<kv, rows, old, marked>>
      /\ pc[w] = "fold" /\ pc'[w] = "publish"
      /\ \A v \in Writers \ {w} : pc'[v] = pc[v]
  BY <1>0 DEF Fold, TypeOK, disk
<1>2. \A v \in Writers : pc'[v] \in Active <=> pc[v] \in Active
  BY <1>1 DEF Active
<1>3. \A k : Stranded(k)' <=> Stranded(k)
  BY <1>1 DEF Stranded
<1>4. KeysApart' /\ ReadsCurrent'
  BY <1>1, <1>2 DEF KeysApart, ReadsCurrent, PreCommit
<1>5. ASSUME NEW k \in KeysOf(rows[w])
      PROVE  Stranded(k) \/ At(forest, k)' = At(RowsIn(kv), k)
  BY <1>1, FoldReplaces DEF FoldReady
<1>6. FoldReady'
  <2> SUFFICES ASSUME NEW v \in Writers
               PROVE
        /\ pc'[v] \in Active => DistinctKeys(rows[v])
        /\ pc'[v] \in {"fold", "publish"} => RowSet(rows[v]) \subseteq RowsIn(kv)
        /\ pc'[v] = "fold" =>
              \A k \in KeysOf(rows[v]) :
                  Stranded(k)' \/ At(forest, k)' = At(old[v], k)
        /\ pc'[v] = "publish" =>
              \A k \in KeysOf(rows[v]) :
                  Stranded(k)' \/ At(forest, k)' = At(RowsIn(kv), k)
    BY <1>1 DEF FoldReady, At, RowsIn
  <2>1. CASE v = w
    BY <1>1, <1>3, <1>5, <2>1 DEF FoldReady, Active
  <2>2. CASE v # w
    <3>1. pc'[v] = pc[v]
      BY <1>1, <2>2
    <3>2. ASSUME pc[v] \in {"fold", "publish"}, NEW k \in KeysOf(rows[v])
          PROVE  At(forest, k)' = At(forest, k)
      <4>1. k \notin KeysOf(rows[w])
        BY <1>1, <2>2, <3>2 DEF KeysApart, Active
      <4> QED
        BY <4>1, FoldElsewhere
    <3> QED
      BY <1>3, <2>2, <3>1, <3>2 DEF FoldReady
  <2> QED
    BY <2>1, <2>2
<1>7. KeysFolded'
  <2> SUFFICES ASSUME NEW k \in Keys
               PROVE  At(forest, k)' = At(RowsIn(kv), k) \/ Unfolded(k)' \/ Stranded(k)'
    BY <1>1 DEF KeysFolded, At, RowsIn
  <2>1. CASE k \in KeysOf(rows[w])
    BY <1>3, <1>5, <2>1
  <2>2. CASE k \notin KeysOf(rows[w])
    <3>1. At(forest, k)' = At(forest, k)
      BY <2>2, FoldElsewhere
    <3>2. Unfolded(k) => Unfolded(k)'
      BY <1>1, <2>2 DEF Unfolded
    <3> QED
      BY <1>3, <3>1, <3>2 DEF KeysFolded
  <2> QED
    BY <2>1, <2>2
<1>8. ForestInTrees'
  <2>1. forest' \subseteq forest \union Superseded(w) \union Folded(rows[w])
    BY DEF Fold, Xor
  <2>2. \A i \in Folded(rows[w]) : EpochOf(i) \in EpochsOf(rows[w])
    BY DEF Folded, RowSet, EpochsOf, KeysOf, EpochOf
  <2>3. trees' = trees \union EpochsOf(rows[w])
    BY DEF Fold
  <2> QED
    BY <2>1, <2>2, <2>3 DEF ForestInTrees, Superseded
<1> QED
  BY <1>4, <1>6, <1>7, <1>8

\* A call that ends hands its keys back; a call dropped after its commit is
\* left stranded on its marks.
LEMMA RowEnd ==
    ASSUME AccountInv, RowInv, NEW w \in Writers,
           EndWrites(w) \/ (Drop(w) /\ pc[w] = "fold")
    PROVE  RowInv'
<1> USE DEF RowInv
<1>1. /\ UNCHANGED <<kv, forest, trees>>
      /\ pc[w] \in {"end", "fold"} /\ pc'[w] \in {"idle", "dropped"}
      /\ \A v \in Writers \ {w} : /\ pc'[v] = pc[v] /\ rows'[v] = rows[v]
                                  /\ old'[v] = old[v] /\ marked'[v] = marked[v]
  BY DEF AccountInv, TypeOK, EndWrites, Drop, disk, summary
<1>2. \A v \in Writers : pc'[v] \in Active => pc[v] \in Active /\ v # w
  BY <1>1 DEF Active
<1>3. \A k : Stranded(k) => Stranded(k)'
  BY <1>1 DEF Stranded
<1>4. KeysApart' /\ ReadsCurrent'
  BY <1>1, <1>2 DEF KeysApart, ReadsCurrent, PreCommit
<1>5. FoldReady'
  BY <1>1, <1>2, <1>3 DEF FoldReady
<1>6. \A k : Unfolded(k) => Unfolded(k)' \/ Stranded(k)'
  <2> SUFFICES ASSUME NEW k, k \in KeysOf(rows[w]), pc[w] = "fold" PROVE Stranded(k)'
    BY <1>1 DEF Unfolded
  <2>1. Drop(w) /\ pc'[w] = "dropped"
    BY DEF EndWrites, Drop, AccountInv, TypeOK
  <2>2. KeyEpoch[k] \in marked[w]
    BY DEF AccountInv, MarksHeld, EpochsOf
  <2> QED
    BY <2>1, <2>2 DEF Stranded, Drop
<1>7. KeysFolded' /\ ForestInTrees'
  BY <1>1, <1>3, <1>6 DEF KeysFolded, ForestInTrees
<1> QED
  BY <1>4, <1>5, <1>7

\* An epoch no call holds marked is folded in as it is on disk.
LEMMA RowsQuiet ==
    ASSUME AccountInv, RowInv, NEW e \in Epochs, inflight[e] = 0
    PROVE  ForestOf(e) = DataOf(e)
<1>0. TypeOK
  BY DEF AccountInv
<1>1. \A w \in Writers : e \notin marked[w]
  BY <1>0, MarkedPositive DEF AccountInv
<1>2. ASSUME NEW k \in Keys, KeyEpoch[k] = e
      PROVE  At(forest, k) = At(RowsIn(kv), k)
  <2>1. ~Stranded(k)
    BY <1>1, <1>2 DEF Stranded
  <2>2. ASSUME NEW w \in Writers, pc[w] = "fold", k \in KeysOf(rows[w]) PROVE FALSE
    <3>1. marked[w] = EpochsOf(rows[w])
      BY <2>2 DEF AccountInv, MarksHeld
    <3> QED
      BY <1>1, <1>2, <2>2, <3>1 DEF EpochsOf
  <2> QED
    BY <2>1, <2>2 DEF RowInv, KeysFolded, Unfolded
<1>3. \A i \in forest \union RowsIn(kv) : i[1] \in Keys
  BY <1>0 DEF TypeOK, Items, RowsIn
<1>4. \A i : EpochOf(i) = e => (i \in forest <=> i \in RowsIn(kv))
  BY <1>2, <1>3 DEF At, EpochOf
<1> QED
  BY <1>4 DEF ForestOf, DataOf, Within

\* open folds in exactly what is on disk.
LEMMA ReopenFolds ==
    ASSUME OneDepth, SealInv, RowInv, NEW d \in LeafDepths, Reopen(d)
    PROVE  /\ Loaded(d) = {i \in RowsIn(kv) : EpochOf(i) \in Loadable(d)}
           /\ forest' = RowsIn(kv)
<1>0. TypeOK
  BY DEF SealInv, AccountInv
<1>1. Loadable(d) = {e \in Epochs : record[e] # NoRecord}
  BY <1>0, AllLoadable
<1>2. ASSUME NEW e \in Loadable(d)
      PROVE  record[e].items = DataOf(e)
  <2>1. e \in Epochs /\ inflight[e] = 0 /\ record[e].items = ForestOf(e)
    BY <1>1 DEF SealInv, RecordInv, RecordsKnown, SealedUnmarked, SealTracksForest
  <2> QED
    BY <2>1, RowsQuiet DEF SealInv
<1>3. Loaded(d) = {i \in RowsIn(kv) : EpochOf(i) \in Loadable(d)}
  <2>1. \A i : i \in Loaded(d) <=> \E e \in Loadable(d) : i \in DataOf(e)
    BY <1>2 DEF Loaded
  <2> QED
    BY <2>1 DEF DataOf, Within
<1>4. forest' = RowsIn(kv)
  BY <1>3 DEF Scanned, Reopen
<1> QED
  BY <1>3, <1>4

LEMMA RowReopen ==
    ASSUME OneDepth, SealInv, RowInv, NEW d \in LeafDepths, Reopen(d)
    PROVE  RowInv'
<1>1. /\ \A w \in Writers : pc'[w] = "idle"
      /\ kv' = kv
      /\ forest' = RowsIn(kv)
      /\ trees' = Loadable(d) \union {EpochOf(i) : i \in Scanned(d)}
  BY ReopenFolds DEF Reopen, disk
<1>2. KeysApart' /\ ReadsCurrent' /\ FoldReady'
  BY <1>1 DEF KeysApart, ReadsCurrent, FoldReady, Active, PreCommit
<1>3. KeysFolded'
  BY <1>1 DEF KeysFolded, At, RowsIn
<1>4. ForestInTrees'
  BY <1>1 DEF ForestInTrees, Scanned
<1> QED
  BY <1>2, <1>3, <1>4 DEF RowInv

LEMMA RowNext ==
    ASSUME OneDepth, ExclusiveKeys
    PROVE  SealInv /\ RowInv /\ [Next]_vars => RowInv'
<1> SUFFICES ASSUME SealInv, RowInv, [Next]_vars PROVE RowInv'
  OBVIOUS
<1>0. AccountInv /\ TypeOK
  BY DEF SealInv, AccountInv
<1> USE <1>0
<1>1. ASSUME NEW w \in Handlers, NEW batch \in Batches, CallStore(w, batch)
      PROVE  RowInv'
  <2>1. w \in Writers /\ batch \in Seq(Items) /\ {} \in SUBSET Items
    BY WorkloadAssumption DEF Writers
  <2>2. DistinctKeys(batch) /\ \A k \in KeysOf(batch) : ~Busy(k) /\ kv[k] = NoPayload
    BY <1>1 DEF CallStore, Fresh
  <2>3. \A k \in KeysOf(batch) : At({}, k) = At(RowsIn(kv), k)
    <3>1. \A k \in KeysOf(batch) : \A i \in Items : i[1] = k => kv[k] # i[2]
      BY <2>2, PayloadsAssumption DEF Items, NoPayload
    <3> QED
      BY <3>1 DEF At, RowsIn
  <2> QED
    BY <1>1, <2>1, <2>2, <2>3, RowBegin DEF CallStore
<1>2. ASSUME NEW w \in Syncers, NEW item \in Deliveries, CallIngest(w, item)
      PROVE  RowInv'
  <2> DEFINE existing == {i \in RowsIn(kv) : i[1] = item[1]}
  <2>1. w \in Writers /\ <<item>> \in Seq(Items) /\ existing \in SUBSET Items
    BY WorkloadAssumption DEF Writers, RowsIn
  <2>2. DistinctKeys(<<item>>) /\ \A k \in KeysOf(<<item>>) : k = item[1]
    BY DEF DistinctKeys, KeysOf
  <2>3. ~Busy(item[1]) /\ Begin(w, <<item>>, existing)
    BY <1>2 DEF CallIngest
  <2>4. \A k \in KeysOf(<<item>>) : At(existing, k) = At(RowsIn(kv), k)
    BY <2>2 DEF At
  <2> HIDE DEF existing
  <2> QED
    BY <2>1, <2>2, <2>3, <2>4, RowBegin
<1>3. ASSUME NEW w \in Writers, NEW e \in Epochs,
             \/ MarkUnsealed(w, e) \/ FindSealed(w, e)
             \/ DeleteLands(w, e) \/ MarkDeleted(w, e)
      PROVE  RowInv'
  BY <1>3, RowCallStep DEF TypeOK, MarkUnsealed, FindSealed, DeleteLands,
     MarkDeleted, PreCommit, disk, summary, calls
<1>4. ASSUME NEW w \in Writers,
             \/ AcquireIo(w) \/ DeleteFails(w) \/ CommitFails(w) \/ Publish(w)
             \/ Drop(w) /\ pc[w] # "fold"
      PROVE  RowInv'
  BY <1>4, RowCallStep DEF TypeOK, AcquireIo, DeleteFails, CommitFails,
     Publish, Drop, AtAwait, PreCommit, disk, summary, calls
<1>5. ASSUME NEW w \in Writers, CommitLands(w) PROVE RowInv'
  BY <1>5, RowCommit
<1>6. ASSUME NEW w \in Writers, Fold(w) PROVE RowInv'
  BY <1>6, RowFold
<1>7. ASSUME NEW w \in Writers, EndWrites(w) \/ (Drop(w) /\ pc[w] = "fold")
      PROVE  RowInv'
  BY <1>7, RowEnd
<1>8. ASSUME NEW d \in LeafDepths, Reopen(d) PROVE RowInv'
  BY <1>8, RowReopen
<1>9. CASE SealerStep \/ (\E now \in Times : SealPass(now)) \/ UNCHANGED vars
  <2>1. UNCHANGED <<kv, forest, trees, calls>>
    BY <1>9 DEF SealerStep, SealPass, SealPassDone, SealLock, SealSkip, SealMark,
       SealNothing, SealSnapshot, RecordLands, RecordFails, vars, disk, summary,
       NextCandidate
  <2> QED
    BY <2>1 DEF calls, RowInv, KeysApart, ReadsCurrent, FoldReady, KeysFolded,
       ForestInTrees, Stranded, Unfolded, At, RowsIn
<1> QED
  BY <1>1, <1>2, <1>3, <1>4, <1>5, <1>6, <1>7, <1>8, <1>9 DEF Next, WriterStep

LEMMA RowsHold ==
    ASSUME OneDepth, ExclusiveKeys
    PROVE  Spec => [](SealInv /\ RowInv)
<1>1. Init => SealInv /\ RowInv
  BY AccountInit, RecordInit, RowInit DEF SealInv
<1>2. SealInv /\ RowInv /\ [Next]_vars => (SealInv /\ RowInv)'
  BY SealNext, RowNext
<1> QED
  BY <1>1, <1>2, PTL DEF Spec

\* Live calls write different keys, `existing` is current until its commit and
\* the forest still has it afterwards: the accord of calls, data and summary.
THEOREM RowsAccord ==
    ASSUME OneDepth, ExclusiveKeys
    PROVE  Spec => []RowInv
BY RowsHold, PTL

\* The Merkle summary of an epoch no call holds marked is that of its data,
\* through dropped calls, failed commits and restarts.
THEOREM SummaryExact ==
    ASSUME OneDepth, ExclusiveKeys
    PROVE  Spec => []QuietExact
<1>1. SealInv /\ RowInv => QuietExact
  BY RowsQuiet DEF SealInv, QuietExact
<1> QED
  BY <1>1, RowsHold, PTL

\* A seal record on disk exactly matches its epoch's data on disk, so open may
\* trust it whenever a crash comes.
THEOREM RecordsTrustworthy ==
    ASSUME OneDepth, ExclusiveKeys
    PROVE  Spec => []SealMatchesData
<1>1. ASSUME SealInv, RowInv, NEW e \in Epochs, record[e] # NoRecord
      PROVE  record[e].items = DataOf(e)
  <2>1. inflight[e] = 0 /\ record[e].items = ForestOf(e)
    BY <1>1 DEF SealInv, RecordInv, RecordsKnown, SealedUnmarked, SealTracksForest
  <2> QED
    BY <1>1, <2>1, RowsQuiet DEF SealInv
<1>2. SealInv /\ RowInv => SealMatchesData
  BY <1>1 DEF SealMatchesData
<1> QED
  BY <1>2, RowsHold, PTL

-----------------------------------------------------------------------------
(* Events: what a call has committed is folded in when it publishes. *)

LEMMA PayloadsRanked ==
    /\ \A p \in Payloads : p \in Nat /\ p > 0
    /\ \A f \in [Keys -> Payloads \union {NoPayload}], k \in Keys : f[k] \in Nat
<1>1. \A p \in Payloads \union {NoPayload} : p \in Nat
  BY PayloadsAssumption DEF NoPayload
<1>2. \A p \in Payloads : p \in Nat /\ p # 0
  BY PayloadsAssumption
<1> QED
  BY <1>1, <1>2

LEMMA EventInit == Init => EventInv
BY DEF Init, EventInv, Outranking, ForestOlder, PublishedFolded, PreCommit

\* A step that moves neither rows nor forest, and brings no call to its commit
\* or over it.
LEMMA EventStays ==
    ASSUME EventInv, UNCHANGED <<kv, forest>>,
           \A v \in Writers :
              \/ pc'[v] \notin PreCommit \union {"fold", "publish"}
              \/ /\ pc'[v] = pc[v] \/ (pc[v] \in PreCommit /\ pc'[v] \in PreCommit)
                 /\ rows'[v] = rows[v] /\ old'[v] = old[v]
    PROVE  EventInv'
<1> USE DEF EventInv
<1>1. \A k : Unfolded(k)' => Unfolded(k)
  BY DEF Unfolded, PreCommit
<1>2. Outranking'
  BY DEF Outranking, PreCommit
<1>3. ForestOlder'
  BY <1>1 DEF ForestOlder
<1>4. PublishedFolded'
  BY DEF PublishedFolded, PreCommit
<1> QED
  BY <1>2, <1>3, <1>4

\* A call begins with rows that outrank what is on disk.
LEMMA EventBegin ==
    ASSUME TypeOK, EventInv, NEW w \in Writers, NEW batch, NEW existing,
           Begin(w, batch, existing),
           \A i \in RowSet(batch) : kv[i[1]] < i[2]
    PROVE  EventInv'
<1> USE DEF EventInv
<1>1. /\ UNCHANGED <<kv, forest>>
      /\ pc'[w] = "begin" /\ rows'[w] = batch
      /\ \A v \in Writers \ {w} :
            pc'[v] = pc[v] /\ rows'[v] = rows[v] /\ old'[v] = old[v]
  BY DEF Begin, TypeOK, disk, summary
<1>2. \A k : Unfolded(k)' => Unfolded(k)
  BY <1>1 DEF Unfolded
<1>3. Outranking'
  BY <1>1 DEF Outranking
<1>4. ForestOlder' /\ PublishedFolded'
  BY <1>1, <1>2 DEF ForestOlder, PublishedFolded
<1> QED
  BY <1>3, <1>4

\* A commit raises the rank of what is on disk, under its own keys only.
LEMMA CommitRaises ==
    ASSUME TypeOK, Outranking, NEW w \in Writers, CommitLands(w), NEW k \in Keys
    PROVE  /\ kv[k] \in Nat /\ kv'[k] \in Nat
           /\ k \in KeysOf(rows[w]) => kv[k] < kv'[k]
           /\ k \notin KeysOf(rows[w]) => kv'[k] = kv[k]
<1>1. SetInOrder(rows[w], kv, kv') /\ kv' \in [Keys -> Payloads \union {NoPayload}]
  BY DEF CommitLands
<1>2. kv[k] \in Nat /\ kv'[k] \in Nat
  BY <1>1, PayloadsRanked DEF TypeOK
<1>3. ASSUME k \in KeysOf(rows[w]) PROVE kv[k] < kv'[k]
  <2>1. PICK n \in DOMAIN rows[w] : rows[w][n] = <<k, kv'[k]>>
    BY <1>1, <1>3 DEF SetInOrder
  <2>2. <<k, kv'[k]>> \in RowSet(rows[w])
    BY <2>1 DEF RowSet
  <2>3. pc[w] \in PreCommit
    BY DEF CommitLands, PreCommit
  <2> QED
    BY <2>2, <2>3 DEF Outranking
<1>4. ASSUME k \notin KeysOf(rows[w]) PROVE kv'[k] = kv[k]
  <2>1. ASSUME NEW n \in DOMAIN rows[w], rows[w][n] = <<k, kv'[k]>> PROVE FALSE
    BY <1>4, <2>1 DEF KeysOf
  <2> QED
    BY <1>1, <2>1 DEF SetInOrder
<1> QED
  BY <1>2, <1>3, <1>4

LEMMA EventCommit ==
    ASSUME AccountInv, RowInv, EventInv, NEW w \in Writers, CommitLands(w)
    PROVE  EventInv'
<1> USE DEF EventInv
<1>0. TypeOK
  BY DEF AccountInv
<1>1. /\ UNCHANGED <<forest, rows, old>>
      /\ pc[w] = "begin" /\ pc'[w] = "fold"
      /\ \A v \in Writers \ {w} : pc'[v] = pc[v]
  BY <1>0 DEF CommitLands, TypeOK, summary
<1>2. \A k \in Keys : /\ kv[k] \in Nat /\ kv'[k] \in Nat
                      /\ k \in KeysOf(rows[w]) => kv[k] < kv'[k]
                      /\ k \notin KeysOf(rows[w]) => kv'[k] = kv[k]
  BY <1>0, CommitRaises
<1>3. \A v \in Writers : /\ KeysOf(rows[v]) \subseteq Keys
                         /\ \A i \in RowSet(rows[v]) : i[1] \in KeysOf(rows[v])
                         /\ \A i \in old[v] : i[1] \in KeysOf(rows[v])
  BY <1>0, RowsTyped DEF TypeOK, RowSet, KeysOf, AccountInv, MarksHeld
<1>4. ASSUME NEW v \in Writers, v # w, pc[v] \in Active, NEW k \in KeysOf(rows[v])
      PROVE  kv'[k] = kv[k]
  BY <1>1, <1>2, <1>3, <1>4 DEF RowInv, KeysApart, Active
<1>5. ASSUME NEW i \in old[w] PROVE i[2] < kv'[i[1]]
  <2>1. i[1] \in KeysOf(rows[w]) /\ i \in At(old[w], i[1])
    BY <1>3 DEF At
  <2>2. i \in RowsIn(kv)
    BY <1>1, <2>1 DEF RowInv, ReadsCurrent, PreCommit, At
  <2> QED
    BY <1>2, <1>3, <2>1, <2>2 DEF RowsIn
<1>6. Outranking'
  <2>1. ASSUME NEW v \in Writers, pc'[v] \in PreCommit, NEW i \in RowSet(rows[v])
        PROVE  kv'[i[1]] < i[2]
    <3>1. v # w /\ pc[v] \in PreCommit /\ pc[v] \in Active
      BY <1>1, <2>1 DEF PreCommit, Active
    <3> QED
      BY <1>3, <1>4, <3>1 DEF Outranking
  <2>2. ASSUME NEW v \in Writers, v # w, pc'[v] = "fold", NEW i \in old[v]
        PROVE  i[2] < kv'[i[1]]
    <3>1. pc[v] = "fold" /\ pc[v] \in Active
      BY <1>1, <2>2 DEF Active
    <3> QED
      BY <1>3, <1>4, <2>2, <3>1 DEF Outranking
  <2> QED
    BY <1>1, <1>5, <2>1, <2>2 DEF Outranking
<1>7. ForestOlder'
  <2> SUFFICES ASSUME NEW i \in forest
               PROVE  /\ i[2] <= kv'[i[1]]
                      /\ Unfolded(i[1])' => i[2] < kv'[i[1]]
    BY <1>1 DEF ForestOlder
  <2>1. i[1] \in Keys /\ i[2] \in Nat
    BY <1>0, PayloadsAssumption DEF TypeOK, Items
  <2>2. i[2] <= kv[i[1]] /\ (Unfolded(i[1]) => i[2] < kv[i[1]])
    BY DEF ForestOlder
  <2>3. Unfolded(i[1])' => Unfolded(i[1]) \/ i[1] \in KeysOf(rows[w])
    BY <1>1 DEF Unfolded
  <2> QED
    BY <1>2, <2>1, <2>2, <2>3
<1>8. PublishedFolded'
  BY <1>1 DEF PublishedFolded
<1> QED
  BY <1>6, <1>7, <1>8

\* Nothing a call folds in is in the forest already, nor among what it removes.
LEMMA EventFold ==
    ASSUME AccountInv, RowInv, EventInv, NEW w \in Writers, Fold(w)
    PROVE  EventInv'
<1> USE DEF EventInv
<1>0. TypeOK
  BY DEF AccountInv
<1>1. /\ UNCHANGED <<kv, rows, old>>
      /\ pc[w] = "fold" /\ pc'[w] = "publish"
      /\ \A v \in Writers \ {w} : pc'[v] = pc[v]
      /\ forest' = Xor(Xor(forest, Superseded(w)), Folded(rows[w]))
  BY <1>0 DEF Fold, TypeOK, disk
<1>2. /\ rows[w] \in Seq(Items) /\ RowSet(rows[w]) \subseteq Items
      /\ old[w] \subseteq Items /\ forest \subseteq Items
  BY <1>0, RowsTyped DEF TypeOK
<1>3. Folded(rows[w]) = RowSet(rows[w])
  BY <1>1, <1>2, DistinctFold DEF RowInv, FoldReady, Active
<1>4. ASSUME NEW i \in RowSet(rows[w])
      PROVE  /\ i[2] = kv[i[1]] /\ i[2] \in Nat
             /\ i[1] \in KeysOf(rows[w])
  BY <1>1, <1>2, PayloadsAssumption
     DEF RowInv, FoldReady, RowsIn, Items, RowSet, KeysOf
<1>5. \A k : Unfolded(k)' => Unfolded(k)
  BY <1>1 DEF Unfolded
<1>6. Outranking'
  BY <1>1 DEF Outranking, PreCommit
<1>7. ForestOlder'
  <2> SUFFICES ASSUME NEW i \in forest'
               PROVE  /\ i[2] <= kv[i[1]]
                      /\ Unfolded(i[1])' => i[2] < kv[i[1]]
    BY <1>1 DEF ForestOlder
  <2>1. i \in forest \/ i \in old[w] \/ i \in RowSet(rows[w])
    BY <1>1, <1>3 DEF Xor, Superseded
  <2>2. CASE i \in forest
    BY <1>5, <2>2 DEF ForestOlder
  <2>3. CASE i \in old[w]
    <3>1. i[2] < kv[i[1]]
      BY <1>1, <2>3 DEF Outranking
    <3>2. i[2] \in Nat /\ kv[i[1]] \in Nat
      BY <1>0, <1>2, <2>3, PayloadsRanked DEF TypeOK, Items
    <3> QED
      BY <3>1, <3>2
  <2>4. CASE i \in RowSet(rows[w])
    <3>1. ~Unfolded(i[1])'
      BY <1>1, <1>4, <2>4 DEF Unfolded, RowInv, KeysApart, Active
    <3> QED
      BY <1>4, <2>4, <3>1
  <2> QED
    BY <2>1, <2>2, <2>3, <2>4
<1>8. PublishedFolded'
  <2>1. ASSUME NEW i \in RowSet(rows[w]) PROVE i \in forest'
    <3>1. Unfolded(i[1])
      BY <1>1, <1>4 DEF Unfolded
    <3>2. i \notin forest
      BY <1>4, <3>1 DEF ForestOlder
    <3>3. i \notin Superseded(w)
      BY <1>1, <1>4 DEF Outranking, Superseded
    <3> QED
      BY <1>1, <1>3, <3>2, <3>3 DEF Xor
  <2>2. ASSUME NEW v \in Writers, v # w, pc[v] = "publish", NEW i \in RowSet(rows[v])
        PROVE  i \in forest'
    <3>1. i \in At(forest, i[1])
      BY <2>2 DEF PublishedFolded, At
    <3>2. i[1] \notin KeysOf(rows[w])
      <4>1. i[1] \in KeysOf(rows[v])
        BY DEF RowSet, KeysOf
      <4> QED
        BY <1>1, <2>2, <4>1 DEF RowInv, KeysApart, Active
    <3>3. At(forest, i[1])' = At(forest, i[1])
      BY <3>2, FoldElsewhere
    <3> QED
      BY <3>1, <3>3 DEF At
  <2> QED
    BY <1>1, <2>1, <2>2 DEF PublishedFolded
<1> QED
  BY <1>6, <1>7, <1>8

LEMMA EventReopen ==
    ASSUME OneDepth, SealInv, RowInv, NEW d \in LeafDepths, Reopen(d)
    PROVE  EventInv'
<1>1. kv' = kv /\ \A w \in Writers : pc'[w] = "idle"
  BY DEF Reopen, disk
<1>2. forest' = RowsIn(kv)
  BY ReopenFolds
<1>3. ~\E k : Unfolded(k)'
  BY <1>1 DEF Unfolded
<1>4. ASSUME NEW i \in RowsIn(kv) PROVE i[2] <= kv[i[1]]
  <2>1. i[2] \in Payloads /\ i[2] = kv[i[1]]
    BY DEF RowsIn, Items
  <2> QED
    BY <2>1, PayloadsRanked
<1>5. ForestOlder'
  BY <1>1, <1>2, <1>3, <1>4 DEF ForestOlder
<1>6. Outranking' /\ PublishedFolded'
  BY <1>1 DEF Outranking, PublishedFolded, PreCommit
<1> QED
  BY <1>5, <1>6 DEF EventInv

LEMMA EventNext ==
    ASSUME OneDepth, ExclusiveKeys
    PROVE  SealInv /\ RowInv /\ EventInv /\ [Next]_vars => EventInv'
<1> SUFFICES ASSUME SealInv, RowInv, EventInv, [Next]_vars PROVE EventInv'
  OBVIOUS
<1>0. AccountInv /\ TypeOK
  BY DEF SealInv, AccountInv
<1> USE <1>0
<1>1. ASSUME NEW w \in Handlers, NEW batch \in Batches, CallStore(w, batch)
      PROVE  EventInv'
  <2>1. w \in Writers /\ batch \in Seq(Items)
    BY WorkloadAssumption DEF Writers
  <2>2. RowSet(batch) \subseteq Items /\ \A i \in RowSet(batch) : i[1] \in KeysOf(batch)
    BY <2>1, RowsTyped DEF RowSet, KeysOf
  <2>3. \A k \in KeysOf(batch) : kv[k] = NoPayload
    BY <1>1 DEF CallStore, Fresh
  <2>4. ASSUME NEW i \in RowSet(batch) PROVE kv[i[1]] < i[2]
    <3>1. i[2] \in Payloads /\ kv[i[1]] = 0
      BY <2>2, <2>3 DEF Items, NoPayload
    <3> QED
      BY <3>1, PayloadsRanked
  <2> QED
    BY <1>1, <2>1, <2>4, EventBegin DEF CallStore
<1>2. ASSUME NEW w \in Syncers, NEW item \in Deliveries, CallIngest(w, item)
      PROVE  EventInv'
  <2>1. w \in Writers /\ \A i \in RowSet(<<item>>) : i = item
    BY DEF Writers, RowSet
  <2>2. kv[item[1]] < item[2]
    BY <1>2 DEF CallIngest
  <2>3. \A i \in RowSet(<<item>>) : kv[i[1]] < i[2]
    BY <2>1, <2>2
  <2>4. Begin(w, <<item>>, {i \in RowsIn(kv) : i[1] = item[1]})
    BY <1>2 DEF CallIngest
  <2> QED
    BY <2>1, <2>3, <2>4, EventBegin
<1>3. ASSUME NEW w \in Writers, NEW e \in Epochs,
             \/ MarkUnsealed(w, e) \/ FindSealed(w, e)
             \/ DeleteLands(w, e) \/ MarkDeleted(w, e)
      PROVE  EventInv'
  BY <1>3, EventStays DEF TypeOK, MarkUnsealed, FindSealed, DeleteLands,
     MarkDeleted, PreCommit, disk, summary, calls
<1>4. ASSUME NEW w \in Writers,
             \/ AcquireIo(w) \/ DeleteFails(w) \/ CommitFails(w) \/ Publish(w)
             \/ EndWrites(w) \/ Drop(w)
      PROVE  EventInv'
  BY <1>4, EventStays DEF TypeOK, AcquireIo, DeleteFails, CommitFails,
     Publish, EndWrites, Drop, PreCommit, disk, summary, calls
<1>5. ASSUME NEW w \in Writers, CommitLands(w) PROVE EventInv'
  BY <1>5, EventCommit
<1>6. ASSUME NEW w \in Writers, Fold(w) PROVE EventInv'
  BY <1>6, EventFold
<1>7. ASSUME NEW d \in LeafDepths, Reopen(d) PROVE EventInv'
  BY <1>7, EventReopen
<1>8. CASE SealerStep \/ (\E now \in Times : SealPass(now)) \/ UNCHANGED vars
  <2>1. UNCHANGED <<kv, forest, calls>>
    BY <1>8 DEF SealerStep, SealPass, SealPassDone, SealLock, SealSkip, SealMark,
       SealNothing, SealSnapshot, RecordLands, RecordFails, vars, disk, summary,
       NextCandidate
  <2> QED
    BY <2>1, EventStays DEF calls
<1> QED
  BY <1>1, <1>2, <1>3, <1>4, <1>5, <1>6, <1>7, <1>8 DEF Next, WriterStep

\* When a call publishes, every row it wrote is on disk and in the forest: no
\* other call, dropped call, failed commit or seal has undone either since.
THEOREM EventsAfterRows ==
    ASSUME OneDepth, ExclusiveKeys
    PROVE  Spec => EventsOfLandedRows
<1>1. SealInv /\ RowInv /\ EventInv /\ [Next]_vars => EventInv'
  BY EventNext
<1>2. ASSUME RowInv, EventInv, NEW w \in Writers, Publish(w)
      PROVE  RowSet(rows[w]) \subseteq RowsIn(kv) \intersect forest
  BY <1>2 DEF Publish, RowInv, FoldReady, EventInv, PublishedFolded
<1>3. RowInv /\ EventInv /\ [Next]_vars
        => [\A w \in Writers :
              Publish(w) => RowSet(rows[w]) \subseteq RowsIn(kv) \intersect forest]_vars
  BY <1>2
<1> QED
  BY <1>1, <1>3, EventInit, RowsHold, PTL DEF Spec, EventsOfLandedRows

\* "The larger item digest wins" at every commit of ingest, where no key has
\* two writers at once: without that the row read may be stale at the commit.
THEOREM LargerDigestStays ==
    ASSUME OneDepth, ExclusiveKeys
    PROVE  Spec => LargerDigestWins
<1>1. SealInv /\ RowInv /\ EventInv /\ [Next]_vars => EventInv'
  BY EventNext
<1>2. ASSUME SealInv, EventInv, NEW w \in Syncers, CommitLands(w), NEW k \in Keys
      PROVE  kv'[k] >= kv[k]
  <2>1. TypeOK /\ Outranking /\ w \in Writers
    BY <1>2 DEF SealInv, AccountInv, EventInv, Writers
  <2> QED
    BY <1>2, <2>1, CommitRaises
<1>3. SealInv /\ EventInv /\ [Next]_vars
        => [\A w \in Syncers : CommitLands(w) => \A k \in Keys : kv'[k] >= kv[k]]_vars
  BY <1>2
<1> QED
  BY <1>1, <1>3, EventInit, RowsHold, PTL DEF Spec, LargerDigestWins

\* Whenever no call is under way the forest is the data, where no key is stored
\* twice and no key has two writers at once.
THEOREM KeptInLockstep ==
    ASSUME OneDepth, ExclusiveKeys
    PROVE  Spec => []Lockstep
<1>1. ASSUME SealInv, RowInv, \A w \in Writers : pc[w] = "idle"
      PROVE  forest = RowsIn(kv)
  <2>1. \A k \in Keys : At(forest, k) = At(RowsIn(kv), k)
    BY <1>1 DEF RowInv, KeysFolded, Unfolded, Stranded
  <2>2. \A i \in forest \union RowsIn(kv) : i[1] \in Keys
    BY <1>1 DEF SealInv, AccountInv, TypeOK, RowsIn, Items
  <2> QED
    BY <2>1, <2>2 DEF At
<1>2. SealInv /\ RowInv => Lockstep
  BY <1>1 DEF Lockstep
<1> QED
  BY <1>2, RowsHold, PTL

-----------------------------------------------------------------------------
(* The store implements SealedDisk. *)

LEMMA DiskInit == Init => Disk!Init
BY DEF Init, Disk!Init, NoPayload, NoRecord, Epochs,
   Disk!NoPayload, Disk!NoRecord, Disk!Epochs

LEMMA DiskNext ==
    ASSUME OneDepth, SealInv, RowInv, [Next]_vars
    PROVE  [Disk!Next]_(Disk!diskVars)
<1>1. ASSUME NEW w \in Writers, CommitLands(w) PROVE Disk!Write
  <2>1. record' = record /\ kv' \in [Keys -> Payloads \union {NoPayload}]
    BY <1>1 DEF CommitLands
  <2>2. \A k \in Keys : kv'[k] # kv[k] => record[KeyEpoch[k]] = NoRecord
    BY CommitUnsealed
  <2> QED
    BY <2>1, <2>2 DEF Disk!Write, NoPayload, NoRecord, Disk!NoPayload, Disk!NoRecord
<1>2. ASSUME NEW w \in Writers, NEW e \in Epochs, DeleteLands(w, e)
      PROVE  Disk!Unseal(e)
  BY <1>2 DEF DeleteLands, Disk!Unseal, NoRecord, Disk!NoRecord
<1>3. ASSUME NEW e \in Epochs, RecordLands(e) PROVE Disk!Seal(e, depth)
  <2>1. e \in sealed /\ bytes = ForestOf(e) /\ bytes # {}
    BY <1>3 DEF RecordLands, SealInv, RecordInv, SnapshotFresh
  <2>2. ForestOf(e) = DataOf(e)
    BY <2>1, RowsQuiet DEF SealInv, RecordInv, SealedUnmarked
  <2>3. Disk!Within(Disk!RowsIn(kv), e) = DataOf(e)
    BY DEF DataOf, Within, RowsIn, EpochOf, Items,
       Disk!Within, Disk!RowsIn, Disk!EpochOf, Disk!Items
  <2>4. record' = [record EXCEPT ![e] = [depth |-> depth, items |-> bytes]] /\ kv' = kv
    BY <1>3 DEF RecordLands, RecordAt
  <2> QED
    BY <2>1, <2>2, <2>3, <2>4 DEF Disk!Seal, Disk!RecordAt
<1>4. CASE \/ \E w \in Writers : CommitLands(w)
           \/ \E w \in Writers, e \in Epochs : DeleteLands(w, e)
           \/ \E e \in Epochs : RecordLands(e)
  <2>1. depth \in LeafDepths
    BY DEF SealInv, AccountInv, TypeOK
  <2> QED
    BY <1>1, <1>2, <1>3, <1>4, <2>1 DEF Disk!Next, Disk!Epochs, Epochs
<1>5. CASE ~(\/ \E w \in Writers : CommitLands(w)
             \/ \E w \in Writers, e \in Epochs : DeleteLands(w, e)
             \/ \E e \in Epochs : RecordLands(e))
  <2>1. UNCHANGED <<kv, record>>
    BY <1>5 DEF Next, vars, disk, CallStore, CallIngest, Begin, WriterStep,
       MarkUnsealed, FindSealed, AcquireIo, DeleteFails, MarkDeleted, CommitFails,
       Fold, Publish, EndWrites, Drop, SealPass, SealerStep, SealPassDone,
       SealLock, SealSkip, SealMark, SealNothing, SealSnapshot, RecordFails, Reopen
  <2> QED
    BY <2>1 DEF Disk!diskVars
<1> QED
  BY <1>4, <1>5

\* Every behaviour of the store, seen on disk, is a behaviour of SealedDisk.
THEOREM ImplementsDisk ==
    ASSUME OneDepth, ExclusiveKeys
    PROVE  Spec => DiskSpec
<1>1. SealInv /\ RowInv /\ [Next]_vars => [Disk!Next]_(Disk!diskVars)
  BY DiskNext
<1> QED
  BY <1>1, DiskInit, RowsHold, PTL DEF Spec, DiskSpec, Disk!Spec
=============================================================================
