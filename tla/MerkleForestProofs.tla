------------------------- MODULE MerkleForestProofs -------------------------
(***************************************************************************)
(* Every forest stands for the items folded into it, and the comparison of *)
(* two forests finds the cells in which they differ: for every set of keys *)
(* and payloads, every depth of the octree, and forests of any leaf depths *)
(* side by side.                                                           *)
(***************************************************************************)
EXTENDS MerkleForest, FiniteSetTheorems, SequenceTheorems, WellFoundedInduction, TLAPS

-----------------------------------------------------------------------------
(* Numbers *)

\* A set of natural numbers that is not empty has a least element.
LEMMA LeastNumber ==
    ASSUME NEW T \in SUBSET Nat, T # {}
    PROVE  \E m \in T : \A n \in T : m <= n
<1> DEFINE Before == OpToRel(<, Nat)
<1>1. IsWellFoundedOn(Before, Nat)
  BY NatLessThanWellFounded
<1>2. ASSUME NEW m \in Nat, NEW n \in Nat, n < m PROVE <<n, m>> \in Before
  BY <1>2 DEF OpToRel
<1> HIDE DEF Before
<1>3. PICK m \in T : \A n \in T : ~(<<n, m>> \in Before)
  BY <1>1, WFMin
<1>4. ASSUME NEW n \in T PROVE m <= n
  <2>1. m \in Nat /\ n \in Nat /\ ~(n < m)
    BY <1>2, <1>3
  <2> QED
    BY <2>1
<1> QED
  BY <1>4

-----------------------------------------------------------------------------
(* Cells *)

\* The levels of the octree, and a path cut off at one of them.
LEMMA PathCut ==
    ASSUME NEW k \in Keys, NEW l \in 0..Levels
    PROVE  /\ SubSeq(Path[k], 1, l) \in Seq(0..7)
           /\ Len(SubSeq(Path[k], 1, l)) = l
           /\ \A n \in 1..l : SubSeq(Path[k], 1, l)[n] = Path[k][n]
<1>1. Path[k] \in [1..Levels -> 0..7] /\ Levels \in Nat /\ l \in Nat
  BY PathAssumption
<1>2. \A n \in 1..l : Path[k][n] \in 0..7
  BY <1>1
<1> QED
  BY <1>1, <1>2, SubSeqProperties

\* A cell's level is that it was made at, and its epoch that of the key.
LEMMA CellParts ==
    ASSUME NEW k \in Keys, NEW l \in 0..Levels
    PROVE  /\ Level(CellAt(k, l)) = l
           /\ CellAt(k, l)[1] = KeyEpoch[k]
           /\ CellAt(k, l)[2] = SubSeq(Path[k], 1, l)
           /\ CellAt(k, l)[1] \in Epochs
  BY PathCut DEF CellAt, Level, Epochs

\* Cutting a cut path off higher up is cutting off the path.
LEMMA PathCutTwice ==
    ASSUME NEW k \in Keys, NEW l \in 0..Levels, NEW m \in 0..l
    PROVE  SubSeq(SubSeq(Path[k], 1, l), 1, m) = SubSeq(Path[k], 1, m)
<1> DEFINE long == SubSeq(Path[k], 1, l)
           short == SubSeq(Path[k], 1, m)
<1>1. m \in 0..Levels /\ m \in Nat /\ l \in Nat /\ m <= l
  BY PathAssumption
<1>2. long \in Seq(0..7) /\ Len(long) = l /\ \A n \in 1..l : long[n] = Path[k][n]
  BY PathCut
<1>3. short \in Seq(0..7) /\ Len(short) = m /\ \A n \in 1..m : short[n] = Path[k][n]
  BY <1>1, PathCut
<1> HIDE DEF long, short
<1>4. \A n \in 1..m : long[n] \in 0..7
  BY <1>1, <1>2, ElementOfSeq
<1>5. /\ SubSeq(long, 1, m) \in Seq(0..7) /\ Len(SubSeq(long, 1, m)) = m
      /\ \A n \in 1..m : SubSeq(long, 1, m)[n] = long[n]
  BY <1>1, <1>4, SubSeqProperties
<1>6. \A n \in 1..m : SubSeq(long, 1, m)[n] = short[n]
  BY <1>1, <1>2, <1>3, <1>5
<1>7. SubSeq(long, 1, m) = short
  BY <1>3, <1>5, <1>6, SeqEqual
<1> QED
  BY <1>7 DEF long, short

\* What the cells down to a level are.
LEMMA CellsBelow ==
    ASSUME NEW l \in 0..Levels, NEW c
    PROVE  /\ c \in CellsTo(l) <=> \E k \in Keys, m \in 0..l : c = CellAt(k, m)
           /\ c \in CellsAt(l) => c \in CellsTo(l) /\ Level(c) = l
           /\ c \in CellsTo(l) => /\ Level(c) \in 0..l /\ Level(c) \in 0..Levels
                                  /\ c[1] \in Epochs /\ c \in EpochCells(c[1], l)
                                  /\ c \in CellsAt(Level(c))
           /\ c \in CellsTo(l) /\ Level(c) = l => c \in CellsAt(l)
<1>1. c \in CellsTo(l) <=> \E k \in Keys, m \in 0..l : c = CellAt(k, m)
  BY DEF CellsTo, CellsAt
<1>2. l \in 0..l /\ \A m \in 0..l : m \in 0..Levels
  BY PathAssumption
<1>3. c \in CellsAt(l) => c \in CellsTo(l) /\ Level(c) = l
  BY <1>1, <1>2, CellParts DEF CellsAt
<1>4. ASSUME c \in CellsTo(l)
      PROVE  /\ Level(c) \in 0..l /\ Level(c) \in 0..Levels
             /\ c[1] \in Epochs /\ c \in EpochCells(c[1], l) /\ c \in CellsAt(Level(c))
  <2>1. PICK k \in Keys, m \in 0..l : c = CellAt(k, m)
    BY <1>1, <1>4
  <2>2. Level(c) = m /\ c[1] \in Epochs
    BY <1>2, <2>1, CellParts
  <2> QED
    BY <1>2, <1>4, <2>1, <2>2 DEF EpochCells, CellsAt
<1> QED
  BY <1>1, <1>3, <1>4

\* A key lies in a cell when its leaf does: one in the cell's epoch, whose
\* digits begin with the cell's.
LEMMA LeafInCell ==
    ASSUME NEW l \in 0..Levels, NEW c \in CellsTo(l), NEW k \in Keys
    PROVE  CellAt(k, Level(c)) = c <=>
               KeyEpoch[k] = c[1] /\ SubSeq(CellAt(k, l)[2], 1, Level(c)) = c[2]
<1>1. PICK j \in Keys, m \in 0..l : c = CellAt(j, m)
  BY CellsBelow
<1>2. m \in 0..Levels
  BY PathAssumption
<1>3. Level(c) = m
  BY <1>1, <1>2, CellParts
<1>4. CellAt(k, l)[2] = SubSeq(Path[k], 1, l)
  BY CellParts
<1>5. SubSeq(CellAt(k, l)[2], 1, m) = SubSeq(Path[k], 1, m)
  BY <1>4, PathCutTwice
<1>6. CellAt(k, m) = <<KeyEpoch[k], SubSeq(Path[k], 1, m)>>
  BY DEF CellAt
<1>7. c = <<c[1], c[2]>>
  BY <1>1 DEF CellAt
<1>8. CellAt(k, m) = c => KeyEpoch[k] = c[1] /\ SubSeq(Path[k], 1, m) = c[2]
  BY <1>2, CellParts
<1>9. KeyEpoch[k] = c[1] /\ SubSeq(Path[k], 1, m) = c[2] => CellAt(k, m) = c
  BY <1>6, <1>7
<1> QED
  BY <1>3, <1>5, <1>8, <1>9

-----------------------------------------------------------------------------
(* Items, and the trees that stand for them *)

\* The tree of an epoch that has counted n items and stands for those of F.
Exact(n, F, e, l) ==
    [count |-> n, hash |-> [c \in EpochCells(e, l) |-> Below(F, c)]]

\* The seal record of such a tree.
Filled(F, e, l) == {c \in Leaves(e, l) : Below(F, c) # {}}
Sealed(n, F, e, l) ==
    [leaf |-> l, count |-> n, hash |-> [c \in Filled(F, e, l) |-> Below(F, c)]]

ItemsOf(e) == {i \in Items : EpochOf(i) = e}

LEMMA ItemKey ==
    ASSUME NEW i \in Items
    PROVE  i[1] \in Keys /\ EpochOf(i) = KeyEpoch[i[1]] /\ EpochOf(i) \in Epochs
  BY DEF Items, EpochOf, Epochs

LEMMA LevelsOfLeaves ==
    /\ \A l \in LeafLevels : l \in 0..Levels /\ l \in Nat /\ l # 0
    /\ Levels \in Nat
  BY LevelsAssumption, PathAssumption

\* The items of an epoch are those in the cells of its tree.
LEMMA BelowWithin ==
    ASSUME NEW l \in 0..Levels, NEW c \in CellsTo(l), NEW F \in SUBSET Items
    PROVE  Below(F, c) \subseteq Within(F, c[1])
<1> SUFFICES ASSUME NEW i \in F, CellAt(i[1], Level(c)) = c PROVE EpochOf(i) = c[1]
  BY DEF Below, Within
<1> QED
  BY ItemKey, LeafInCell

\* Two sets with the same items in an epoch have the same items in its cells.
LEMMA SameWithin ==
    ASSUME NEW l \in 0..Levels, NEW e, NEW c \in EpochCells(e, l),
           NEW F \in SUBSET Items, NEW G \in SUBSET Items, Within(F, e) = Within(G, e)
    PROVE  Below(F, c) = Below(G, c)
<1>1. c \in CellsTo(l) /\ c[1] = e
  BY DEF EpochCells
<1>2. Below(F, c) \subseteq Within(F, e) /\ Below(G, c) \subseteq Within(G, e)
  BY <1>1, BelowWithin
<1> QED
  BY <1>2 DEF Below, Within

LEMMA SameExact ==
    ASSUME NEW l \in 0..Levels, NEW e, NEW n,
           NEW F \in SUBSET Items, NEW G \in SUBSET Items, Within(F, e) = Within(G, e)
    PROVE  Exact(n, F, e, l) = Exact(n, G, e, l)
<1>1. \A c \in EpochCells(e, l) : Below(F, c) = Below(G, c)
  BY SameWithin
<1> QED
  BY <1>1 DEF Exact

\* A tree with nothing folded in is a new one.
LEMMA NewIsExact ==
    ASSUME NEW l \in 0..Levels, NEW e, NEW F \in SUBSET Items, Within(F, e) = {}
    PROVE  NewTree(e, l) = Exact(0, F, e, l)
<1>1. \A c \in EpochCells(e, l) : c[1] = e /\ Below(F, c) \subseteq Within(F, e)
  BY BelowWithin DEF EpochCells
<1>2. \A c \in EpochCells(e, l) : Below(F, c) = {}
  BY <1>1
<1> QED
  BY <1>2 DEF NewTree, Exact

\* A tree that stands for something has a hash at its root, so it is there.
LEMMA ExactIsThere ==
    ASSUME NEW l \in 0..Levels, NEW e \in Epochs, NEW n, NEW F
    PROVE  Exact(n, F, e, l) # NoTree
<1>1. PICK k \in Keys : KeyEpoch[k] = e
  BY DEF Epochs
<1>2. 0 \in 0..l /\ 0 \in 0..Levels
  BY PathAssumption
<1>3. CellAt(k, 0) \in EpochCells(e, l)
  BY <1>1, <1>2, CellParts, CellsBelow DEF EpochCells
<1>4. DOMAIN Exact(n, F, e, l).hash = EpochCells(e, l)
  BY DEF Exact
<1>5. DOMAIN NoTree.hash = {}
  BY DEF NoTree
<1> QED
  BY <1>3, <1>4, <1>5

\* XORing an item into the cells of its path folds it into the tree.
LEMMA ToggleExact ==
    ASSUME NEW l \in 0..Levels, NEW i \in Items, NEW n, NEW F \in SUBSET Items
    PROVE  Toggle(Exact(n, F, EpochOf(i), l), CellAt(i[1], l), {i})
             = Exact(n, Xor(F, {i}), EpochOf(i), l)
<1> DEFINE e == EpochOf(i)
           tree == Exact(n, F, e, l)
           leafCell == CellAt(i[1], l)
<1>1. ASSUME NEW c \in EpochCells(e, l)
      PROVE  (IF SubSeq(leafCell[2], 1, Level(c)) = c[2]
              THEN Xor(Below(F, c), {i}) ELSE Below(F, c)) = Below(Xor(F, {i}), c)
  <2>1. c \in CellsTo(l) /\ c[1] = e
    BY DEF EpochCells
  <2>2. i[1] \in Keys /\ KeyEpoch[i[1]] = e
    BY ItemKey
  <2>3. SubSeq(leafCell[2], 1, Level(c)) = c[2] <=> CellAt(i[1], Level(c)) = c
    BY <2>1, <2>2, LeafInCell
  <2> QED
    BY <2>3 DEF Below, Xor
<1>2. tree = [count |-> n, hash |-> [c \in EpochCells(e, l) |-> Below(F, c)]]
  BY DEF Exact
<1> HIDE DEF tree, leafCell, e
<1>3. Toggle(tree, leafCell, {i}) =
        [count |-> n,
         hash |-> [c \in EpochCells(e, l) |->
                     IF SubSeq(leafCell[2], 1, Level(c)) = c[2]
                     THEN Xor(Below(F, c), {i}) ELSE Below(F, c)]]
  <2> DEFINE old == [c \in EpochCells(e, l) |-> Below(F, c)]
             new == [c \in DOMAIN old |->
                        IF SubSeq(leafCell[2], 1, Level(c)) = c[2]
                        THEN Xor(old[c], {i}) ELSE old[c]]
  <2>1. new = [c \in EpochCells(e, l) |->
                  IF SubSeq(leafCell[2], 1, Level(c)) = c[2]
                  THEN Xor(Below(F, c), {i}) ELSE Below(F, c)]
    OBVIOUS
  <2>2. tree.hash = old
    BY <1>2
  <2>3. Toggle(tree, leafCell, {i}) = [tree EXCEPT !.hash = new]
    BY <2>2 DEF Toggle
  <2> HIDE DEF old, new
  <2>4. [tree EXCEPT !.hash = new] = [count |-> n, hash |-> new]
    BY <1>2
  <2> QED
    BY <2>1, <2>3, <2>4
<1>4. Toggle(tree, leafCell, {i}) = Exact(n, Xor(F, {i}), e, l)
  BY <1>1, <1>3 DEF Exact
<1> QED
  BY <1>4 DEF tree, leafCell, e

\* One item more or less changes the items of its epoch, and their number by
\* at most one.
LEMMA WithinXor ==
    ASSUME NEW i \in Items, NEW F \in SUBSET Items
    PROVE  /\ Xor(F, {i}) \in SUBSET Items
           /\ \A e : e # EpochOf(i) => Within(Xor(F, {i}), e) = Within(F, e)
           /\ i \notin F => Within(Xor(F, {i}), EpochOf(i)) = Within(F, EpochOf(i)) \union {i}
           /\ i \in F => /\ Within(Xor(F, {i}), EpochOf(i)) = Within(F, EpochOf(i)) \ {i}
                         /\ i \in Within(F, EpochOf(i))
  BY DEF Within, Xor

\* A count of at least the items folded in stays one after an insertion, and
\* after the removal of an item that was folded in.
LEMMA CountStep ==
    ASSUME NEW i \in Items, NEW F \in SUBSET Items, NEW n \in Nat,
           IsFiniteSet(Within(F, EpochOf(i))), Cardinality(Within(F, EpochOf(i))) <= n
    PROVE  /\ IsFiniteSet(Within(Xor(F, {i}), EpochOf(i)))
           /\ Cardinality(Within(Xor(F, {i}), EpochOf(i))) <= n + 1
           /\ i \in F => n > 0 /\ Cardinality(Within(Xor(F, {i}), EpochOf(i))) <= n - 1
<1> DEFINE W == Within(F, EpochOf(i))
           V == Within(Xor(F, {i}), EpochOf(i))
<1>1. IsFiniteSet(W) /\ Cardinality(W) \in Nat /\ Cardinality(W) <= n
  BY FS_CardinalityType
<1>2. i \notin F => V = W \union {i}
  BY WithinXor
<1>3. i \in F => V = W \ {i} /\ i \in W
  BY WithinXor
<1> SUFFICES /\ IsFiniteSet(V) /\ Cardinality(V) <= n + 1
             /\ i \in F => n > 0 /\ Cardinality(V) <= n - 1
  OBVIOUS
<1> HIDE DEF V, W
<1>4. CASE i \notin F
  <2>1. IsFiniteSet(W \union {i})
        /\ (Cardinality(W \union {i}) = Cardinality(W)
            \/ Cardinality(W \union {i}) = Cardinality(W) + 1)
    BY <1>1, FS_AddElement
  <2> QED
    BY <1>1, <1>2, <1>4, <2>1
<1>5. CASE i \in F
  <2>1. IsFiniteSet(W \ {i}) /\ Cardinality(W \ {i}) = Cardinality(W) - 1
    BY <1>1, <1>3, <1>5, FS_RemoveElement
  <2>2. Cardinality(W \ {i}) \in Nat
    BY <2>1, FS_CardinalityType
  <2> QED
    BY <1>1, <1>3, <1>5, <2>1, <2>2
<1> QED
  BY <1>4, <1>5

-----------------------------------------------------------------------------
(* A seal record brings its tree back *)

\* An item of the epoch lies in one leaf, its own.
LEMMA LeafOfItem ==
    ASSUME NEW l \in 0..Levels, NEW i \in Items
    PROVE  /\ CellAt(i[1], l) \in Leaves(EpochOf(i), l)
           /\ \A F : \A d \in Leaves(EpochOf(i), l) :
                  i \in Below(F, d) <=> i \in F /\ d = CellAt(i[1], l)
<1>1. i[1] \in Keys /\ KeyEpoch[i[1]] = EpochOf(i)
  BY ItemKey
<1>2. CellAt(i[1], l)[1] = EpochOf(i)
  BY <1>1, CellParts
<1>3. \A d \in Leaves(EpochOf(i), l) : Level(d) = l
  BY CellsBelow DEF Leaves
<1> QED
  BY <1>1, <1>2, <1>3 DEF Leaves, CellsAt, Below

\* The filled leaves under a cell that hold an item.
Holding(F, e, l, c, i) ==
    {d \in Filled(F, e, l) : SubSeq(d[2], 1, Level(c)) = c[2] /\ i \in Below(F, d)}

\* The filled leaves under a cell hold each of its items once.
LEMMA OddOnce ==
    ASSUME NEW l \in 0..Levels, NEW e \in Epochs, NEW F \in SUBSET ItemsOf(e),
           NEW c \in EpochCells(e, l), NEW i \in Items
    PROVE  Cardinality(Holding(F, e, l, c, i)) % 2 = 1 <=> i \in Below(F, c)
<1> DEFINE held == Holding(F, e, l, c, i)
           own == CellAt(i[1], l)
<1>1. c \in CellsTo(l) /\ c[1] = e
  BY DEF EpochCells
<1>2. i[1] \in Keys /\ KeyEpoch[i[1]] = EpochOf(i)
  BY ItemKey
<1>3. i \in F => EpochOf(i) = e
  BY DEF ItemsOf
<1>4. CASE i \in Below(F, c)
  <2>1. i \in F /\ EpochOf(i) = e /\ CellAt(i[1], Level(c)) = c
    BY <1>3, <1>4 DEF Below
  <2>2. SubSeq(own[2], 1, Level(c)) = c[2]
    BY <1>1, <1>2, <2>1, LeafInCell
  <2>3. own \in Leaves(e, l) /\ i \in Below(F, own)
    BY <2>1, LeafOfItem
  <2>4. \A d \in Leaves(e, l) : i \in Below(F, d) => d = own
    BY <2>1, LeafOfItem
  <2>5. held = {own}
    BY <2>2, <2>3, <2>4 DEF Filled, Holding
  <2>6. Cardinality(held) = 1
    BY <2>5, FS_Singleton
  <2> QED
    BY <1>4, <2>6
<1>5. CASE i \notin Below(F, c)
  <2>1. ASSUME NEW d \in held PROVE FALSE
    <3>1. d \in Leaves(e, l) /\ i \in F /\ SubSeq(d[2], 1, Level(c)) = c[2] /\ i \in Below(F, d)
      BY <2>1 DEF Filled, Below, Holding
    <3>2. EpochOf(i) = e /\ d = own
      BY <1>3, <3>1, LeafOfItem
    <3>3. CellAt(i[1], Level(c)) = c
      BY <1>1, <1>2, <3>1, <3>2, LeafInCell
    <3> QED
      BY <1>5, <3>1, <3>3 DEF Below
  <2>2. held = {}
    BY <2>1
  <2>3. Cardinality(held) = 0
    BY <2>2, FS_EmptySet
  <2> QED
    BY <1>5, <2>3
<1> QED
  BY <1>4, <1>5

LEMMA RebuiltExact ==
    ASSUME NEW r \in Replicas, NEW e \in Epochs, NEW l \in 0..Levels, NEW n,
           NEW F \in SUBSET ItemsOf(e), leaf[r] = l, record[r][e] = Sealed(n, F, e, l)
    PROVE  Rebuilt(r, e) = Exact(n, F, e, l)
<1> DEFINE rec == record[r][e]
           In(c) == {d \in DOMAIN rec.hash : SubSeq(d[2], 1, Level(c)) = c[2]}
           Odd(c) == {i \in Items :
                        Cardinality({d \in In(c) : i \in rec.hash[d]}) % 2 = 1}
<1>1. rec.count = n /\ DOMAIN rec.hash = Filled(F, e, l)
      /\ \A d \in Filled(F, e, l) : rec.hash[d] = Below(F, d)
  BY DEF Sealed
<1> HIDE DEF rec
<1>2. ASSUME NEW c \in EpochCells(e, l) PROVE Odd(c) = Below(F, c)
  <2>1. ASSUME NEW i \in Items PROVE i \in Odd(c) <=> i \in Below(F, c)
    <3> DEFINE held == {d \in In(c) : i \in rec.hash[d]}
    <3>1. held = Holding(F, e, l, c, i)
      BY <1>1 DEF Holding
    <3>2. Cardinality(Holding(F, e, l, c, i)) % 2 = 1 <=> i \in Below(F, c)
      BY OddOnce
    <3>3. i \in Odd(c) <=> Cardinality(held) % 2 = 1
      OBVIOUS
    <3> HIDE DEF held, Odd
    <3> QED
      BY <3>1, <3>2, <3>3
  <2>2. Below(F, c) \subseteq Items
    BY DEF Below, ItemsOf
  <2> QED
    BY <2>1, <2>2
<1>3. Rebuilt(r, e) = [count |-> rec.count, hash |-> [c \in EpochCells(e, l) |-> Odd(c)]]
  BY DEF Rebuilt, rec
<1> HIDE DEF Odd
<1> QED
  BY <1>1, <1>2, <1>3 DEF Exact

\* What serialize_epoch keeps of a tree is the record of the items it stands for.
LEMMA SerializeSealed ==
    ASSUME NEW r \in Replicas, NEW e \in Epochs, NEW l \in 0..Levels, NEW n,
           NEW F \in SUBSET Items, leaf[r] = l, trees[r][e] = Exact(n, F, e, l)
    PROVE  Serialize(r, e) = IF Within(F, e) = {} THEN EmptyRecord
                             ELSE Sealed(n, Within(F, e), e, l)
<1> DEFINE W == Within(F, e)
           leaves == {c \in Leaves(e, l) : trees[r][e].hash[c] # {}}
<1>1. \A c \in Leaves(e, l) : c \in EpochCells(e, l)
  BY CellsBelow DEF Leaves, EpochCells
<1>2. \A c \in Leaves(e, l) : Below(F, c) = Below(W, c)
  <2>1. W \in SUBSET Items /\ Within(W, e) = W
    BY DEF Within
  <2> QED
    BY <1>1, <2>1, SameWithin
<1>3. trees[r][e].count = n /\ \A c \in Leaves(e, l) : trees[r][e].hash[c] = Below(W, c)
  BY <1>1, <1>2 DEF Exact
<1>4. leaves = Filled(W, e, l)
  BY <1>3 DEF Filled
<1>5. Filled(W, e, l) = {} <=> W = {}
  <2>1. ASSUME NEW i \in W PROVE CellAt(i[1], l) \in Filled(W, e, l)
    <3>1. i \in Items /\ EpochOf(i) = e
      BY DEF Within
    <3> QED
      BY <2>1, <3>1, LeafOfItem DEF Filled
  <2>2. W = {} => Filled(W, e, l) = {}
    BY DEF Filled, Below
  <2> QED
    BY <2>1, <2>2
<1>6. Serialize(r, e) = IF leaves = {} THEN EmptyRecord
                        ELSE [leaf |-> l, count |-> trees[r][e].count,
                              hash |-> [c \in leaves |-> trees[r][e].hash[c]]]
  BY DEF Serialize
<1>7. [c \in leaves |-> trees[r][e].hash[c]] = [c \in Filled(W, e, l) |-> Below(W, c)]
  BY <1>3, <1>4 DEF Filled
<1> QED
  BY <1>3, <1>4, <1>5, <1>6, <1>7 DEF Sealed

-----------------------------------------------------------------------------
(* The inductive invariant *)

TreeSet == UNION {Trees(e, l) : e \in Epochs, l \in LeafLevels}
RecordSet ==
    {EmptyRecord} \union
    {Sealed(n, F, e, l) : n \in 0..MaxCount, F \in SUBSET Items, e \in Epochs, l \in LeafLevels}

Shapes ==
    /\ leaf \in [Replicas -> LeafLevels]
    /\ trees \in [Replicas -> [Epochs -> TreeSet]]
    /\ record \in [Replicas -> [Epochs -> RecordSet]]
    /\ folded \in [Replicas -> SUBSET Items]
    /\ snapshot \in [Replicas -> [Epochs -> SUBSET Items]]

\* A tree stands for the items folded in under its epoch, and counts them all.
TreeGood(r, e) ==
    /\ trees[r][e].count \in 0..MaxCount
    /\ IsFiniteSet(Within(folded[r], e))
    /\ Cardinality(Within(folded[r], e)) <= trees[r][e].count
    /\ IF trees[r][e] = NoTree THEN Within(folded[r], e) = {}
       ELSE trees[r][e] = Exact(trees[r][e].count, folded[r], e, leaf[r])

\* A record is that of the items sealed, all of its epoch, and counts them all.
RecordGood(r, e) ==
    /\ snapshot[r][e] \subseteq ItemsOf(e) /\ IsFiniteSet(snapshot[r][e])
    /\ IF record[r][e] = EmptyRecord THEN snapshot[r][e] = {}
       ELSE \E n \in 0..MaxCount, l \in LeafLevels :
               /\ record[r][e] = Sealed(n, snapshot[r][e], e, l)
               /\ Cardinality(snapshot[r][e]) <= n

ForestInv ==
    /\ Shapes
    /\ \A r \in Replicas, e \in Epochs : TreeGood(r, e) /\ RecordGood(r, e)

-----------------------------------------------------------------------------
(* One step *)

\* One tree, record or snapshot is replaced.
LEMMA OneReplaced ==
    ASSUME NEW S, NEW f \in [Replicas -> [Epochs -> S]],
           NEW r \in Replicas, NEW e \in Epochs, NEW v \in S
    PROVE  /\ [f EXCEPT ![r][e] = v] \in [Replicas -> [Epochs -> S]]
           /\ [f EXCEPT ![r][e] = v][r][e] = v
           /\ \A q \in Replicas, d \in Epochs :
                 q # r \/ d # e => [f EXCEPT ![r][e] = v][q][d] = f[q][d]
  OBVIOUS

LEMMA ExactInTrees ==
    ASSUME NEW l \in LeafLevels, NEW e \in Epochs, NEW n \in 0..MaxCount, NEW F \in SUBSET Items
    PROVE  Exact(n, F, e, l) \in Trees(e, l) /\ Exact(n, F, e, l) \in TreeSet
<1>1. \A c \in EpochCells(e, l) : Below(F, c) \in SUBSET Items
  BY DEF Below
<1>2. Exact(n, F, e, l) \in Trees(e, l)
  BY <1>1 DEF Exact, Trees
<1> QED
  BY <1>2 DEF TreeSet

\* A tree is left as it is, and so are the items under its epoch.
LEMMA TreeKept ==
    ASSUME Shapes, Shapes', NEW r \in Replicas, NEW e \in Epochs, TreeGood(r, e),
           leaf'[r] = leaf[r], trees'[r][e] = trees[r][e],
           Within(folded'[r], e) = Within(folded[r], e)
    PROVE  TreeGood(r, e)'
<1>1. leaf[r] \in 0..Levels
  BY LevelsOfLeaves DEF Shapes
<1>2. folded[r] \in SUBSET Items /\ folded'[r] \in SUBSET Items
  BY DEF Shapes
<1>3. Exact(trees[r][e].count, folded[r], e, leaf[r])
        = Exact(trees[r][e].count, folded'[r], e, leaf[r])
  BY <1>1, <1>2, SameExact
<1> QED
  BY <1>3 DEF TreeGood

\* A tree is replaced by one of the items now under its epoch.
LEMMA TreeSetTo ==
    ASSUME Shapes', NEW r \in Replicas, NEW e \in Epochs, NEW n \in 0..MaxCount,
           trees'[r][e] = Exact(n, folded'[r], e, leaf'[r]),
           IsFiniteSet(Within(folded'[r], e)), Cardinality(Within(folded'[r], e)) <= n
    PROVE  TreeGood(r, e)'
<1>1. leaf'[r] \in 0..Levels
  BY LevelsOfLeaves DEF Shapes
<1>2. trees'[r][e] # NoTree
  BY <1>1, ExactIsThere
<1>3. trees'[r][e].count = n
  BY DEF Exact
<1> QED
  BY <1>2, <1>3 DEF TreeGood

LEMMA RecordKept ==
    ASSUME NEW r \in Replicas, NEW e \in Epochs, RecordGood(r, e),
           record'[r][e] = record[r][e], snapshot'[r][e] = snapshot[r][e]
    PROVE  RecordGood(r, e)'
  BY DEF RecordGood

\* What an insertion or a removal does: XOR the item into its tree, and count.
LEMMA Folding ==
    ASSUME ForestInv, NEW r \in Replicas, NEW i \in Items, NEW n \in 0..MaxCount,
           NEW e, e = EpochOf(i),
           trees' = [trees EXCEPT ![r][e] = Exact(n, Xor(folded[r], {i}), e, leaf[r])],
           folded' = [folded EXCEPT ![r] = Xor(@, {i})],
           UNCHANGED <<leaf, record, snapshot>>,
           IsFiniteSet(Within(Xor(folded[r], {i}), e)),
           Cardinality(Within(Xor(folded[r], {i}), e)) <= n
    PROVE  ForestInv'
<1> DEFINE new == Exact(n, Xor(folded[r], {i}), e, leaf[r])
<1>1. /\ folded[r] \in SUBSET Items /\ Xor(folded[r], {i}) \in SUBSET Items
      /\ leaf[r] \in LeafLevels /\ e \in Epochs
      /\ trees \in [Replicas -> [Epochs -> TreeSet]] /\ folded \in [Replicas -> SUBSET Items]
  BY WithinXor, ItemKey DEF ForestInv, Shapes
<1>2. new \in TreeSet
  BY <1>1, ExactInTrees
<1>3. /\ trees' \in [Replicas -> [Epochs -> TreeSet]]
      /\ trees'[r][e] = new
      /\ \A q \in Replicas, d \in Epochs : q # r \/ d # e => trees'[q][d] = trees[q][d]
  <2> HIDE DEF new
  <2>1. trees' = [trees EXCEPT ![r][e] = new]
    BY DEF new
  <2>2. /\ trees \in [Replicas -> [Epochs -> TreeSet]] /\ new \in TreeSet /\ e \in Epochs
    BY <1>1, <1>2
  <2> QED
    BY <2>1, <2>2, OneReplaced
<1>4. /\ folded' \in [Replicas -> SUBSET Items] /\ folded'[r] = Xor(folded[r], {i})
      /\ \A q \in Replicas : q # r => folded'[q] = folded[q]
  BY <1>1
<1>5. Shapes'
  BY <1>3, <1>4 DEF ForestInv, Shapes
<1>6. ASSUME NEW q \in Replicas, NEW d \in Epochs PROVE TreeGood(q, d)'
  <2>1. CASE q = r /\ d = e
    BY <1>3, <1>4, <1>5, <2>1, TreeSetTo
  <2>2. CASE q # r \/ d # e
    <3>1. \A f \in SUBSET Items : d # e => Within(Xor(f, {i}), d) = Within(f, d)
      BY ONLY i \in Items, e = EpochOf(i), WithinXor
    <3>2. Within(folded'[q], d) = Within(folded[q], d)
      BY <1>1, <1>4, <2>2, <3>1
    <3> QED
      BY <1>3, <1>5, <2>2, <3>2, TreeKept DEF ForestInv
  <2> QED
    BY <2>1, <2>2
<1>7. ASSUME NEW q \in Replicas, NEW d \in Epochs PROVE RecordGood(q, d)'
  BY RecordKept DEF ForestInv
<1> QED
  BY <1>5, <1>6, <1>7 DEF ForestInv

\* Counting an item more or less in a tree with an item toggled.
Recounted(tree, m) == [tree EXCEPT !.count = m]

LEMMA Counted ==
    ASSUME NEW l \in 0..Levels, NEW i \in Items, NEW n, NEW m, NEW F \in SUBSET Items,
           NEW e, e = EpochOf(i)
    PROVE  Recounted(Toggle(Exact(n, F, e, l), CellAt(i[1], l), {i}), m)
             = Exact(m, Xor(F, {i}), e, l)
<1>1. Toggle(Exact(n, F, e, l), CellAt(i[1], l), {i}) = Exact(n, Xor(F, {i}), e, l)
  BY ToggleExact
<1> DEFINE h == [c \in EpochCells(e, l) |-> Below(Xor(F, {i}), c)]
<1>2. Exact(n, Xor(F, {i}), e, l) = [count |-> n, hash |-> h]
  BY DEF Exact
<1>3. Exact(m, Xor(F, {i}), e, l) = [count |-> m, hash |-> h]
  BY DEF Exact
<1> HIDE DEF h
<1>4. Recounted([count |-> n, hash |-> h], m) = [count |-> m, hash |-> h]
  BY DEF Recounted
<1> QED
  BY <1>1, <1>2, <1>3, <1>4

LEMMA InsertStep ==
    ASSUME ForestInv, NEW r \in Replicas, NEW i \in Items, Insert(r, i)
    PROVE  ForestInv'
<1> DEFINE e == EpochOf(i)
           tree == IF trees[r][e] = NoTree THEN NewTree(e, leaf[r]) ELSE trees[r][e]
           n == tree.count
<1>1. /\ folded[r] \in SUBSET Items /\ leaf[r] \in 0..Levels /\ e \in Epochs
      /\ TreeGood(r, e)
  BY ItemKey, LevelsOfLeaves DEF ForestInv, Shapes
<1>2. /\ tree = Exact(n, folded[r], e, leaf[r]) /\ n \in 0..MaxCount
      /\ IsFiniteSet(Within(folded[r], e)) /\ Cardinality(Within(folded[r], e)) <= n
  <2>1. CASE trees[r][e] = NoTree
    <3>1. Within(folded[r], e) = {}
      BY <1>1, <2>1 DEF TreeGood
    <3>2. tree = Exact(0, folded[r], e, leaf[r])
      BY <1>1, <2>1, <3>1, NewIsExact
    <3>3. n = 0
      BY <2>1 DEF NewTree
    <3> QED
      BY <3>1, <3>2, <3>3, FS_EmptySet, CountAssumption
  <2>2. CASE trees[r][e] # NoTree
    BY <1>1, <2>2 DEF TreeGood
  <2> QED
    BY <2>1, <2>2
<1>3. /\ n < MaxCount
      /\ trees' = [trees EXCEPT ![r][e] =
                      [Toggle(tree, CellAt(i[1], leaf[r]), {i}) EXCEPT !.count = @ + 1]]
      /\ folded' = [folded EXCEPT ![r] = Xor(@, {i})]
      /\ UNCHANGED <<leaf, record, snapshot>>
  BY DEF Insert, LeafOf
<1>4. n \in Nat /\ n + 1 \in 0..MaxCount /\ e = EpochOf(i)
  BY <1>2, <1>3, CountAssumption
<1> HIDE DEF e, tree, n
<1>5. Recounted(Toggle(tree, CellAt(i[1], leaf[r]), {i}), n + 1)
        = Exact(n + 1, Xor(folded[r], {i}), e, leaf[r])
  BY <1>1, <1>2, <1>4, Counted
<1>6. trees' = [trees EXCEPT ![r][e] = Exact(n + 1, Xor(folded[r], {i}), e, leaf[r])]
  <2>1. Toggle(tree, CellAt(i[1], leaf[r]), {i}).count = n
    BY DEF Toggle, n
  <2> QED
    BY <1>3, <1>5, <2>1 DEF Recounted
<1>7. /\ IsFiniteSet(Within(Xor(folded[r], {i}), e))
      /\ Cardinality(Within(Xor(folded[r], {i}), e)) <= n + 1
  BY <1>1, <1>2, <1>4, CountStep
<1> QED
  BY <1>3, <1>4, <1>6, <1>7, Folding

LEMMA RemoveStep ==
    ASSUME ForestInv, NEW r \in Replicas, NEW i \in Items, Remove(r, i)
    PROVE  ForestInv'
<1> DEFINE e == EpochOf(i)
           n == trees[r][e].count
<1>1. /\ folded[r] \in SUBSET Items /\ leaf[r] \in 0..Levels /\ e \in Epochs
      /\ TreeGood(r, e)
  BY ItemKey, LevelsOfLeaves DEF ForestInv, Shapes
<1>2. /\ i \in folded[r] /\ trees[r][e] # NoTree
      /\ trees' = [trees EXCEPT ![r][e] =
                      [Toggle(trees[r][e], CellAt(i[1], leaf[r]), {i}) EXCEPT
                          !.count = IF @ > 0 THEN @ - 1 ELSE 0]]
      /\ folded' = [folded EXCEPT ![r] = Xor(@, {i})]
      /\ UNCHANGED <<leaf, record, snapshot>>
  BY DEF Remove, LeafOf
<1>3. /\ trees[r][e] = Exact(n, folded[r], e, leaf[r]) /\ n \in 0..MaxCount /\ n \in Nat
      /\ IsFiniteSet(Within(folded[r], e)) /\ Cardinality(Within(folded[r], e)) <= n
  BY <1>1, <1>2, CountAssumption DEF TreeGood
<1>4. e = EpochOf(i)
  OBVIOUS
<1> HIDE DEF e, n
<1>5. /\ IsFiniteSet(Within(Xor(folded[r], {i}), e)) /\ n > 0
      /\ Cardinality(Within(Xor(folded[r], {i}), e)) <= n - 1
  BY <1>1, <1>2, <1>3, <1>4, CountStep
<1>6. Recounted(Toggle(trees[r][e], CellAt(i[1], leaf[r]), {i}), n - 1)
        = Exact(n - 1, Xor(folded[r], {i}), e, leaf[r])
  BY <1>1, <1>3, <1>4, Counted
<1>7. trees' = [trees EXCEPT ![r][e] = Exact(n - 1, Xor(folded[r], {i}), e, leaf[r])]
  <2>1. Toggle(trees[r][e], CellAt(i[1], leaf[r]), {i}).count = n
    BY DEF Toggle, n
  <2> QED
    BY <1>2, <1>5, <1>6, <2>1 DEF Recounted
<1>8. n - 1 \in 0..MaxCount
  BY <1>3, <1>5, CountAssumption
<1> QED
  BY <1>2, <1>4, <1>5, <1>7, <1>8, Folding

LEMMA SealStep ==
    ASSUME ForestInv, NEW r \in Replicas, NEW e \in Epochs, Seal(r, e)
    PROVE  ForestInv'
<1> DEFINE W == Within(folded[r], e)
           n == trees[r][e].count
           rec == Serialize(r, e)
<1>1. /\ folded[r] \in SUBSET Items /\ leaf[r] \in LeafLevels /\ leaf[r] \in 0..Levels
      /\ TreeGood(r, e) /\ record \in [Replicas -> [Epochs -> RecordSet]]
      /\ snapshot \in [Replicas -> [Epochs -> SUBSET Items]]
  BY LevelsOfLeaves DEF ForestInv, Shapes
<1>2. /\ n \in 0..MaxCount /\ IsFiniteSet(W) /\ Cardinality(W) <= n
      /\ trees[r][e] = Exact(n, folded[r], e, leaf[r])
  BY <1>1 DEF TreeGood, Seal, Present
<1>3. rec = IF W = {} THEN EmptyRecord ELSE Sealed(n, W, e, leaf[r])
  BY <1>1, <1>2, SerializeSealed
<1>4. W \in SUBSET Items /\ W \subseteq ItemsOf(e)
  BY <1>1 DEF Within, ItemsOf
<1>5. /\ record' = [record EXCEPT ![r][e] = rec]
      /\ snapshot' = [snapshot EXCEPT ![r][e] = W]
      /\ UNCHANGED <<leaf, trees, folded>>
  BY DEF Seal
<1> HIDE DEF W, n, rec
<1>6. rec \in RecordSet
  BY <1>1, <1>2, <1>3, <1>4 DEF RecordSet
<1>7. /\ record' \in [Replicas -> [Epochs -> RecordSet]] /\ record'[r][e] = rec
      /\ \A q \in Replicas, d \in Epochs : q # r \/ d # e => record'[q][d] = record[q][d]
  BY <1>1, <1>5, <1>6, OneReplaced
<1>8. /\ snapshot' \in [Replicas -> [Epochs -> SUBSET Items]] /\ snapshot'[r][e] = W
      /\ \A q \in Replicas, d \in Epochs : q # r \/ d # e => snapshot'[q][d] = snapshot[q][d]
  BY <1>1, <1>4, <1>5, OneReplaced
<1>9. Shapes'
  BY <1>5, <1>7, <1>8 DEF ForestInv, Shapes
<1>10. ASSUME NEW q \in Replicas, NEW d \in Epochs PROVE TreeGood(q, d)'
  BY <1>5, <1>9, TreeKept DEF ForestInv
<1>11. ASSUME NEW q \in Replicas, NEW d \in Epochs PROVE RecordGood(q, d)'
  <2>1. CASE q = r /\ d = e
    <3>1. snapshot'[q][d] \subseteq ItemsOf(d) /\ IsFiniteSet(snapshot'[q][d])
      BY <1>2, <1>4, <1>8, <2>1
    <3>2. CASE W = {}
      BY <1>3, <1>7, <1>8, <2>1, <3>1, <3>2 DEF RecordGood
    <3>3. CASE W # {}
      <4>1. record'[q][d] = Sealed(n, snapshot'[q][d], d, leaf[r])
        BY <1>3, <1>7, <1>8, <2>1, <3>3
      <4>2. record'[q][d] # EmptyRecord
        BY <1>1, <4>1, LevelsOfLeaves DEF Sealed, EmptyRecord
      <4>3. Cardinality(snapshot'[q][d]) <= n
        BY <1>2, <1>8, <2>1
      <4> QED
        BY <1>1, <1>2, <3>1, <4>1, <4>2, <4>3 DEF RecordGood
    <3> QED
      BY <3>2, <3>3
  <2>2. CASE q # r \/ d # e
    BY <1>7, <1>8, <2>2, RecordKept DEF ForestInv
  <2> QED
    BY <2>1, <2>2
<1> QED
  BY <1>9, <1>10, <1>11 DEF ForestInv

LEMMA NoTreeInTrees == NoTree \in TreeSet <=> LeafLevels # {} /\ Epochs # {}
<1>1. ASSUME NEW e \in Epochs, NEW l \in LeafLevels PROVE NoTree \in TreeSet
  <2>1. NoTree \in Trees(e, l)
    BY DEF Trees
  <2> QED
    BY <2>1 DEF TreeSet
<1>2. ASSUME NoTree \in TreeSet PROVE LeafLevels # {} /\ Epochs # {}
  BY <1>2 DEF TreeSet
<1> QED
  BY <1>1, <1>2

\* An absent tree in an epoch of which nothing is folded in.
LEMMA NothingFolded ==
    ASSUME NEW r \in Replicas, NEW e \in Epochs, trees'[r][e] = NoTree, folded'[r] = {}
    PROVE  TreeGood(r, e)'
<1>1. Within(folded'[r], e) = {}
  BY DEF Within
<1>2. IsFiniteSet(Within(folded'[r], e)) /\ Cardinality(Within(folded'[r], e)) = 0
  BY <1>1, FS_EmptySet
<1>3. trees'[r][e].count = 0 /\ 0 \in 0..MaxCount
  BY CountAssumption DEF NoTree
<1> QED
  BY <1>1, <1>2, <1>3 DEF TreeGood

LEMMA NewStep ==
    ASSUME ForestInv, NEW r \in Replicas, NEW l \in LeafLevels, New(r, l)
    PROVE  ForestInv'
<1>1. /\ leaf \in [Replicas -> LeafLevels] /\ trees \in [Replicas -> [Epochs -> TreeSet]]
      /\ folded \in [Replicas -> SUBSET Items]
  BY DEF ForestInv, Shapes
<1>2. /\ leaf' = [leaf EXCEPT ![r] = l]
      /\ trees' = [trees EXCEPT ![r] = [e \in Epochs |-> NoTree]]
      /\ folded' = [folded EXCEPT ![r] = {}]
      /\ UNCHANGED <<record, snapshot>>
  BY DEF New
<1>3. [e \in Epochs |-> NoTree] \in [Epochs -> TreeSet]
  BY NoTreeInTrees
<1>4. Shapes'
  BY <1>1, <1>2, <1>3 DEF ForestInv, Shapes
<1>5. ASSUME NEW q \in Replicas, NEW d \in Epochs PROVE TreeGood(q, d)'
  <2>1. CASE q = r
    <3>1. trees'[q][d] = NoTree /\ folded'[q] = {}
      BY <1>1, <1>2, <2>1
    <3> QED
      BY <3>1, NothingFolded
  <2>2. CASE q # r
    <3>1. leaf'[q] = leaf[q] /\ trees'[q][d] = trees[q][d] /\ folded'[q] = folded[q]
      BY <1>1, <1>2, <2>2
    <3> QED
      BY <1>4, <3>1, TreeKept DEF ForestInv
  <2> QED
    BY <2>1, <2>2
<1>6. ASSUME NEW q \in Replicas, NEW d \in Epochs PROVE RecordGood(q, d)'
  BY <1>2, RecordKept DEF ForestInv
<1> QED
  BY <1>4, <1>5, <1>6 DEF ForestInv

LEMMA LoadStep ==
    ASSUME ForestInv, NEW r \in Replicas, NEW e \in Epochs, LoadSealedEpoch(r, e)
    PROVE  ForestInv'
<1> DEFINE S == snapshot[r][e]
           new == Rebuilt(r, e)
<1>1. /\ folded[r] \in SUBSET Items /\ leaf[r] \in LeafLevels /\ leaf[r] \in 0..Levels
      /\ TreeGood(r, e) /\ RecordGood(r, e) /\ S \in SUBSET Items
      /\ trees \in [Replicas -> [Epochs -> TreeSet]] /\ folded \in [Replicas -> SUBSET Items]
  BY LevelsOfLeaves DEF ForestInv, Shapes
<1>2. /\ trees[r][e] = NoTree /\ record[r][e] # EmptyRecord /\ record[r][e].leaf = leaf[r]
      /\ trees' = [trees EXCEPT ![r][e] = new]
      /\ folded' = [folded EXCEPT ![r] = @ \union S]
      /\ UNCHANGED <<leaf, record, snapshot>>
  BY DEF LoadSealedEpoch, Loadable
<1>3. S \in SUBSET ItemsOf(e) /\ IsFiniteSet(S) /\ Within(folded[r], e) = {}
  BY <1>1, <1>2 DEF TreeGood, RecordGood
<1>4. PICK n \in 0..MaxCount, l \in LeafLevels :
          record[r][e] = Sealed(n, S, e, l) /\ Cardinality(S) <= n
  BY <1>1, <1>2 DEF RecordGood
<1>5. l = leaf[r]
  BY <1>2, <1>4 DEF Sealed
<1>6. new = Exact(n, S, e, leaf[r])
  BY <1>1, <1>3, <1>4, <1>5, RebuiltExact
<1> HIDE DEF S, new
<1>7. new \in TreeSet
  BY <1>1, <1>6, ExactInTrees
<1>8. /\ trees' \in [Replicas -> [Epochs -> TreeSet]] /\ trees'[r][e] = new
      /\ \A q \in Replicas, d \in Epochs : q # r \/ d # e => trees'[q][d] = trees[q][d]
  BY <1>1, <1>2, <1>7, OneReplaced
<1>9. /\ folded' \in [Replicas -> SUBSET Items] /\ folded'[r] = folded[r] \union S
      /\ \A q \in Replicas : q # r => folded'[q] = folded[q]
  BY <1>1, <1>2
<1>10. Shapes'
  BY <1>2, <1>8, <1>9 DEF ForestInv, Shapes
<1>11. Within(folded'[r], e) = S /\ Within(S, e) = S
  BY <1>3, <1>9 DEF Within, ItemsOf
<1>12. \A d \in Epochs : d # e => Within(folded'[r], d) = Within(folded[r], d)
  BY <1>3, <1>9 DEF Within, ItemsOf
<1>13. trees'[r][e] = Exact(n, folded'[r], e, leaf'[r])
  BY <1>1, <1>2, <1>6, <1>8, <1>9, <1>11, SameExact
<1>14. ASSUME NEW q \in Replicas, NEW d \in Epochs PROVE TreeGood(q, d)'
  <2>1. CASE q = r /\ d = e
    BY <1>3, <1>4, <1>10, <1>11, <1>13, <2>1, TreeSetTo
  <2>2. CASE q # r \/ d # e
    <3>1. Within(folded'[q], d) = Within(folded[q], d)
      BY <1>9, <1>12, <2>2
    <3>2. leaf'[q] = leaf[q] /\ trees'[q][d] = trees[q][d]
      BY <1>2, <1>8, <2>2
    <3> QED
      BY <1>10, <3>1, <3>2, TreeKept DEF ForestInv
  <2> QED
    BY <2>1, <2>2
<1>15. ASSUME NEW q \in Replicas, NEW d \in Epochs PROVE RecordGood(q, d)'
  BY <1>2, RecordKept DEF ForestInv
<1> QED
  BY <1>10, <1>14, <1>15 DEF ForestInv

LEMMA ForestInvInit == Init => ForestInv
<1> SUFFICES ASSUME Init PROVE ForestInv
  OBVIOUS
<1>1. Shapes
  <2>1. ASSUME NEW r \in Replicas PROVE LeafLevels # {}
    BY DEF Init
  <2>2. trees \in [Replicas -> [Epochs -> TreeSet]]
    BY <2>1, NoTreeInTrees DEF Init
  <2> QED
    BY <2>2 DEF Init, Shapes, RecordSet
<1>2. ASSUME NEW r \in Replicas, NEW e \in Epochs PROVE TreeGood(r, e)
  <2>1. trees[r][e] = NoTree /\ Within(folded[r], e) = {}
    BY DEF Init, Within
  <2> QED
    BY <2>1, FS_EmptySet, CountAssumption DEF TreeGood, NoTree
<1>3. ASSUME NEW r \in Replicas, NEW e \in Epochs PROVE RecordGood(r, e)
  BY FS_EmptySet DEF Init, RecordGood
<1> QED
  BY <1>1, <1>2, <1>3 DEF ForestInv

LEMMA ForestInvStep == ForestInv /\ [Next]_vars => ForestInv'
<1> SUFFICES ASSUME ForestInv, [Next]_vars PROVE ForestInv'
  OBVIOUS
<1>1. CASE UNCHANGED vars
  BY <1>1 DEF vars, ForestInv, Shapes, TreeGood, RecordGood
<1>2. ASSUME NEW r \in Replicas, NEW i \in Items, Insert(r, i) PROVE ForestInv'
  BY <1>2, InsertStep
<1>3. ASSUME NEW r \in Replicas, NEW i \in Items, Remove(r, i) PROVE ForestInv'
  BY <1>3, RemoveStep
<1>4. ASSUME NEW r \in Replicas, NEW e \in Epochs, Seal(r, e) PROVE ForestInv'
  BY <1>4, SealStep
<1>5. ASSUME NEW r \in Replicas, NEW e \in Epochs, LoadSealedEpoch(r, e) PROVE ForestInv'
  BY <1>5, LoadStep
<1>6. ASSUME NEW r \in Replicas, NEW l \in LeafLevels, New(r, l) PROVE ForestInv'
  BY <1>6, NewStep
<1> QED
  BY <1>1, <1>2, <1>3, <1>4, <1>5, <1>6 DEF Next

LEMMA ForestInvHolds == Spec => []ForestInv
  BY ForestInvInit, ForestInvStep, PTL DEF Spec

-----------------------------------------------------------------------------
(* The invariants *)

\* Every forest keeps trees of its own leaf depth, with counts within bounds.
THEOREM TypeCorrect == Spec => []TypeOK
<1>1. ForestInv => TypeOK
  <2> SUFFICES ASSUME ForestInv, NEW r \in Replicas, NEW e \in Epochs
               PROVE  trees[r][e] \in Trees(e, leaf[r])
    BY DEF ForestInv, Shapes, TypeOK
  <2>1. TreeGood(r, e) /\ leaf[r] \in LeafLevels /\ folded[r] \in SUBSET Items
    BY DEF ForestInv, Shapes
  <2>2. CASE trees[r][e] = NoTree
    BY <2>2 DEF Trees
  <2>3. CASE trees[r][e] # NoTree
    BY <2>1, <2>3, ExactInTrees DEF TreeGood
  <2> QED
    BY <2>2, <2>3
<1> QED
  BY <1>1, ForestInvHolds, PTL

LEMMA HashOfCell ==
    ASSUME ForestInv, NEW r \in Replicas, NEW c \in CellsTo(leaf[r])
    PROVE  NodeHash(r, c) = Below(folded[r], c)
<1> DEFINE e == c[1]
<1>1. leaf[r] \in 0..Levels /\ folded[r] \in SUBSET Items
  BY LevelsOfLeaves DEF ForestInv, Shapes
<1>2. e \in Epochs /\ c \in EpochCells(e, leaf[r])
  BY <1>1, CellsBelow
<1>3. TreeGood(r, e)
  BY <1>2 DEF ForestInv
<1>4. CASE trees[r][e] = NoTree
  <2>1. Within(folded[r], e) = {}
    BY <1>3, <1>4 DEF TreeGood
  <2>2. Below(folded[r], c) \subseteq Within(folded[r], e)
    BY <1>1, BelowWithin
  <2> QED
    BY <1>4, <2>1, <2>2 DEF NodeHash
<1>5. CASE trees[r][e] # NoTree
  <2>1. trees[r][e].hash = [d \in EpochCells(e, leaf[r]) |-> Below(folded[r], d)]
    BY <1>3, <1>5 DEF TreeGood, Exact
  <2> QED
    BY <1>2, <1>5, <2>1 DEF NodeHash
<1> QED
  BY <1>4, <1>5

\* The hash of every cell is that of the items in it, however they came there.
THEOREM HashesExact == Spec => []HashExact
<1>1. ForestInv => HashExact
  BY HashOfCell DEF HashExact
<1> QED
  BY <1>1, ForestInvHolds, PTL

\* An epoch's count is never below the number of its items.
THEOREM CountsCover == Spec => []CountCovers
<1>1. ForestInv => CountCovers
  <2> SUFFICES ASSUME ForestInv, NEW r \in Replicas, NEW e \in Epochs
               PROVE  trees[r][e].count >= Cardinality(Within(folded[r], e))
    BY DEF CountCovers
  <2>1. TreeGood(r, e)
    BY DEF ForestInv
  <2>2. Cardinality(Within(folded[r], e)) \in Nat
    BY <2>1, FS_CardinalityType DEF TreeGood
  <2> QED
    BY <2>1, <2>2, CountAssumption DEF TreeGood
<1> QED
  BY <1>1, ForestInvHolds, PTL

-----------------------------------------------------------------------------
(* The comparison of two forests *)

\* Two functions on 0..top that agree at 0 and never part agree at top.
LEMMA SameDescent ==
    ASSUME NEW top \in Nat, NEW h, NEW g, h[0] = g[0],
           \A l \in 1..top : h[l - 1] = g[l - 1] => h[l] = g[l]
    PROVE  h[top] = g[top]
<1> DEFINE T == {l \in 0..top : h[l] # g[l]}
<1> SUFFICES ASSUME T # {} PROVE FALSE
  OBVIOUS
<1>1. T \in SUBSET Nat
  OBVIOUS
<1> HIDE DEF T
<1>2. PICK m \in T : \A n \in T : m <= n
  BY <1>1, LeastNumber
<1> USE DEF T
<1>3. m \in 1..top /\ m - 1 \in 0..top /\ ~(m <= m - 1)
  BY <1>1
<1>4. h[m - 1] = g[m - 1]
  BY <1>2, <1>3
<1> QED
  BY <1>3, <1>4

\* The root of an epoch is the cell of its keys at level 0.
LEMMA RootsOfKeys ==
    ASSUME NEW k \in Keys
    PROVE  CellAt(k, 0) = Root(KeyEpoch[k])
<1>1. 0 \in 0..Levels
  BY PathAssumption
<1>2. SubSeq(Path[k], 1, 0) = <<>>
  BY <1>1, PathCut, EmptySeq
<1> QED
  BY <1>2 DEF CellAt, Root

\* The cell of a key at a level is a child of its cell one level up, and of no other.
LEMMA ChildOfParent ==
    ASSUME NEW l \in 1..Levels, NEW k \in Keys
    PROVE  /\ CellAt(k, l) \in Children(CellAt(k, l - 1))
           /\ CellAt(k, l - 1) \in CellsAt(l - 1) /\ CellAt(k, l) \in CellsAt(l)
           /\ \A j \in Keys : CellAt(j, l) = CellAt(k, l) => CellAt(j, l - 1) = CellAt(k, l - 1)
<1>1. l \in 0..Levels /\ l - 1 \in 0..Levels /\ l - 1 \in 0..l /\ (l - 1) + 1 = l
  BY PathAssumption
<1>2. \A j \in Keys : /\ SubSeq(CellAt(j, l)[2], 1, l - 1) = SubSeq(Path[j], 1, l - 1)
                      /\ CellAt(j, l)[1] = KeyEpoch[j]
  BY <1>1, PathCutTwice DEF CellAt
<1>3. \A j \in Keys :
          <<CellAt(j, l)[1], SubSeq(CellAt(j, l)[2], 1, l - 1)>> = CellAt(j, l - 1)
  BY <1>2 DEF CellAt
<1>4. Level(CellAt(k, l - 1)) = l - 1
  BY <1>1, CellParts
<1> QED
  BY <1>1, <1>3, <1>4 DEF Children, CellsAt

LEMMA ChildrenBelow ==
    ASSUME NEW l \in 1..Levels, NEW c \in CellsAt(l - 1), NEW d \in Children(c)
    PROVE  d \in CellsAt(l)
<1>1. l - 1 \in 0..Levels /\ (l - 1) + 1 = l
  BY PathAssumption
<1>2. Level(c) = l - 1
  BY <1>1, CellsBelow
<1> QED
  BY <1>1, <1>2 DEF Children

\* The items of a cell are some of those of the cell above it: the same ones
\* of each set of items.
LEMMA BelowParent ==
    ASSUME NEW l \in 1..Levels, NEW k \in Keys, NEW F \in SUBSET Items
    PROVE  Below(F, CellAt(k, l)) =
               {i \in Below(F, CellAt(k, l - 1)) : CellAt(i[1], l) = CellAt(k, l)}
<1>1. l \in 0..Levels /\ l - 1 \in 0..Levels
  BY PathAssumption
<1>2. Level(CellAt(k, l)) = l /\ Level(CellAt(k, l - 1)) = l - 1
  BY <1>1, CellParts
<1>3. \A i \in F : CellAt(i[1], l) = CellAt(k, l) => CellAt(i[1], l - 1) = CellAt(k, l - 1)
  BY ChildOfParent, ItemKey
<1> QED
  BY <1>2, <1>3 DEF Below

\* The cells of a level in which two sets of items differ, and those of them
\* in which the second set has any.
Differing(F, G, l) == {c \in CellsAt(l) : Below(F, c) # Below(G, c)}
Lacking(F, G, l) == {c \in Differing(F, G, l) : Below(G, c) # {}}

\* Down to the shallower leaf level the hashes are those of the items.
LEMMA HashesCompared ==
    ASSUME ForestInv, NEW r \in Replicas, NEW s \in Replicas,
           NEW l \in 0..Shallower(r, s), NEW c \in CellsAt(l)
    PROVE  /\ NodeHash(r, c) = Below(folded[r], c) /\ NodeHash(s, c) = Below(folded[s], c)
           /\ Differ(r, s, c) <=> c \in Differing(folded[r], folded[s], l)
<1>1. /\ leaf[r] \in 0..Levels /\ leaf[s] \in 0..Levels /\ leaf[r] \in Nat /\ leaf[s] \in Nat
      /\ Levels \in Nat
  BY LevelsOfLeaves DEF ForestInv, Shapes
<1>2. l \in 0..leaf[r] /\ l \in 0..leaf[s]
  BY <1>1 DEF Shallower
<1>3. c \in CellsTo(leaf[r]) /\ c \in CellsTo(leaf[s])
  BY <1>2 DEF CellsTo
<1>4. NodeHash(r, c) = Below(folded[r], c) /\ NodeHash(s, c) = Below(folded[s], c)
  BY <1>3, HashOfCell
<1> QED
  BY <1>4 DEF Differ, Differing

LEMMA ShallowerLevel ==
    ASSUME ForestInv, NEW r \in Replicas, NEW s \in Replicas
    PROVE  /\ Shallower(r, s) \in Nat /\ Shallower(r, s) \in 0..Levels
           /\ 0 \in 0..Shallower(r, s)
           /\ \A l \in 1..Shallower(r, s) : /\ l \in 0..Shallower(r, s) /\ l \in 1..Levels
                                            /\ l - 1 \in 0..Shallower(r, s) /\ l # 0
<1>1. /\ leaf[r] \in 0..Levels /\ leaf[s] \in 0..Levels /\ leaf[r] \in Nat /\ leaf[s] \in Nat
      /\ Levels \in Nat
  BY LevelsOfLeaves DEF ForestInv, Shapes
<1>2. Shallower(r, s) \in Nat /\ Shallower(r, s) \in 0..Levels
  BY <1>1 DEF Shallower
<1> QED
  BY <1>1, <1>2

\* An epoch whose root has a hash is there.
LEMMA RootIsPresent ==
    ASSUME NEW r \in Replicas, NEW e \in Epochs
    PROVE  /\ NodeHash(r, Root(e)) # {} => e \in Present(r)
           /\ e \in EpochRoots(r) <=> NodeHash(r, Root(e)) # {}
<1>1. Root(e)[1] = e
  BY DEF Root
<1> QED
  BY <1>1 DEF NodeHash, Present, EpochRoots

\* The descents start from the roots in which the forests differ.
LEMMA RootsDiffering ==
    ASSUME ForestInv, NEW r \in Replicas, NEW s \in Replicas
    PROVE  /\ {Root(e) : e \in {f \in Present(r) \union Present(s) : Differ(r, s, Root(f))}}
                 = Differing(folded[r], folded[s], 0)
           /\ {Root(e) : e \in {f \in EpochRoots(s) : Differ(r, s, Root(f))}}
                 = Lacking(folded[r], folded[s], 0)
<1>1. 0 \in 0..Shallower(r, s)
  BY ShallowerLevel
<1>2. ASSUME NEW e \in Epochs
      PROVE  /\ Root(e) \in CellsAt(0)
             /\ NodeHash(s, Root(e)) = Below(folded[s], Root(e))
             /\ Differ(r, s, Root(e)) <=> Root(e) \in Differing(folded[r], folded[s], 0)
             /\ Differ(r, s, Root(e)) => e \in Present(r) \union Present(s)
             /\ e \in EpochRoots(s) <=> NodeHash(s, Root(e)) # {}
  <2>1. PICK k \in Keys : KeyEpoch[k] = e
    BY DEF Epochs
  <2>2. Root(e) \in CellsAt(0)
    BY <2>1, RootsOfKeys DEF CellsAt
  <2> QED
    BY <1>1, <2>2, HashesCompared, RootIsPresent DEF Differ
<1>3. ASSUME NEW c \in CellsAt(0) PROVE \E e \in Epochs : c = Root(e)
  BY RootsOfKeys DEF CellsAt, Epochs
<1>4. /\ Present(r) \subseteq Epochs /\ Present(s) \subseteq Epochs
      /\ EpochRoots(s) \subseteq Epochs
  BY DEF Present, EpochRoots
<1>5. Differing(folded[r], folded[s], 0) \subseteq CellsAt(0)
  BY DEF Differing
<1>6. {Root(e) : e \in {f \in Present(r) \union Present(s) : Differ(r, s, Root(f))}}
        = Differing(folded[r], folded[s], 0)
  BY <1>2, <1>3, <1>4, <1>5
<1>7. {Root(e) : e \in {f \in EpochRoots(s) : Differ(r, s, Root(f))}}
        = Lacking(folded[r], folded[s], 0)
  BY <1>2, <1>3, <1>4, <1>5 DEF Lacking
<1> QED
  BY <1>6, <1>7

\* A cell in which the forests differ is a child of one in which they differ,
\* and one the second has items in is a child of one it has items in.
LEMMA ParentDiffers ==
    ASSUME NEW F \in SUBSET Items, NEW G \in SUBSET Items, NEW l \in 1..Levels,
           NEW d \in Differing(F, G, l)
    PROVE  \E c \in Differing(F, G, l - 1) : /\ d \in Children(c)
                                             /\ Below(G, d) # {} => Below(G, c) # {}
<1>1. PICK k \in Keys : d = CellAt(k, l)
  BY DEF Differing, CellsAt
<1> DEFINE c == CellAt(k, l - 1)
<1>2. c \in CellsAt(l - 1) /\ d \in Children(c)
  BY <1>1, ChildOfParent
<1>3. /\ Below(F, d) = {i \in Below(F, c) : CellAt(i[1], l) = d}
      /\ Below(G, d) = {i \in Below(G, c) : CellAt(i[1], l) = d}
  BY <1>1, BelowParent
<1>4. Below(F, d) # Below(G, d)
  BY DEF Differing
<1> HIDE DEF c
<1> QED
  BY <1>2, <1>3, <1>4 DEF Differing

\* One level down, the descents come to the cells in which the forests differ there.
LEMMA ChildrenDiffering ==
    ASSUME ForestInv, NEW r \in Replicas, NEW s \in Replicas, NEW l \in 1..Shallower(r, s)
    PROVE  /\ {d \in UNION {Children(c) : c \in Differing(folded[r], folded[s], l - 1)} :
                   Differ(r, s, d)} = Differing(folded[r], folded[s], l)
           /\ {d \in UNION {ChildHashes(s, c) : c \in Lacking(folded[r], folded[s], l - 1)} :
                   Differ(r, s, d)} = Lacking(folded[r], folded[s], l)
<1> DEFINE F == folded[r]
           G == folded[s]
<1>1. F \in SUBSET Items /\ G \in SUBSET Items
  BY DEF ForestInv, Shapes
<1>2. l \in 1..Levels /\ l \in 0..Shallower(r, s)
  BY ShallowerLevel
<1>3. ASSUME NEW d \in CellsAt(l)
      PROVE  /\ Differ(r, s, d) <=> d \in Differing(F, G, l)
             /\ NodeHash(s, d) = Below(G, d)
  BY <1>2, HashesCompared
<1> HIDE DEF F, G
<1>4. ASSUME NEW c \in Differing(F, G, l - 1), NEW d \in Children(c) PROVE d \in CellsAt(l)
  BY <1>2, ChildrenBelow DEF Differing
<1>5. ASSUME NEW d \in Differing(F, G, l)
      PROVE  \E c \in Differing(F, G, l - 1) : /\ d \in Children(c)
                                               /\ Below(G, d) # {} => Below(G, c) # {}
  BY <1>1, <1>2, ParentDiffers
<1>6. Differing(F, G, l) \subseteq CellsAt(l) /\ Lacking(F, G, l - 1) \subseteq Differing(F, G, l - 1)
  BY DEF Differing, Lacking
<1>7. {d \in UNION {Children(c) : c \in Differing(F, G, l - 1)} : Differ(r, s, d)}
        = Differing(F, G, l)
  BY <1>3, <1>4, <1>5, <1>6
<1>8. ASSUME NEW c \in Lacking(F, G, l - 1), NEW d \in ChildHashes(s, c), Differ(r, s, d)
      PROVE  d \in Lacking(F, G, l)
  <2>1. d \in Children(c) /\ NodeHash(s, d) # {}
    BY <1>8 DEF ChildHashes
  <2>2. d \in CellsAt(l)
    BY <1>4, <1>6, <2>1
  <2> QED
    BY <1>3, <1>8, <2>1, <2>2 DEF Lacking
<1>9. ASSUME NEW d \in Lacking(F, G, l)
      PROVE  Differ(r, s, d) /\ \E c \in Lacking(F, G, l - 1) : d \in ChildHashes(s, c)
  <2>1. d \in Differing(F, G, l) /\ d \in CellsAt(l) /\ Below(G, d) # {}
    BY <1>6 DEF Lacking
  <2>2. PICK c \in Differing(F, G, l - 1) : d \in Children(c) /\ Below(G, c) # {}
    BY <1>5, <2>1
  <2>3. c \in Lacking(F, G, l - 1) /\ d \in ChildHashes(s, c)
    BY <1>3, <2>1, <2>2 DEF Lacking, ChildHashes
  <2> QED
    BY <1>3, <2>1, <2>3
<1>10. {d \in UNION {ChildHashes(s, c) : c \in Lacking(F, G, l - 1)} : Differ(r, s, d)}
         = Lacking(F, G, l)
  BY <1>8, <1>9
<1> QED
  BY <1>7, <1>10 DEF F, G

LEMMA ReachedIsDiffering ==
    ASSUME ForestInv, NEW r \in Replicas, NEW s \in Replicas
    PROVE  Reached(r, s) = Differing(folded[r], folded[s], Shallower(r, s))
<1> DEFINE top == Shallower(r, s)
           roots == {Root(e) : e \in {f \in Present(r) \union Present(s) : Differ(r, s, Root(f))}}
           Under(cells) == {d \in UNION {Children(c) : c \in cells} : Differ(r, s, d)}
           g == [l \in 0..top |-> Differing(folded[r], folded[s], l)]
           h == CHOOSE reach : reach =
                  [l \in 0..top |-> IF l = 0 THEN roots ELSE Under(reach[l - 1])]
<1>1. Reached(r, s) = h[top]
  BY DEF Reached
<1>2. top \in Nat /\ 0 \in 0..top /\ \A l \in 1..top : l \in 0..top /\ l - 1 \in 0..top /\ l # 0
  BY ShallowerLevel
<1>3. g[0] = roots /\ \A l \in 1..top : g[l] = Under(g[l - 1])
  BY <1>2, RootsDiffering, ChildrenDiffering
<1> HIDE DEF top, roots, Under
<1>4. g = [l \in 0..top |-> IF l = 0 THEN roots ELSE Under(g[l - 1])]
  <2>1. \A l \in 0..top : l = 0 \/ l \in 1..top
    BY <1>2
  <2> QED
    BY <1>3, <2>1
<1> HIDE DEF g
<1>5. h = [l \in 0..top |-> IF l = 0 THEN roots ELSE Under(h[l - 1])]
  BY <1>4
<1> HIDE DEF h
<1>6. h[0] = g[0] /\ \A l \in 1..top : h[l - 1] = g[l - 1] => h[l] = g[l]
  BY <1>2, <1>3, <1>5
<1>7. h[top] = g[top]
  BY <1>2, <1>6, SameDescent
<1> QED
  BY <1>1, <1>2, <1>7 DEF g, top

LEMMA FetchedIsLacking ==
    ASSUME ForestInv, NEW r \in Replicas, NEW s \in Replicas
    PROVE  Fetched(r, s) = Lacking(folded[r], folded[s], Shallower(r, s))
<1> DEFINE top == Shallower(r, s)
           roots == {Root(e) : e \in {f \in EpochRoots(s) : Differ(r, s, Root(f))}}
           Under(cells) == {d \in UNION {ChildHashes(s, c) : c \in cells} : Differ(r, s, d)}
           g == [l \in 0..top |-> Lacking(folded[r], folded[s], l)]
           h == CHOOSE reach : reach =
                  [l \in 0..top |-> IF l = 0 THEN roots ELSE Under(reach[l - 1])]
<1>1. Fetched(r, s) = h[top]
  BY DEF Fetched
<1>2. top \in Nat /\ 0 \in 0..top /\ \A l \in 1..top : l \in 0..top /\ l - 1 \in 0..top /\ l # 0
  BY ShallowerLevel
<1>3. g[0] = roots /\ \A l \in 1..top : g[l] = Under(g[l - 1])
  <2>1. g[0] = roots
    BY <1>2, RootsDiffering
  <2>2. ASSUME NEW l \in 1..top PROVE g[l] = Under(g[l - 1])
    <3>1. Under(Lacking(folded[r], folded[s], l - 1)) = Lacking(folded[r], folded[s], l)
      BY <2>2, ChildrenDiffering
    <3> HIDE DEF Under
    <3> QED
      BY <1>2, <3>1
  <2> QED
    BY <2>1, <2>2
<1> HIDE DEF top, roots, Under
<1>4. g = [l \in 0..top |-> IF l = 0 THEN roots ELSE Under(g[l - 1])]
  <2>1. \A l \in 0..top : l = 0 \/ l \in 1..top
    BY <1>2
  <2> QED
    BY <1>3, <2>1
<1> HIDE DEF g
<1>5. h = [l \in 0..top |-> IF l = 0 THEN roots ELSE Under(h[l - 1])]
  BY <1>4
<1> HIDE DEF h
<1>6. h[0] = g[0] /\ \A l \in 1..top : h[l - 1] = g[l - 1] => h[l] = g[l]
  BY <1>2, <1>3, <1>5
<1>7. h[top] = g[top]
  BY <1>2, <1>6, SameDescent
<1> QED
  BY <1>1, <1>2, <1>7 DEF g, top

\* diff_forests finds every cell in which two forests hold different items, at
\* the shallower of their leaf depths, and no other.
THEOREM DiffFindsAll == Spec => []DiffExact
<1>1. ForestInv => DiffExact
  BY ReachedIsDiffering DEF DiffExact, Differing
<1> QED
  BY <1>1, ForestInvHolds, PTL

\* A pull round between forests at rest asks for every cell in which the peer
\* has items and they are not the items here, and for no other.
THEOREM FetchFindsAll == Spec => []FetchExact
<1>1. ForestInv => FetchExact
  <2> SUFFICES ASSUME ForestInv, NEW r \in Replicas, NEW s \in Replicas
               PROVE  Fetched(r, s) = {c \in CellsAt(Shallower(r, s)) :
                                          /\ Below(folded[s], c) # {}
                                          /\ Below(folded[r], c) # Below(folded[s], c)}
    BY DEF FetchExact
  <2>1. Fetched(r, s) = Lacking(folded[r], folded[s], Shallower(r, s))
    BY FetchedIsLacking
  <2> QED
    BY <2>1 DEF Lacking, Differing
<1> QED
  BY <1>1, ForestInvHolds, PTL

=============================================================================
