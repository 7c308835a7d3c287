--------------------------- MODULE MeshSyncProofs ---------------------------
(***************************************************************************)
(* Types, what a forest lacks of its node's rows at each place of a store  *)
(* and of an ingest, that neither rows nor forests ever move down, that a  *)
(* round that ends has brought everything, and that the rows of a mesh     *)
(* evolve as MeshRows says: for every mesh, workload and leaf depths, with *)
(* ExclusiveKeys.                                                          *)
(***************************************************************************)
EXTENDS MeshSyncInv, SequenceTheorems, TLAPS

-----------------------------------------------------------------------------
(* Lemmas on cells *)

\* A cell's level is the one it was made at.
LEMMA LevelOfCell ==
    ASSUME NEW k \in Keys, NEW l \in 0..Levels
    PROVE  Level(CellAt(k, l)) = l
<1>1. Levels \in Nat /\ Path[k] \in [1..Levels -> 0..7]
  BY PathAssumption
<1>2. \A i \in 1..l : Path[k][i] \in 0..7
  BY <1>1
<1>3. Len(SubSeq(Path[k], 1, l)) = l
  BY <1>1, <1>2, SubSeqProperties, SMT
<1> QED
  BY <1>3 DEF Level, CellAt

\* The cell of a key at one level is a child of its cell at the level above.
LEMMA CellBelow ==
    ASSUME NEW k \in Keys, NEW l \in 0..Levels, l < Levels
    PROVE  CellAt(k, l + 1) \in Children(CellAt(k, l))
<1> DEFINE s == SubSeq(Path[k], 1, l + 1)
<1> DEFINE t == SubSeq(Path[k], 1, l)
<1>1. Levels \in Nat /\ Path[k] \in [1..Levels -> 0..7]
  BY PathAssumption
<1>2. /\ s \in Seq(0..7) /\ Len(s) = l + 1
      /\ \A i \in 1..l + 1 : s[i] = Path[k][i]
  <2>1. \A i \in 1..l + 1 : Path[k][i] \in 0..7
    BY <1>1
  <2> QED
    BY <1>1, <2>1, SubSeqProperties, SMT
<1>3. /\ t \in Seq(0..7) /\ Len(t) = l
      /\ \A i \in 1..l : t[i] = Path[k][i]
  <2>1. \A i \in 1..l : Path[k][i] \in 0..7
    BY <1>1
  <2> QED
    BY <1>1, <2>1, SubSeqProperties, SMT
<1>4. /\ SubSeq(s, 1, l) \in Seq(0..7) /\ Len(SubSeq(s, 1, l)) = l
      /\ \A i \in 1..l : SubSeq(s, 1, l)[i] = s[i]
  <2>1. \A i \in 1..l : s[i] \in 0..7
    BY <1>1, <1>2
  <2> QED
    BY <1>1, <2>1, SubSeqProperties, SMT
<1>5. SubSeq(s, 1, l) = t
  <2> HIDE DEF s, t
  <2>1. \A i \in 1..Len(t) : SubSeq(s, 1, l)[i] = t[i]
    BY <1>1, <1>2, <1>3, <1>4
  <2> QED
    BY <1>3, <1>4, <2>1, SeqEqual
<1>6. Level(CellAt(k, l)) = l
  BY LevelOfCell
<1>7. CellAt(k, l) = <<KeyEpoch[k], t>> /\ CellAt(k, l + 1) = <<KeyEpoch[k], s>>
  BY DEF CellAt
<1> HIDE DEF s, t
<1>8. CellAt(k, l + 1) \in CellsAt(l + 1)
  BY DEF CellsAt
<1> QED
  BY <1>5, <1>6, <1>7, <1>8 DEF Children

\* The root of an epoch is the cell of its keys at level 0.
LEMMA RootCell ==
    ASSUME NEW k \in Keys
    PROVE  Root(KeyEpoch[k]) = CellAt(k, 0)
BY SubSeqEmpty DEF Root, CellAt

\* An item is below the cells of its key, at every level.
LEMMA InCell ==
    ASSUME NEW i \in Items, NEW l \in 0..Levels
    PROVE  \A items : i \in items => i \in Below(items, CellAt(i[1], l))
BY LevelOfCell DEF Below, Items

\* Conversely a cell an item is below is that of its key.
LEMMA CellOf ==
    ASSUME NEW i, NEW c, i \in Below({i}, c)
    PROVE  c = CellAt(i[1], Level(c))
BY DEF Below

\* Going down from a cell stays among the cells down to a deeper level.
LEMMA ChildrenWithin ==
    ASSUME NEW l \in 0..Levels, NEW c \in CellsTo(l), Level(c) # l
    PROVE  /\ Level(c) \in 0..Levels /\ Level(c) < l
           /\ Children(c) \subseteq CellsTo(l)
<1>1. PICK m \in 0..l : c \in CellsAt(m)
  BY DEF CellsTo
<1>2. PICK k \in Keys : c = CellAt(k, m)
  BY <1>1 DEF CellsAt
<1>3. Level(c) = m /\ m \in 0..Levels
  BY <1>2, LevelOfCell, PathAssumption
<1>4. Level(c) + 1 \in 0..l
  BY <1>3
<1> QED
  BY <1>3, <1>4 DEF Children, CellsTo

\* The roots are among the cells down to any level.
LEMMA RootsWithin ==
    ASSUME NEW l \in 0..Levels
    PROVE  {Root(e) : e \in Epochs} \subseteq CellsTo(l)
<1> SUFFICES ASSUME NEW e \in Epochs PROVE Root(e) \in CellsTo(l)
  OBVIOUS
<1>1. PICK k \in Keys : e = KeyEpoch[k]
  BY DEF Epochs
<1>2. Root(e) \in CellsAt(0)
  BY <1>1, RootCell DEF CellsAt
<1>3. 0 \in 0..l
  BY PathAssumption
<1> QED
  BY <1>2, <1>3 DEF CellsTo

\* Cells down to a level are among those down to the deepest.
LEMMA CellsWithin ==
    ASSUME NEW l \in 0..Levels
    PROVE  CellsTo(l) \subseteq CellsTo(Levels)
BY PathAssumption DEF CellsTo

-----------------------------------------------------------------------------
(* Types *)

\* What a node says of its cells is of its items.
LEMMA HashesTyped ==
    ASSUME TypeOK, NEW m \in Nodes, NEW cells
    PROVE  Hashes(m, cells) \subseteq [cell : cells, hash : SUBSET Items]
BY DEF TypeOK, Hashes, Below

\* Rows are items.
LEMMA RowsTyped ==
    ASSUME TypeOK, NEW n \in Nodes
    PROVE  /\ RowsIn(kv[n]) \subseteq Items /\ EpochsIn(kv[n]) \subseteq Epochs
           /\ \A i \in Items : EpochOf(i) \in Epochs
           /\ \A k \in Keys : kv[n][k] \in Nat
BY PayloadsAssumption DEF TypeOK, RowsIn, EpochsIn, EpochOf, Epochs, Items, NoPayload

\* The loop's position stays within the list of peers.
LEMMA TurnTyped ==
    ASSUME TypeOK, NEW n \in Nodes
    PROVE  PeersOf[n] # <<>> => /\ Turn(n) \in DOMAIN PeersOf[n] /\ Turn(n) \in Nat
                                /\ 1 \in DOMAIN PeersOf[n]
<1> SUFFICES ASSUME PeersOf[n] # <<>>
             PROVE  /\ Turn(n) \in DOMAIN PeersOf[n] /\ Turn(n) \in Nat
                    /\ 1 \in DOMAIN PeersOf[n]
  OBVIOUS
<1>1. /\ PeersOf[n] \in Seq(Nodes) /\ Len(PeersOf[n]) \in Nat \ {0}
      /\ DOMAIN PeersOf[n] = 1..Len(PeersOf[n])
  BY MeshAssumption, EmptySeq, LenProperties
<1>2. at[n] \in 1..Len(PeersOf[n])
  BY <1>1 DEF TypeOK
<1>3. at[n] % Len(PeersOf[n]) \in 0..Len(PeersOf[n]) - 1
  BY <1>1, <1>2, SMT
<1> QED
  BY <1>1, <1>3, SMT DEF Turn

\* A node pulls from nodes.
LEMMA PeerTyped ==
    ASSUME TypeOK, NEW n \in Nodes
    PROVE  PeersOf[n] # <<>> => Peer(n) \in Nodes
BY MeshAssumption, ElementOfSeq, LenProperties DEF TypeOK, Peer

\* Both sides of a round have the cells down to its goal.
LEMMA GoalTyped ==
    ASSUME TypeOK, NEW n \in Nodes, PeersOf[n] # <<>>
    PROVE  /\ Goal(n, Peer(n)) \in 1..Levels /\ Goal(n, Peer(n)) <= LeafLevel[n]
           /\ Goal(n, Peer(n)) <= LeafLevel[Peer(n)]
           /\ Goal(n, Peer(n)) \in 0..Levels /\ goal[n] \in 0..Levels
<1>1. LeafLevel[n] \in 1..Levels /\ LeafLevel[Peer(n)] \in 1..Levels /\ Levels \in Nat
  BY PeerTyped, MeshAssumption, PathAssumption
<1>2. goal[n] \in 1..Levels
  BY DEF TypeOK
<1> QED
  BY <1>1, <1>2, SMT DEF Goal

LEMMA TypeInit == Init => TypeInv
<1> SUFFICES ASSUME Init PROVE TypeInv
  OBVIOUS
<1>1. \A n \in Nodes : /\ PeersOf[n] # <<>> => 1 \in DOMAIN PeersOf[n]
                       /\ 1 <= LeafLevel[n]
  BY MeshAssumption, EmptySeq, LenProperties, PathAssumption
<1>2. 1 \in 1..Levels
  BY PathAssumption
<1> QED
  BY <1>1, <1>2 DEF Init, TypeInv, Idle, TypeOK, NoPayload, Nothing

\* Going on to the next peer leaves a round's variables empty.
LEMMA TypeTurned ==
    ASSUME TypeInv, NEW n \in Nodes, Turned(n), pc[n] # "fold", PeersOf[n] # <<>>,
           UNCHANGED <<node, goal, taken>>
    PROVE  TypeInv'
BY TurnTyped DEF TypeInv, Idle, TypeOK, Turned, node, Peer

LEMMA TypeNext == TypeInv /\ [Next]_vars => TypeInv'
<1> SUFFICES ASSUME TypeInv, [Next]_vars PROVE TypeInv'
  OBVIOUS
<1> USE DEF TypeInv, Idle
<1>1. ASSUME NEW n \in Nodes, NEW i \in Items, Store(n, i) PROVE TypeInv'
  BY <1>1 DEF Store, TypeOK, round, Items, Peer
<1>2. ASSUME NEW n \in Nodes, StoreFold(n) \/ StoreDropped(n) PROVE TypeInv'
  <2>1. CASE StoreFold(n)
    BY <2>1, RowsTyped DEF StoreFold, TypeOK, round, Xor, Peer
  <2>2. CASE StoreDropped(n)
    BY <2>2 DEF StoreDropped, TypeOK, round, Peer
  <2> QED
    BY <1>2, <2>1, <2>2
<1>3. ASSUME NEW n \in Nodes, Roots(n) PROVE TypeInv'
  <2>0. PeersOf[n] # <<>>
    BY <1>3 DEF Roots
  <2>1. /\ goal' = [goal EXCEPT ![n] = Goal(n, Peer(n))]
        /\ reply' = [reply EXCEPT ![n] = Hashes(Peer(n), {Root(e) : e \in Epochs})]
        /\ base' = [base EXCEPT ![n] = forest[Peer(n)]]
        /\ pc' = [pc EXCEPT ![n] = "round"] /\ pc[n] = "next"
        /\ UNCHANGED <<node, at, work, batch, taken>>
    BY <1>3 DEF Roots
  <2>2. goal'[n] = Goal(n, Peer(n)) /\ reply'[n] = Hashes(Peer(n), {Root(e) : e \in Epochs})
    BY <2>1 DEF TypeOK
  <2>3. /\ reply'[n] \subseteq [cell : CellsTo(goal'[n]), hash : SUBSET Items]
        /\ CellsTo(goal'[n]) \subseteq CellsTo(Levels)
    BY <2>0, <2>2, GoalTyped, HashesTyped, RootsWithin, CellsWithin, PeerTyped
  <2>4. Peer(n) \in Nodes /\ Peer(n)' = Peer(n)
    BY <2>0, <2>1, PeerTyped DEF Peer
  <2>5. /\ goal'[n] \in 1..Levels
        /\ goal'[n] <= LeafLevel[n] /\ goal'[n] <= LeafLevel[Peer(n)']
        /\ work'[n] = {} /\ batch'[n] = {} /\ base'[n] \subseteq Items
    BY <2>0, <2>1, <2>2, <2>4, GoalTyped DEF TypeOK
  <2>6. reply'[n] \subseteq [cell : CellsTo(Levels), hash : SUBSET Items]
    BY <2>3
  <2>7. \A r \in reply'[n] : r.cell \in CellsTo(goal'[n])
    BY <2>3
  <2> QED
    BY <2>0, <2>1, <2>5, <2>6, <2>7 DEF TypeOK, node, Peer
<1>4. ASSUME NEW n \in Nodes, NEW r \in reply[n], Compare(n, r) PROVE TypeInv'
  BY <1>4 DEF Compare, TypeOK, node, Peer
<1>5. ASSUME NEW n \in Nodes, NEW c \in work[n], AskChildren(n, c) PROVE TypeInv'
  <2>1. /\ Hashes(Peer(n), Children(c)) \subseteq [cell : CellsTo(goal[n]), hash : SUBSET Items]
        /\ CellsTo(goal[n]) \subseteq CellsTo(Levels)
    <3>1. c \in CellsTo(goal[n]) /\ Level(c) # goal[n] /\ PeersOf[n] # <<>>
      BY <1>5 DEF AskChildren, Visits, TypeOK
    <3> QED
      BY <3>1, GoalTyped, ChildrenWithin, CellsWithin, HashesTyped, PeerTyped
  <2>2. /\ Hashes(Peer(n), Children(c)) \subseteq [cell : CellsTo(Levels), hash : SUBSET Items]
        /\ \A r \in Hashes(Peer(n), Children(c)) : r.cell \in CellsTo(goal[n])
    BY <2>1
  <2> QED
    BY <1>5, <2>2 DEF AskChildren, Visits, TypeOK, node, Peer
<1>6. ASSUME NEW n \in Nodes, NEW c \in work[n], Fetch(n, c) PROVE TypeInv'
  <2>1. Below(RowsIn(kv[Peer(n)]), c) \subseteq Items
    BY DEF RowsIn, Below
  <2> QED
    BY <1>6, <2>1 DEF Fetch, Visits, TypeOK, node, Peer
<1>7. ASSUME NEW n \in Nodes, NEW i \in batch[n],
             IngestNothing(n, i) \/ IngestCommit(n, i)
      PROVE  TypeInv'
  <2>1. i \in Items
    BY DEF TypeOK
  <2>2. CASE IngestNothing(n, i)
    BY <2>2 DEF IngestNothing, TypeOK, node, Peer
  <2>3. CASE IngestCommit(n, i)
    BY <2>1, <2>3, RowsTyped DEF IngestCommit, TypeOK, Peer, Items
  <2> QED
    BY <1>7, <2>2, <2>3
<1>8. ASSUME NEW n \in Nodes, IngestFold(n) PROVE TypeInv'
  BY <1>8, RowsTyped, ZenonT(60) DEF IngestFold, TypeOK, Xor, Peer, Nothing
<1>9. ASSUME NEW n \in Nodes, RoundDone(n) \/ Fails(n) PROVE TypeInv'
  BY <1>9, TypeTurned DEF RoundDone, Fails, Unreachable, RoundFails, TypeOK
<1>10. ASSUME NEW n \in Nodes, Restart(n) PROVE TypeInv'
  BY <1>10, RowsTyped, TurnTyped DEF Restart, TypeOK, Peer, Nothing
<1>11. CASE UNCHANGED vars
  BY <1>11 DEF vars, node, round, TypeOK, Peer
<1> QED
  BY <1>1, <1>2, <1>3, <1>4, <1>5, <1>6, <1>7, <1>8, <1>9, <1>10, <1>11
     DEF Next, RoundStep

\* The state of every node stays in its type, and the cells it asks its peer
\* about stay within both leaf depths (sync.rs:118-131, node_hash's panic).
THEOREM TypeCorrect == Spec => []TypeOK
<1>1. Spec => []TypeInv
  BY TypeInit, TypeNext, PTL DEF Spec
<1> QED
  BY <1>1, PTL DEF TypeInv

-----------------------------------------------------------------------------
(* Lemmas on rows *)

\* What a table has under a key depends on nothing but its payload.
LEMMA RowsAt ==
    ASSUME NEW f, NEW k
    PROVE  At(RowsIn(f), k) = {j \in Items : j[1] = k /\ j[2] = f[k]}
BY DEF At, RowsIn

LEMMA SameRowsAt ==
    ASSUME NEW f, NEW g, NEW k, f[k] = g[k]
    PROVE  At(RowsIn(f), k) = At(RowsIn(g), k)
<1>1. \A j \in Items : j[1] = k => (f[j[1]] = j[2] <=> g[j[1]] = j[2])
  OBVIOUS
<1> QED
  BY <1>1 DEF At, RowsIn

\* Folding rows in changes what a forest has under their keys.
LEMMA AtXor ==
    ASSUME NEW A, NEW B, NEW k
    PROVE  At(Xor(A, B), k) = Xor(At(A, k), At(B, k))
BY DEF At, Xor

LEMMA XorLaws == \A A : Xor(A, {}) = A /\ Xor({}, A) = A /\ Xor(A, A) = {}
BY DEF Xor

LEMMA AtOne ==
    ASSUME NEW i, NEW k
    PROVE  At({i}, k) = IF i[1] = k THEN {i} ELSE {}
BY DEF At

\* An item is the pair of its key and payload.
LEMMA ItemsArePairs ==
    /\ \A i \in Items : i[1] \in Keys /\ i[2] \in Payloads /\ i[2] \in Nat \ {0}
    /\ \A i, j \in Items : i[1] = j[1] /\ i[2] = j[2] => i = j
<1>1. \A i \in Items : i[1] \in Keys /\ i[2] \in Payloads /\ i = <<i[1], i[2]>>
  BY DEF Items
<1>2. \A i, j \in Items : i[1] = j[1] /\ i[2] = j[2] => i = j
  <2> SUFFICES ASSUME NEW i \in Items, NEW j \in Items, i[1] = j[1], i[2] = j[2]
               PROVE  i = j
    OBVIOUS
  <2>1. i = <<i[1], i[2]>> /\ j = <<j[1], j[2]>>
    BY <1>1
  <2> QED
    BY <2>1, Zenon
<1> QED
  BY <1>1, <1>2, PayloadsAssumption

-----------------------------------------------------------------------------
(* What is folded in *)

\* A step that leaves a node's rows, forest and calls alone.
Quiet(m) ==
    /\ kv'[m] = kv[m] /\ forest'[m] = forest[m] /\ trees'[m] = trees[m]
    /\ storing'[m] = storing[m] /\ lost'[m] = lost[m] /\ taken'[m] = taken[m]
    /\ pc'[m] = "fold" <=> pc[m] = "fold"

\* Every other step is one of six of the node's own.
LEMMA LoudSteps ==
    ASSUME TypeInv, [Next]_vars, NEW m \in Nodes, ~Quiet(m)
    PROVE  \/ \E i \in Items : Store(m, i)
           \/ StoreFold(m) \/ StoreDropped(m)
           \/ \E i \in batch[m] : IngestCommit(m, i)
           \/ IngestFold(m) \/ Restart(m)
<1>1. CASE UNCHANGED vars
  BY <1>1 DEF Quiet, vars, node, round
<1>2. CASE Next
  <2>1. PICK n \in Nodes : \/ \E i \in Items : Store(n, i)
                          \/ StoreFold(n) \/ StoreDropped(n)
                          \/ RoundStep(n) \/ Fails(n) \/ Restart(n)
    BY <1>2 DEF Next
  <2>2. CASE n # m
    <3>1. CASE (\E i \in Items : Store(n, i)) \/ StoreFold(n) \/ StoreDropped(n)
      <4>1. CASE \E i \in Items : Store(n, i)
        BY <2>2, <4>1 DEF Store, round, Quiet, TypeInv, TypeOK
      <4>2. CASE StoreFold(n)
        BY <2>2, <4>2 DEF StoreFold, round, Quiet, TypeInv, TypeOK
      <4>3. CASE StoreDropped(n)
        BY <2>2, <4>3 DEF StoreDropped, round, Quiet, TypeInv, TypeOK
      <4> QED
        BY <3>1, <4>1, <4>2, <4>3
    <3>2. CASE RoundStep(n)
      BY <2>2, <3>2 DEF RoundStep, Roots, Compare, AskChildren, Fetch, IngestNothing,
         IngestCommit, IngestFold, RoundDone, Turned, node, Quiet, TypeInv, TypeOK
    <3>3. CASE Fails(n) \/ Restart(n)
      BY <2>2, <3>3 DEF Fails, Unreachable, RoundFails, Restart, Turned, node,
         Quiet, TypeInv, TypeOK
    <3> QED
      BY <2>1, <3>1, <3>2, <3>3
  <2>3. CASE n = m
    <3>1. CASE \/ Roots(m) \/ \E r \in reply[m] : Compare(m, r)
               \/ \E c \in work[m] : AskChildren(m, c) \/ Fetch(m, c)
               \/ \E i \in batch[m] : IngestNothing(m, i)
      BY <3>1 DEF Roots, Compare, AskChildren, Fetch, Visits, IngestNothing, node,
         Quiet, TypeInv, TypeOK
    <3>2. CASE RoundDone(m) \/ Fails(m)
      BY <3>2 DEF RoundDone, Fails, Unreachable, RoundFails, Turned, node,
         Quiet, TypeInv, TypeOK
    <3> QED
      BY <2>1, <2>3, <3>1, <3>2 DEF RoundStep
  <2> QED
    BY <2>2, <2>3
<1> QED
  BY <1>1, <1>2

LEMMA FoldedFrame ==
    ASSUME NEW m \in Nodes, NodeFolded(m), Quiet(m)
    PROVE  NodeFolded(m)'
BY DEF Quiet, NodeFolded, StoreReady, TakeReady, KeysFolded, LostKept, LostBelow,
   ForestInTrees, At, Storing, Taking, Lost

\* A client's store finds nothing under its key.
LEMMA FoldedStore ==
    ASSUME TypeInv, ExclusiveKeys, NEW n \in Nodes, NodeFolded(n), NEW i \in Items, Store(n, i)
    PROVE  NodeFolded(n)'
<1>1. /\ storing[n] = {} /\ kv[n][i[1]] = NoPayload /\ ~Taking(n, i[1])
      /\ kv'[n] = [kv[n] EXCEPT ![i[1]] = i[2]] /\ storing'[n] = {i}
      /\ forest' = forest /\ trees' = trees /\ pc' = pc /\ taken' = taken
      /\ lost' = lost
  BY DEF Store, Taking, TypeInv, TypeOK, round
<1>2. /\ i[1] \in Keys /\ kv'[n][i[1]] = i[2]
      /\ \A k \in Keys : k # i[1] => kv'[n][k] = kv[n][k]
  BY <1>1, ItemsArePairs DEF TypeInv, TypeOK
<1>8. ~Lost(n, i[1])
  <2> SUFFICES ASSUME NEW j \in lost[n], j[1] = i[1] PROVE FALSE
    BY DEF Lost
  <2>1. j[2] \in Nat \ {0}
    BY ItemsArePairs DEF TypeInv, TypeOK
  <2>2. 0 >= j[2]
    BY <1>1 DEF NoPayload, NodeFolded, LostKept
  <2> QED
    BY <2>1, <2>2
<1>3. At(forest[n], i[1]) = {}
  <2>1. At(RowsIn(kv[n]), i[1]) = {}
    BY <1>1, RowsAt, ItemsArePairs DEF NoPayload
  <2>2. At(forest[n], i[1]) = At(RowsIn(kv[n]), i[1])
    BY <1>8, <1>1, <1>2 DEF NodeFolded, KeysFolded, LostBelow, Storing
  <2> QED
    BY <2>1, <2>2
<1>4. StoreReady(n)'
  BY <1>8, <1>1, <1>2, <1>3 DEF StoreReady, Taking, Lost, At
<1>5. TakeReady(n)'
  <2> SUFFICES ASSUME pc[n] = "fold" PROVE TakeReady(n)'
    BY <1>1 DEF TakeReady
  <2>1. taken[n].item \in Items /\ taken[n].item[1] # i[1]
    BY <1>1 DEF Taking, TypeInv, TypeOK
  <2>2. kv'[n][taken[n].item[1]] = kv[n][taken[n].item[1]]
    BY <1>2, <2>1, ItemsArePairs
  <2> QED
    BY <1>1, <2>2 DEF NodeFolded, TakeReady, Lost, At
<1>6. KeysFolded(n)'
  <2> SUFFICES ASSUME NEW k \in Keys
               PROVE  \/ At(forest'[n], k) = At(RowsIn(kv'[n]), k)
                      \/ Storing(n, k)' \/ Taking(n, k)' \/ LostBelow(n, k)'
    BY DEF KeysFolded, LostBelow, Lost, At
  <2>1. CASE k = i[1]
    BY <1>1, <2>1 DEF Storing
  <2>2. CASE k # i[1]
    <3>1. At(RowsIn(kv'[n]), k) = At(RowsIn(kv[n]), k)
      BY <1>2, <2>2, SameRowsAt
    <3> QED
      BY <1>1, <1>2, <2>2, <3>1 DEF NodeFolded, KeysFolded, LostBelow, Lost, Storing, Taking
  <2> QED
    BY <2>1, <2>2
<1>7. LostKept(n)'
  <2>1. \A j \in lost[n] : j[1] \in Keys /\ j[1] # i[1]
    BY <1>8, ItemsArePairs DEF Lost, TypeInv, TypeOK
  <2> QED
    BY <1>1, <1>2, <2>1 DEF NodeFolded, LostKept
<1> QED
  BY <1>1, <1>4, <1>5, <1>6, <1>7 DEF NodeFolded, ForestInTrees

LEMMA FoldedStoreFold ==
    ASSUME TypeInv, NEW n \in Nodes, NodeFolded(n), StoreFold(n)
    PROVE  NodeFolded(n)'
<1>1. PICK i \in storing[n] : storing[n] = {i}
  BY DEF StoreFold, NodeFolded, StoreReady
<1>2. /\ forest'[n] = Xor(forest[n], {i})
      /\ trees'[n] = trees[n] \union {EpochOf(j) : j \in {i}}
      /\ storing'[n] = {} /\ kv' = kv /\ pc' = pc /\ taken' = taken
      /\ lost' = lost
  BY <1>1 DEF StoreFold, TypeInv, TypeOK, round
<1>3. i \in Items /\ kv[n][i[1]] = i[2] /\ At(forest[n], i[1]) = {} /\ ~Taking(n, i[1])
  BY <1>1 DEF NodeFolded, StoreReady, TypeInv, TypeOK
<1>4. At(forest'[n], i[1]) = At(RowsIn(kv[n]), i[1])
  <2>1. At(forest'[n], i[1]) = {i}
    <3>1. At(forest'[n], i[1]) = Xor(At(forest[n], i[1]), At({i}, i[1]))
      BY <1>2, AtXor
    <3>2. At({i}, i[1]) = {i}
      BY AtOne
    <3> QED
      BY <1>3, <3>1, <3>2, XorLaws
  <2>2. At(RowsIn(kv[n]), i[1]) = {i}
    BY <1>3, RowsAt, ItemsArePairs
  <2> QED
    BY <2>1, <2>2
<1>5. \A k : k # i[1] => At(forest'[n], k) = At(forest[n], k)
  <2> SUFFICES ASSUME NEW k, k # i[1] PROVE At(forest'[n], k) = At(forest[n], k)
    OBVIOUS
  <2>1. At(forest'[n], k) = Xor(At(forest[n], k), At({i}, k))
    BY <1>2, AtXor
  <2>2. At({i}, k) = {}
    BY AtOne
  <2> QED
    BY <2>1, <2>2, XorLaws
<1>6. StoreReady(n)'
  BY <1>2 DEF StoreReady
<1>7. TakeReady(n)'
  <2> SUFFICES ASSUME pc[n] = "fold" PROVE TakeReady(n)'
    BY <1>2 DEF TakeReady
  <2>1. At(forest'[n], taken[n].item[1]) = At(forest[n], taken[n].item[1])
    BY <1>3, <1>5 DEF Taking
  <2> QED
    BY <1>2, <2>1 DEF NodeFolded, TakeReady, Lost, At
<1>8. KeysFolded(n)'
  <2> SUFFICES ASSUME NEW k \in Keys
               PROVE  \/ At(forest'[n], k) = At(RowsIn(kv'[n]), k)
                      \/ Storing(n, k)' \/ Taking(n, k)' \/ LostBelow(n, k)'
    BY DEF KeysFolded, LostBelow, Lost, At
  <2>1. CASE k = i[1]
    BY <1>2, <1>4, <2>1
  <2>2. CASE k # i[1]
    BY <1>1, <1>2, <1>5, <2>2 DEF NodeFolded, KeysFolded, LostBelow, Lost, Storing, Taking
  <2> QED
    BY <2>1, <2>2
<1>9. ForestInTrees(n)'
  BY <1>2 DEF NodeFolded, ForestInTrees, Xor
<1>10. LostKept(n)'
  BY <1>2 DEF NodeFolded, LostKept
<1> QED
  BY <1>6, <1>7, <1>8, <1>9, <1>10 DEF NodeFolded

\* The row of a dropped call is on disk, and under its key the forest has
\* nothing.
LEMMA FoldedDropped ==
    ASSUME TypeInv, NEW n \in Nodes, NodeFolded(n), StoreDropped(n)
    PROVE  NodeFolded(n)'
<1>1. PICK i \in storing[n] : storing[n] = {i}
  BY DEF StoreDropped, NodeFolded, StoreReady
<1>2. /\ storing'[n] = {} /\ lost'[n] = lost[n] \union {i}
      /\ kv' = kv /\ forest' = forest /\ trees' = trees /\ pc' = pc /\ taken' = taken
  BY <1>1 DEF StoreDropped, TypeInv, TypeOK, round
<1>3. i \in Items /\ kv[n][i[1]] = i[2] /\ At(forest[n], i[1]) = {}
  BY <1>1 DEF NodeFolded, StoreReady, TypeInv, TypeOK
<1>4. \A k : Lost(n, k)' <=> Lost(n, k) \/ k = i[1]
  BY <1>2 DEF Lost
<1>5. StoreReady(n)'
  BY <1>2 DEF StoreReady
<1>6. TakeReady(n)'
  BY <1>2, <1>4 DEF NodeFolded, TakeReady, At
<1>7. KeysFolded(n)'
  <2> SUFFICES ASSUME NEW k \in Keys
               PROVE  \/ At(forest'[n], k) = At(RowsIn(kv'[n]), k)
                      \/ Storing(n, k)' \/ Taking(n, k)' \/ LostBelow(n, k)'
    BY DEF KeysFolded, LostBelow, Lost, At
  <2>1. CASE k = i[1]
    BY <1>2, <1>3, <1>4, <2>1 DEF LostBelow, At
  <2>2. CASE k # i[1]
    BY <1>1, <1>2, <1>4, <2>2 DEF NodeFolded, KeysFolded, LostBelow, Storing, Taking, At
  <2> QED
    BY <2>1, <2>2
<1>8. LostKept(n)'
  BY <1>2, <1>3, ItemsArePairs DEF NodeFolded, LostKept
<1> QED
  BY <1>2, <1>5, <1>6, <1>7, <1>8 DEF NodeFolded, ForestInTrees

\* What ingest replaces is what the forest has.
LEMMA FoldedCommit ==
    ASSUME TypeInv, ExclusiveKeys, NEW n \in Nodes, NodeFolded(n),
           NEW i \in batch[n], IngestCommit(n, i)
    PROVE  NodeFolded(n)'
<1>1. /\ pc[n] = "round" /\ kv[n][i[1]] < i[2] /\ ~Storing(n, i[1])
      /\ kv'[n] = [kv[n] EXCEPT ![i[1]] = i[2]]
      /\ taken'[n] = [item |-> i, old |-> At(RowsIn(kv[n]), i[1])]
      /\ pc'[n] = "fold"
      /\ forest' = forest /\ trees' = trees /\ storing' = storing /\ lost' = lost
  BY DEF IngestCommit, Wins, Storing, At, TypeInv, TypeOK
<1>2. i \in Items /\ i[1] \in Keys
  BY ItemsArePairs DEF TypeInv, TypeOK
<1>3. /\ kv'[n][i[1]] = i[2]
      /\ \A k \in Keys : k # i[1] => kv'[n][k] = kv[n][k]
  BY <1>1, <1>2 DEF TypeInv, TypeOK
<1>4. \/ At(forest[n], i[1]) = At(RowsIn(kv[n]), i[1])
      \/ LostBelow(n, i[1])
  BY <1>1, <1>2 DEF NodeFolded, KeysFolded, Taking
<1>9. /\ \A j \in At(RowsIn(kv[n]), i[1]) : j[1] = i[1] /\ j[2] < i[2]
      /\ \A j \in At(forest[n], i[1]) : j[2] < i[2]
  <2>1. \A j \in At(RowsIn(kv[n]), i[1]) : j[1] = i[1] /\ j[2] < i[2]
    BY <1>1, RowsAt
  <2>2. ASSUME LostBelow(n, i[1]), NEW j \in At(forest[n], i[1]) PROVE j[2] < i[2]
    <3>1. j \in Items /\ j[2] \in Nat /\ i[2] \in Nat /\ kv[n][i[1]] \in Nat
      BY <1>2, ItemsArePairs, RowsTyped DEF At, TypeInv, TypeOK
    <3> QED
      BY <1>1, <2>2, <3>1 DEF LostBelow
  <2> QED
    BY <1>4, <2>1, <2>2
<1>5. StoreReady(n)'
  <2>1. ASSUME NEW j \in storing[n]
        PROVE  /\ j[1] \in Keys /\ j[1] # i[1] /\ kv[n][j[1]] = j[2]
               /\ At(forest[n], j[1]) = {} /\ ~Lost(n, j[1])
    BY <1>1, ItemsArePairs DEF Storing, NodeFolded, StoreReady, TypeInv, TypeOK
  <2>2. \A j, l \in storing[n] : j = l
    BY DEF NodeFolded, StoreReady
  <2> QED
    BY <1>1, <1>3, <2>1, <2>2 DEF StoreReady, Taking, Lost, At
<1>6. TakeReady(n)'
  BY <1>1, <1>3, <1>4, <1>9 DEF TakeReady, LostBelow, Lost, At
<1>7. KeysFolded(n)'
  <2> SUFFICES ASSUME NEW k \in Keys
               PROVE  \/ At(forest'[n], k) = At(RowsIn(kv'[n]), k)
                      \/ Storing(n, k)' \/ Taking(n, k)' \/ LostBelow(n, k)'
    BY DEF KeysFolded, LostBelow, Lost, At
  <2>1. CASE k = i[1]
    BY <1>1, <2>1 DEF Taking
  <2>2. CASE k # i[1]
    <3>1. At(RowsIn(kv'[n]), k) = At(RowsIn(kv[n]), k)
      BY <1>3, <2>2, SameRowsAt
    <3> QED
      BY <1>1, <1>3, <2>2, <3>1 DEF NodeFolded, KeysFolded, LostBelow, Lost, Storing, Taking
  <2> QED
    BY <2>1, <2>2
<1>8. LostKept(n)'
  <2>1. \A j \in lost[n] : j[1] \in Keys /\ j[2] \in Nat /\ kv[n][j[1]] \in Nat
    BY ItemsArePairs, RowsTyped DEF TypeInv, TypeOK
  <2>2. i[2] \in Nat
    BY <1>2, ItemsArePairs
  <2> QED
    BY <1>1, <1>3, <2>1, <2>2 DEF NodeFolded, LostKept
<1> QED
  BY <1>1, <1>5, <1>6, <1>7, <1>8 DEF NodeFolded, ForestInTrees

\* What ingest takes out of the forest, and puts in.
LEMMA IngestTurns ==
    ASSUME TypeInv, NEW n \in Nodes, NodeFolded(n), IngestFold(n)
    PROVE  LET i == taken[n].item
               gone == {j \in taken[n].old : EpochOf(j) \in trees[n]}
           IN /\ i \in Items /\ kv[n][i[1]] = i[2]
              /\ forest'[n] = Xor(Xor(forest[n], gone), {i})
              /\ \A j \in gone : j[1] = i[1] /\ j[2] < i[2] /\ EpochOf(j) \in trees[n]
              /\ \A j \in At(forest[n], i[1]) : j[2] < i[2]
              /\ At(forest[n], i[1]) = gone \/ Lost(n, i[1])
<1> DEFINE i == taken[n].item
<1> DEFINE gone == {j \in taken[n].old : EpochOf(j) \in trees[n]}
<1>1. /\ pc[n] = "fold" /\ i \in Items
      /\ forest'[n] = Xor(Xor(forest[n], gone), {i})
  BY DEF IngestFold, TypeInv, TypeOK
<1>2. /\ kv[n][i[1]] = i[2]
      /\ At(forest[n], i[1]) = taken[n].old \/ Lost(n, i[1])
      /\ \A j \in taken[n].old : j[1] = i[1] /\ j[2] < i[2]
      /\ \A j \in At(forest[n], i[1]) : j[2] < i[2]
  BY <1>1 DEF NodeFolded, TakeReady
<1>3. At(forest[n], i[1]) = taken[n].old => gone = taken[n].old
  BY DEF NodeFolded, ForestInTrees, At
<1> QED
  BY <1>1, <1>2, <1>3

LEMMA FoldedIngest ==
    ASSUME TypeInv, NEW n \in Nodes, NodeFolded(n), IngestFold(n)
    PROVE  NodeFolded(n)'
<1> DEFINE i == taken[n].item
<1> DEFINE gone == {j \in taken[n].old : EpochOf(j) \in trees[n]}
<1>1. /\ pc[n] = "fold" /\ pc'[n] = "round"
      /\ trees'[n] = trees[n] \union {EpochOf(i)}
      /\ kv' = kv /\ storing' = storing /\ lost' = lost
  BY DEF IngestFold, TypeInv, TypeOK
<1>2. /\ i \in Items /\ kv[n][i[1]] = i[2]
      /\ forest'[n] = Xor(Xor(forest[n], gone), {i})
      /\ \A j \in gone : j[1] = i[1] /\ j[2] < i[2] /\ EpochOf(j) \in trees[n]
      /\ \A j \in At(forest[n], i[1]) : j[2] < i[2]
      /\ At(forest[n], i[1]) = gone \/ Lost(n, i[1])
  BY IngestTurns
<1>0. \A k : Taking(n, k) => k = i[1]
  BY DEF Taking
<1> HIDE DEF i, gone
<1>3. \A k : At(gone, k) = IF i[1] = k THEN gone ELSE {}
  BY <1>2 DEF At
<1>4. \A k : At(forest'[n], k) =
               IF i[1] = k THEN Xor(Xor(At(forest[n], k), gone), {i}) ELSE At(forest[n], k)
  <2> TAKE k
  <2>1. At(forest'[n], k) = Xor(Xor(At(forest[n], k), At(gone, k)), At({i}, k))
    BY <1>2, AtXor
  <2>2. At({i}, k) = IF i[1] = k THEN {i} ELSE {}
    BY AtOne
  <2>3. CASE i[1] = k
    BY <1>3, <2>1, <2>2, <2>3
  <2>4. CASE i[1] # k
    <3>1. At(gone, k) = {} /\ At({i}, k) = {}
      BY <1>3, <2>2, <2>4
    <3>2. At(forest'[n], k) = At(forest[n], k)
      BY <2>1, <3>1, XorLaws
    <3> QED
      BY <2>4, <3>2
  <2> QED
    BY <2>3, <2>4
<1>5. StoreReady(n)'
  <2>1. \A j \in storing[n] : /\ j[1] # i[1] /\ kv[n][j[1]] = j[2]
                             /\ At(forest[n], j[1]) = {} /\ ~Lost(n, j[1])
    BY <1>1 DEF NodeFolded, StoreReady, Taking, i
  <2>2. \A j, l \in storing[n] : j = l
    BY DEF NodeFolded, StoreReady
  <2> QED
    BY <1>1, <1>4, <2>1, <2>2 DEF StoreReady, Taking, Lost
<1>6. KeysFolded(n)'
  <2> SUFFICES ASSUME NEW k \in Keys
               PROVE  \/ At(forest'[n], k) = At(RowsIn(kv'[n]), k)
                      \/ Storing(n, k)' \/ Taking(n, k)' \/ LostBelow(n, k)'
    BY DEF KeysFolded, LostBelow, Lost, At
  <2>1. CASE k = i[1] /\ At(forest[n], k) = gone
    <3>1. At(RowsIn(kv[n]), k) = {i}
      BY <1>2, <2>1, RowsAt, ItemsArePairs
    <3>2. At(forest'[n], k) = {i}
      BY <1>4, <2>1, XorLaws
    <3> QED
      BY <1>1, <3>1, <3>2
  <2>2. CASE k = i[1] /\ Lost(n, k)
    <3>1. \A j \in At(forest'[n], k) : j \in At(forest[n], k) \/ j \in gone \/ j = i
      BY <1>4, <2>2 DEF Xor
    <3>2. \A j \in At(forest'[n], k) : j[2] < i[2] \/ j = i
      BY <1>2, <2>2, <3>1
    <3>3. forest[n] \subseteq Items /\ gone \subseteq Items
      BY DEF TypeInv, TypeOK, gone
    <3>4. \A j \in At(forest'[n], k) : j \in Items
      BY <1>2, <3>1, <3>3 DEF At
    <3>5. i[2] \in Nat /\ kv[n][k] = i[2] /\ \A j \in At(forest'[n], k) : j[2] \in Nat
      BY <1>2, <2>2, <3>4, ItemsArePairs
    <3>6. \A j \in At(forest'[n], k) : j[2] <= kv[n][k]
      BY <3>2, <3>5
    <3> QED
      BY <1>1, <2>2, <3>6 DEF LostBelow, Lost, At
  <2>3. CASE k # i[1]
    <3>1. At(forest'[n], k) = At(forest[n], k) /\ ~Taking(n, k)
      BY <1>0, <1>4, <2>3
    <3> QED
      BY <1>1, <3>1 DEF NodeFolded, KeysFolded, LostBelow, Lost, Storing, At
  <2> QED
    BY <1>2, <2>1, <2>2, <2>3
<1>7. ForestInTrees(n)'
  <2>1. \A j \in forest'[n] : j \in forest[n] \/ j \in gone \/ j = i
    BY <1>2 DEF Xor
  <2> QED
    BY <1>1, <1>2, <2>1 DEF NodeFolded, ForestInTrees
<1>8. LostKept(n)'
  BY <1>1 DEF NodeFolded, LostKept
<1> QED
  BY <1>1, <1>5, <1>6, <1>7, <1>8 DEF NodeFolded, TakeReady

LEMMA FoldedRestart ==
    ASSUME TypeInv, NEW n \in Nodes, Restart(n)
    PROVE  NodeFolded(n)'
<1>1. /\ forest'[n] = RowsIn(kv[n]) /\ trees'[n] = EpochsIn(kv[n])
      /\ storing'[n] = {} /\ lost'[n] = {} /\ pc'[n] = "next" /\ kv' = kv
  BY DEF Restart, TypeInv, TypeOK
<1>2. StoreReady(n)' /\ TakeReady(n)'
  BY <1>1 DEF StoreReady, TakeReady
<1>3. KeysFolded(n)' /\ LostKept(n)' /\ ForestInTrees(n)'
  BY <1>1 DEF KeysFolded, LostKept, ForestInTrees, EpochsIn, At
<1> QED
  BY <1>2, <1>3 DEF NodeFolded

LEMMA FoldNext ==
    ASSUME ExclusiveKeys
    PROVE  TypeInv /\ FoldInv /\ [Next]_vars => FoldInv'
<1> SUFFICES ASSUME TypeInv, FoldInv, [Next]_vars, NEW m \in Nodes PROVE NodeFolded(m)'
  BY DEF FoldInv
<1>1. NodeFolded(m)
  BY DEF FoldInv
<1> QED
  BY <1>1, LoudSteps, FoldedFrame, FoldedStore, FoldedStoreFold, FoldedDropped,
     FoldedCommit, FoldedIngest, FoldedRestart

LEMMA FoldInit == Init => FoldInv
BY RowsAt, ItemsArePairs DEF Init, FoldInv, NodeFolded, StoreReady, TakeReady,
   KeysFolded, LostKept, ForestInTrees, At, NoPayload

-----------------------------------------------------------------------------
(* Nothing moves down *)

\* The forest never runs ahead of the rows.
LEMMA ForestBelow ==
    ASSUME TypeInv, FoldInv, NEW n \in Nodes, NEW j \in forest[n]
    PROVE  kv[n][j[1]] \in Payloads /\ kv[n][j[1]] >= j[2]
<1>1. j \in Items /\ j[1] \in Keys /\ j[2] \in Nat \ {0} /\ j \in At(forest[n], j[1])
  BY ItemsArePairs DEF TypeInv, TypeOK, At
<1>2. kv[n][j[1]] \in Payloads \union {0}
  BY <1>1 DEF TypeInv, TypeOK, NoPayload
<1>3. kv[n][j[1]] >= j[2]
  <2>1. NodeFolded(n)
    BY DEF FoldInv
  <2>2. CASE At(forest[n], j[1]) = At(RowsIn(kv[n]), j[1])
    BY <1>1, <2>2, RowsAt
  <2>3. CASE Storing(n, j[1])
    BY <1>1, <2>1, <2>3 DEF Storing, NodeFolded, StoreReady
  <2>4. CASE Taking(n, j[1])
    <3>1. /\ pc[n] = "fold" /\ taken[n].item[1] = j[1] /\ taken[n].item \in Items
          /\ kv[n][j[1]] = taken[n].item[2]
      BY <2>1, <2>4 DEF Taking, NodeFolded, TakeReady, TypeInv, TypeOK
    <3>2. j[2] < taken[n].item[2]
      BY <1>1, <2>1, <3>1 DEF NodeFolded, TakeReady
    <3> QED
      BY <1>1, <3>1, <3>2, ItemsArePairs
  <2>5. CASE LostBelow(n, j[1])
    <3>1. j[2] <= kv[n][j[1]]
      BY <1>1, <2>5 DEF LostBelow
    <3>2. kv[n][j[1]] \in Nat /\ j[2] \in Nat
      BY <1>1, RowsTyped DEF TypeInv
    <3> QED
      BY <3>1, <3>2
  <2> QED
    BY <1>1, <2>1, <2>2, <2>3, <2>4, <2>5 DEF NodeFolded, KeysFolded
<1> QED
  BY <1>1, <1>2, <1>3

\* A row is only replaced by a winning one.
LEMMA KvUp ==
    ASSUME TypeInv, ExclusiveKeys, [Next]_vars, NEW m \in Nodes, NEW k \in Keys
    PROVE  kv'[m][k] >= kv[m][k]
<1>1. kv[m][k] \in Nat
  BY RowsTyped DEF TypeInv
<1>2. ASSUME NEW i \in Items, Store(m, i) PROVE kv'[m][k] >= kv[m][k]
  BY <1>1, <1>2, ItemsArePairs DEF Store, NoPayload, TypeInv, TypeOK
<1>3. ASSUME NEW i \in batch[m], IngestCommit(m, i) PROVE kv'[m][k] >= kv[m][k]
  BY <1>1, <1>3, ItemsArePairs DEF IngestCommit, Wins, TypeInv, TypeOK
<1>4. CASE StoreFold(m) \/ StoreDropped(m) \/ IngestFold(m) \/ Restart(m)
  BY <1>1, <1>4 DEF StoreFold, StoreDropped, IngestFold, Restart
<1> QED
  BY <1>1, <1>2, <1>3, <1>4, LoudSteps DEF Quiet

\* What a forest has, it goes on having, or something better.
LEMMA ForestUp ==
    ASSUME TypeInv, FoldInv, [Next]_vars, NEW m \in Nodes,
           NEW i \in Items, AsGood(forest[m], i)
    PROVE  AsGood(forest'[m], i)
<1>1. PICK j \in forest[m] : j[1] = i[1] /\ j[2] >= i[2]
  BY DEF AsGood
<1>2. j \in Items /\ NodeFolded(m)
  BY DEF FoldInv, TypeInv, TypeOK
<1>3. CASE Quiet(m) \/ StoreDropped(m) \/ \E l \in Items : Store(m, l)
  BY <1>1, <1>3 DEF Quiet, Store, StoreDropped, AsGood
<1>4. CASE StoreFold(m)
  <2>1. j \notin storing[m]
    BY <1>2 DEF NodeFolded, StoreReady, At
  <2> QED
    BY <1>1, <1>4, <2>1 DEF StoreFold, Xor, AsGood, TypeInv, TypeOK
<1>5. CASE \E l \in batch[m] : IngestCommit(m, l)
  BY <1>1, <1>5 DEF IngestCommit, AsGood
<1>6. CASE IngestFold(m)
  <2> DEFINE new == taken[m].item
  <2> DEFINE gone == {l \in taken[m].old : EpochOf(l) \in trees[m]}
  <2>1. /\ new \in Items /\ forest'[m] = Xor(Xor(forest[m], gone), {new})
        /\ \A l \in gone : l[1] = new[1] /\ l[2] < new[2]
        /\ \A l \in At(forest[m], new[1]) : l[2] < new[2]
    BY <1>2, <1>6, IngestTurns
  <2> HIDE DEF new, gone
  <2>2. new \notin gone /\ new \notin forest[m]
    BY <2>1, ItemsArePairs DEF At
  <2>3. CASE j \in gone
    <3>1. new \in forest'[m]
      BY <2>1, <2>2 DEF Xor
    <3>2. new[1] = i[1] /\ new[2] >= i[2]
      BY <1>1, <1>2, <2>1, <2>3, ItemsArePairs
    <3> QED
      BY <3>1, <3>2 DEF AsGood
  <2>4. CASE j \notin gone
    <3>1. j \in forest'[m]
      BY <1>1, <2>1, <2>2, <2>4 DEF Xor
    <3> QED
      BY <1>1, <3>1 DEF AsGood
  <2> QED
    BY <2>3, <2>4
<1>7. CASE Restart(m)
  <2>1. forest'[m] = RowsIn(kv[m])
    BY <1>7 DEF Restart, TypeInv, TypeOK
  <2>2. kv[m][j[1]] \in Payloads /\ kv[m][j[1]] >= j[2] /\ j[1] \in Keys
    BY <1>2, ForestBelow, ItemsArePairs
  <2>3. <<j[1], kv[m][j[1]]>> \in RowsIn(kv[m])
    BY <2>2 DEF RowsIn, Items
  <2>4. kv[m][j[1]] >= i[2]
    <3>1. kv[m][j[1]] \in Nat /\ j[2] \in Nat /\ i[2] \in Nat
      BY <1>2, <2>2, ItemsArePairs, PayloadsAssumption
    <3> QED
      BY <1>1, <2>2, <3>1
  <2> QED
    BY <1>1, <2>1, <2>3, <2>4 DEF AsGood
<1> QED
  BY <1>3, <1>4, <1>5, <1>6, <1>7, LoudSteps

-----------------------------------------------------------------------------
(* Rounds, and the rows of the mesh *)

\* A step that leaves a node's round alone, or ends it.
RoundKept(n) ==
    pc'[n] # "next" =>
        /\ pc[n] # "next" /\ base'[n] = base[n] /\ Peer(n)' = Peer(n)
        /\ reply'[n] = reply[n] /\ work'[n] = work[n] /\ batch'[n] = batch[n]

\* Every other step is one of six of the node's own.
LEMMA RoundSteps ==
    ASSUME TypeInv, [Next]_vars, NEW n \in Nodes, ~RoundKept(n)
    PROVE  \/ Roots(n)
           \/ \E r \in reply[n] : Compare(n, r)
           \/ \E c \in work[n] : AskChildren(n, c) \/ Fetch(n, c)
           \/ \E i \in batch[n] : IngestNothing(n, i) \/ IngestCommit(n, i)
<1>1. CASE UNCHANGED vars
  BY <1>1 DEF RoundKept, vars, round, Peer
<1>2. CASE Next
  <2>1. PICK m \in Nodes : \/ \E i \in Items : Store(m, i)
                           \/ StoreFold(m) \/ StoreDropped(m)
                           \/ RoundStep(m) \/ Fails(m) \/ Restart(m)
    BY <1>2 DEF Next
  <2>2. CASE (\E i \in Items : Store(m, i)) \/ StoreFold(m) \/ StoreDropped(m)
    BY <2>2 DEF Store, StoreFold, StoreDropped, round, RoundKept, Peer
  <2>3. CASE RoundDone(m) \/ Fails(m) \/ Restart(m)
    BY <2>3 DEF RoundDone, Fails, Unreachable, RoundFails, Restart, Turned,
       RoundKept, Peer, TypeInv, TypeOK
  <2>4. CASE IngestFold(m)
    BY <2>4 DEF IngestFold, RoundKept, Peer, TypeInv, TypeOK
  <2>5. CASE RoundStep(m) /\ m # n
    BY <2>5 DEF RoundStep, Roots, Compare, AskChildren, Fetch, Visits, IngestNothing,
       IngestCommit, IngestFold, RoundDone, Turned, RoundKept, Peer, TypeInv, TypeOK
  <2> QED
    BY <2>1, <2>2, <2>3, <2>4, <2>5, SMTT(30) DEF RoundStep
<1> QED
  BY <1>1, <1>2

\* Payloads are naturals, before and after a step.
LEMMA RowsAreNat ==
    ASSUME TypeInv, TypeInv', NEW n \in Nodes, NEW k \in Keys
    PROVE  kv[n][k] \in Nat /\ kv'[n][k] \in Nat
<1>1. \A p \in Payloads \union {NoPayload} : p \in Nat
  BY PayloadsAssumption DEF NoPayload
<1>2. /\ kv \in [Nodes -> [Keys -> Payloads \union {NoPayload}]]
      /\ kv' \in [Nodes -> [Keys -> Payloads \union {NoPayload}]]
  BY DEF TypeInv, TypeOK
<1>3. /\ kv[n][k] \in Payloads \union {NoPayload}
      /\ kv'[n][k] \in Payloads \union {NoPayload}
  BY <1>2
<1> QED
  BY <1>1, <1>3

-----------------------------------------------------------------------------
(* What the peer had when the round began *)

LEMMA BaseNext ==
    ASSUME TypeInv, TypeInv', FoldInv, BaseKept, [Next]_vars
    PROVE  BaseKept'
<1> SUFFICES ASSUME NEW n \in Nodes, pc'[n] # "next", NEW i \in base'[n]
             PROVE  AsGood(forest'[Peer(n)'], i)
  BY DEF BaseKept, AsGood
<1>1. i \in Items
  BY DEF TypeInv, TypeOK
<1>2. CASE Roots(n)
  <2>1. Peer(n)' = Peer(n) /\ forest' = forest /\ i \in forest[Peer(n)]
    BY <1>2 DEF Roots, node, Peer, TypeInv, TypeOK
  <2> QED
    BY <1>1, <2>1, ItemsArePairs DEF AsGood
<1>3. CASE ~Roots(n)
  <2>1. pc[n] # "next" /\ base'[n] = base[n] /\ Peer(n)' = Peer(n)
    BY <1>3, RoundSteps DEF RoundKept, Compare, AskChildren, Fetch, Visits,
       IngestNothing, IngestCommit, Peer
  <2>2. AsGood(forest[Peer(n)], i) /\ Peer(n) \in Nodes
    BY <2>1, PeerTyped DEF BaseKept, TypeInv, TypeOK
  <2> QED
    BY <1>1, <2>1, <2>2, ForestUp
<1> QED
  BY <1>2, <1>3

-----------------------------------------------------------------------------
(* What is yet to be brought *)

\* A round that drops nothing stays ahead.
LEMMA AheadKept ==
    ASSUME TypeInv, TypeInv', NEW n \in Nodes, NEW i \in Items, Ahead(n, i),
           kv'[n][i[1]] >= kv[n][i[1]],
           reply[n] \subseteq reply'[n], work[n] \subseteq work'[n],
           batch[n] \subseteq batch'[n]
    PROVE  Ahead(n, i)'
<1>1. i[1] \in Keys /\ i[2] \in Nat
  BY ItemsArePairs
<1>2. kv[n][i[1]] \in Nat /\ kv'[n][i[1]] \in Nat
  BY <1>1, RowsAreNat
<1>3. CASE kv[n][i[1]] >= i[2]
  BY <1>1, <1>2, <1>3 DEF Ahead
<1>4. CASE AsGood(batch[n], i)
  BY <1>4 DEF Ahead, AsGood
<1>5. CASE \E c \in work[n] : i \in Below({i}, c)
  BY <1>5 DEF Ahead
<1>6. CASE \E r \in reply[n] : i \in Below({i}, r.cell) /\ AsGood(r.hash, i)
  BY <1>6 DEF Ahead
<1> QED
  BY <1>3, <1>4, <1>5, <1>6 DEF Ahead

\* What the peer's hash of a cell stands for, if the cell has anything.
LEMMA HashOf ==
    ASSUME NEW m, NEW cells, NEW c \in cells, NEW j \in Below(forest[m], c)
    PROVE  \E r \in Hashes(m, cells) : r.cell = c /\ r.hash = Below(forest[m], c)
<1>1. [cell |-> c, hash |-> Below(forest[m], c)] \in Hashes(m, cells)
  BY DEF Hashes
<1> QED
  BY <1>1

\* An item lies below a cell if one of the same key does.
LEMMA SameCell ==
    ASSUME NEW i, NEW j, i[1] = j[1], NEW c, NEW A, NEW B, j \in B,
           i \in Below(A, c)
    PROVE  j \in Below(B, c)
BY DEF Below

\* The roots cover whatever the peer has.
LEMMA RootsCover ==
    ASSUME TypeInv, NEW n \in Nodes, Roots(n), NEW i \in base'[n]
    PROVE  Ahead(n, i)'
<1> DEFINE c == Root(KeyEpoch[i[1]])
<1>1. i \in forest[Peer(n)] /\ i \in Items /\ Peer(n) \in Nodes
  BY PeerTyped DEF Roots, TypeInv, TypeOK
<1>2. c = CellAt(i[1], 0) /\ c \in {Root(e) : e \in Epochs}
  BY <1>1, RootCell, ItemsArePairs DEF Epochs
<1>3. i \in Below(forest[Peer(n)], c) /\ i \in Below({i}, c)
  <2>1. 0 \in 0..Levels
    BY PathAssumption
  <2>2. \A items : i \in items => i \in Below(items, CellAt(i[1], 0))
    BY <1>1, <2>1, InCell
  <2> QED
    BY <1>1, <1>2, <2>2
<1>4. \E r \in reply'[n] : r.cell = c /\ r.hash = Below(forest[Peer(n)], c)
  <2> DEFINE roots == {Root(e) : e \in Epochs}
  <2>1. reply'[n] = Hashes(Peer(n), roots)
    BY DEF Roots, TypeInv, TypeOK
  <2>2. c \in roots
    BY <1>2
  <2>3. i \in Below(forest[Peer(n)], c)
    BY <1>3
  <2> HIDE DEF c, roots
  <2>4. \E r \in Hashes(Peer(n), roots) : r.cell = c /\ r.hash = Below(forest[Peer(n)], c)
    BY <2>2, <2>3, HashOf
  <2> QED
    BY <2>1, <2>4
<1>5. i[2] >= i[2]
  BY <1>1, ItemsArePairs
<1> QED
  BY <1>3, <1>4, <1>5 DEF Ahead, AsGood

\* Equal hashes mean this node has what the peer has there.
LEMMA CompareCovers ==
    ASSUME TypeInv, TypeInv', FoldInv, NEW n \in Nodes, NEW r \in reply[n], Compare(n, r),
           NEW i \in Items, Ahead(n, i)
    PROVE  Ahead(n, i)'
<1>1. /\ kv' = kv /\ batch' = batch /\ reply'[n] = reply[n] \ {r}
      /\ work'[n] = IF Diverges(n, r) THEN work[n] \union {r.cell} ELSE work[n]
  BY DEF Compare, node, TypeInv, TypeOK
<1>2. i[1] \in Keys /\ i[2] \in Nat /\ kv[n][i[1]] \in Nat
  BY ItemsArePairs, RowsTyped DEF TypeInv
<1>3. CASE i \in Below({i}, r.cell) /\ AsGood(r.hash, i)
  <2>1. CASE Diverges(n, r)
    BY <1>1, <1>3, <2>1 DEF Ahead
  <2>2. CASE ~Diverges(n, r)
    <3>1. PICK j \in Below(forest[n], r.cell) : j[1] = i[1] /\ j[2] >= i[2]
      BY <1>3, <2>2 DEF Diverges, AsGood
    <3>2. j \in forest[n] /\ j[2] \in Nat
      BY <3>1, ItemsArePairs DEF Below, TypeInv, TypeOK
    <3>3. kv[n][i[1]] >= j[2]
      BY <3>1, <3>2, ForestBelow
    <3>4. kv[n][i[1]] >= i[2]
      BY <1>2, <3>1, <3>2, <3>3
    <3> QED
      BY <1>1, <3>4 DEF Ahead
  <2> QED
    BY <2>1, <2>2
<1>4. CASE ~(i \in Below({i}, r.cell) /\ AsGood(r.hash, i))
  BY <1>1, <1>4 DEF Ahead
<1> QED
  BY <1>3, <1>4

\* A child of the cell on the item's path has what the peer has of it.
LEMMA ChildrenCover ==
    ASSUME TypeInv, FoldInv, NEW n \in Nodes, NEW c \in work[n], AskChildren(n, c),
           NEW i \in Items, Ahead(n, i), AsGood(forest[Peer(n)], i)
    PROVE  Ahead(n, i)'
<1>1. /\ kv' = kv /\ batch' = batch /\ reply[n] = {} /\ batch[n] = {}
      /\ work'[n] = work[n] \ {c} /\ reply'[n] = Hashes(Peer(n), Children(c))
  BY DEF AskChildren, Visits, node, TypeInv, TypeOK
<1>2. CASE i \in Below({i}, c)
  <2>1. PICK j \in forest[Peer(n)] : j[1] = i[1] /\ j[2] >= i[2]
    BY DEF AsGood
  <2>2. Level(c) \in 0..Levels /\ Level(c) < Levels /\ Level(c) + 1 \in 0..Levels
    <3>1. c \in CellsTo(goal[n]) /\ Level(c) # goal[n] /\ goal[n] \in 0..Levels
      BY GoalTyped DEF AskChildren, TypeInv, TypeOK
    <3> QED
      BY <3>1, ChildrenWithin, PathAssumption
  <2>3. c = CellAt(i[1], Level(c)) /\ i[1] \in Keys
    BY <1>2, CellOf, ItemsArePairs
  <2> DEFINE d == CellAt(i[1], Level(c) + 1)
  <2>4. d \in Children(c)
    BY <2>2, <2>3, CellBelow
  <2>5. i \in Below({i}, d)
    BY <2>2, InCell
  <2> HIDE DEF d
  <2>6. j \in Below(forest[Peer(n)], d)
    BY <2>1, <2>5, SameCell
  <2>7. PICK r \in reply'[n] : r.cell = d /\ r.hash = Below(forest[Peer(n)], d)
    BY <1>1, <2>4, <2>6, HashOf
  <2>8. AsGood(r.hash, i)
    BY <2>1, <2>6, <2>7 DEF AsGood
  <2> QED
    BY <2>5, <2>7, <2>8 DEF Ahead
<1>3. CASE i \notin Below({i}, c)
  BY <1>1, <1>3 DEF Ahead, AsGood
<1> QED
  BY <1>2, <1>3

\* The rows of a leaf include what the peer's forest has there, or better.
LEMMA FetchCovers ==
    ASSUME TypeInv, FoldInv, NEW n \in Nodes, NEW c \in work[n], Fetch(n, c),
           NEW i \in Items, Ahead(n, i), AsGood(forest[Peer(n)], i)
    PROVE  Ahead(n, i)'
<1>1. /\ kv' = kv /\ reply' = reply /\ reply[n] = {} /\ batch[n] = {}
      /\ work'[n] = work[n] \ {c} /\ batch'[n] = Below(RowsIn(kv[Peer(n)]), c)
  BY DEF Fetch, Visits, node, TypeInv, TypeOK
<1>2. CASE i \in Below({i}, c)
  <2>1. PICK j \in forest[Peer(n)] : j[1] = i[1] /\ j[2] >= i[2]
    BY DEF AsGood
  <2>2. Peer(n) \in Nodes /\ j[1] \in Keys /\ j[2] \in Nat /\ i[2] \in Nat
    BY PeerTyped, ItemsArePairs DEF Fetch, Visits, TypeInv, TypeOK
  <2>3. kv[Peer(n)][j[1]] \in Payloads /\ kv[Peer(n)][j[1]] >= j[2]
    BY <2>2, ForestBelow
  <2>4. kv[Peer(n)][j[1]] >= i[2]
    <3>1. kv[Peer(n)][j[1]] \in Nat
      BY <2>3, PayloadsAssumption
    <3> QED
      BY <2>1, <2>2, <2>3, <3>1
  <2> DEFINE row == <<j[1], kv[Peer(n)][j[1]]>>
  <2>5. row \in RowsIn(kv[Peer(n)]) /\ row[1] = i[1] /\ row[2] >= i[2]
    BY <2>1, <2>2, <2>3, <2>4 DEF RowsIn, Items
  <2> HIDE DEF row
  <2>6. row \in batch'[n]
    BY <1>1, <1>2, <2>5, SameCell
  <2> QED
    BY <2>5, <2>6 DEF Ahead, AsGood
<1>3. CASE i \notin Below({i}, c)
  BY <1>1, <1>3 DEF Ahead, AsGood
<1> QED
  BY <1>2, <1>3

\* A row leaves the batch when the node has it or a winning one.
LEMMA IngestCovers ==
    ASSUME TypeInv, TypeInv', NEW n \in Nodes, NEW j \in batch[n],
           IngestNothing(n, j) \/ IngestCommit(n, j),
           NEW i \in Items, Ahead(n, i), kv'[n][i[1]] >= kv[n][i[1]]
    PROVE  Ahead(n, i)'
<1>1. reply' = reply /\ work' = work /\ batch'[n] = batch[n] \ {j}
  BY DEF IngestNothing, IngestCommit, TypeInv, TypeOK
<1>2. /\ i[1] \in Keys /\ i[2] \in Nat /\ j \in Items /\ j[1] \in Keys /\ j[2] \in Nat
      /\ kv[n][j[1]] \in Nat /\ kv[n][i[1]] \in Nat /\ kv'[n][i[1]] \in Nat
  <2>1. i \in Items /\ j \in Items
    BY DEF TypeInv, TypeOK
  <2>2. /\ i[1] \in Keys /\ i[2] \in Nat /\ j[1] \in Keys /\ j[2] \in Nat
    BY <2>1, ItemsArePairs
  <2> QED
    BY <2>1, <2>2, RowsAreNat
<1>3. kv'[n][j[1]] >= j[2]
  BY <1>2 DEF IngestNothing, IngestCommit, Wins, node, TypeInv, TypeOK
<1>4. CASE j[1] = i[1] /\ j[2] >= i[2]
  <2>1. kv'[n][i[1]] >= i[2]
    BY <1>2, <1>3, <1>4
  <2> QED
    BY <2>1 DEF Ahead
<1>5. CASE ~(j[1] = i[1] /\ j[2] >= i[2])
  <2>1. AsGood(batch[n], i) => AsGood(batch'[n], i)
    BY <1>1, <1>5 DEF AsGood
  <2>2. kv[n][i[1]] >= i[2] => kv'[n][i[1]] >= i[2]
    BY <1>2
  <2> QED
    BY <1>1, <2>1, <2>2 DEF Ahead
<1> QED
  BY <1>4, <1>5

LEMMA CoversNext ==
    ASSUME ExclusiveKeys, TypeInv, TypeInv', FoldInv, RoundInv, [Next]_vars
    PROVE  RoundCovers'
<1> SUFFICES ASSUME NEW n \in Nodes, pc'[n] # "next", NEW i \in base'[n]
             PROVE  Ahead(n, i)'
  BY DEF RoundCovers
<1>1. i \in Items /\ i[1] \in Keys
  BY ItemsArePairs DEF TypeInv, TypeOK
<1>2. kv'[n][i[1]] >= kv[n][i[1]]
  BY <1>1, KvUp
<1>3. CASE Roots(n)
  BY <1>3, RootsCover
<1>4. CASE ~Roots(n)
  <2>1. pc[n] # "next" /\ base'[n] = base[n]
    BY <1>4, RoundSteps DEF RoundKept, Compare, AskChildren, Fetch, Visits,
       IngestNothing, IngestCommit
  <2>2. Ahead(n, i) /\ AsGood(forest[Peer(n)], i)
    BY <2>1 DEF RoundInv, RoundCovers, BaseKept
  <2>3. CASE RoundKept(n)
    BY <1>1, <1>2, <2>2, <2>3, AheadKept DEF RoundKept
  <2>4. CASE ~RoundKept(n)
    BY <1>1, <1>2, <1>4, <2>2, <2>4, RoundSteps, CompareCovers, ChildrenCover,
       FetchCovers, IngestCovers
  <2> QED
    BY <2>3, <2>4
<1> QED
  BY <1>3, <1>4

-----------------------------------------------------------------------------
(* Rows are somebody's *)

LEMMA InventedNext ==
    ASSUME TypeInv, TypeInv', NothingInvented, [Next]_vars
    PROVE  NothingInvented'
<1> USE DEF NothingInvented
<1>1. written \subseteq written'
  BY ZenonT(60) DEF Next, vars, node, Store, StoreFold, StoreDropped, RoundStep, Roots, Compare, AskChildren,
     Fetch, IngestNothing, IngestCommit, IngestFold, RoundDone, Fails, Unreachable,
     RoundFails, Restart
<1> SUFFICES ASSUME NEW n \in Nodes
             PROVE  RowsIn(kv'[n]) \subseteq written' /\ batch'[n] \subseteq written'
  BY DEF RowsIn
<1>2. RowsIn(kv'[n]) \subseteq written'
  <2>1. CASE kv'[n] = kv[n]
    BY <1>1, <2>1
  <2>2. ASSUME NEW i \in Items, Store(n, i) PROVE RowsIn(kv'[n]) \subseteq written'
    <3>1. /\ written' = written \union {i}
          /\ \A k \in Keys : kv'[n][k] = IF k = i[1] THEN i[2] ELSE kv[n][k]
      BY <2>2 DEF Store, TypeInv, TypeOK
    <3>2. ASSUME NEW j \in RowsIn(kv'[n]) PROVE j = i \/ j \in RowsIn(kv[n])
      BY <3>1, ItemsArePairs DEF RowsIn
    <3> QED
      BY <3>1, <3>2
  <2>3. ASSUME NEW i \in batch[n], IngestCommit(n, i) PROVE RowsIn(kv'[n]) \subseteq written'
    <3>1. /\ i \in Items /\ i \in written
          /\ \A k \in Keys : kv'[n][k] = IF k = i[1] THEN i[2] ELSE kv[n][k]
      BY <2>3 DEF IngestCommit, TypeInv, TypeOK
    <3>2. ASSUME NEW j \in RowsIn(kv'[n]) PROVE j = i \/ j \in RowsIn(kv[n])
      BY <3>1, ItemsArePairs DEF RowsIn
    <3> QED
      BY <1>1, <3>1, <3>2
  <2>4. CASE StoreFold(n) \/ StoreDropped(n) \/ IngestFold(n) \/ Restart(n)
    BY <1>1, <2>4 DEF StoreFold, StoreDropped, IngestFold, Restart
  <2> QED
    BY <2>1, <2>2, <2>3, <2>4, LoudSteps DEF Quiet
<1>3. batch'[n] \subseteq written'
  <2>1. CASE batch'[n] \subseteq batch[n]
    BY <1>1, <2>1
  <2>2. ASSUME NEW c, Fetch(n, c) PROVE batch'[n] \subseteq written'
    <3>1. batch'[n] = Below(RowsIn(kv[Peer(n)]), c) /\ Peer(n) \in Nodes
      BY <2>2, PeerTyped DEF Fetch, Visits, TypeInv, TypeOK
    <3> QED
      BY <1>1, <3>1 DEF Below
  <2>3. ASSUME ~\E c \in work[n] : Fetch(n, c) PROVE batch'[n] \subseteq batch[n]
    <3>1. CASE RoundKept(n)
      BY <3>1 DEF RoundKept, TypeInv, Idle
    <3>2. CASE ~RoundKept(n)
      <4>1. CASE Roots(n) \/ \E r \in reply[n] : Compare(n, r)
        BY <4>1 DEF Roots, Compare
      <4>2. CASE \E c \in work[n] : AskChildren(n, c)
        BY <4>2 DEF AskChildren
      <4>3. CASE \E i \in batch[n] : IngestNothing(n, i) \/ IngestCommit(n, i)
        BY <4>3 DEF IngestNothing, IngestCommit, TypeInv, TypeOK
      <4> QED
        BY <2>3, <3>2, <4>1, <4>2, <4>3, RoundSteps
    <3> QED
      BY <3>1, <3>2
  <2> QED
    BY <2>1, <2>2, <2>3
<1> QED
  BY <1>2, <1>3

-----------------------------------------------------------------------------
(* The theorems *)

LEMMA MeshInit == Init => MeshInv
<1> SUFFICES ASSUME Init PROVE MeshInv
  OBVIOUS
<1>1. RoundInv
  BY DEF Init, RoundInv, BaseKept, RoundCovers
<1>2. \A n \in Nodes : RowsIn(kv[n]) = {} /\ batch[n] = {}
  BY ItemsArePairs DEF Init, RowsIn, NoPayload
<1> QED
  BY <1>1, <1>2, TypeInit, FoldInit DEF MeshInv, NothingInvented

LEMMA MeshNext ==
    ASSUME ExclusiveKeys
    PROVE  MeshInv /\ [Next]_vars => MeshInv'
<1> SUFFICES ASSUME MeshInv, [Next]_vars PROVE MeshInv'
  OBVIOUS
<1>1. TypeInv' /\ FoldInv'
  BY TypeNext, FoldNext DEF MeshInv
<1>2. BaseKept' /\ RoundCovers' /\ NothingInvented'
  BY <1>1, BaseNext, CoversNext, InventedNext DEF MeshInv, RoundInv
<1> QED
  BY <1>1, <1>2 DEF MeshInv, RoundInv

LEMMA MeshInvariant ==
    ASSUME ExclusiveKeys
    PROVE  Spec => []MeshInv
BY MeshInit, MeshNext, PTL DEF Spec

\* At every place of a round, what the peer had when it began and this node
\* does not have is under a cell still to be compared or visited, or fetched
\* (sync.rs:112-167).
THEOREM CoversAlways ==
    ASSUME ExclusiveKeys
    PROVE  Spec => []RoundCovers
<1>1. MeshInv => RoundCovers
  BY DEF MeshInv, RoundInv
<1> QED
  BY <1>1, MeshInvariant, PTL

\* So a round that ends leaves this node with everything the peer had folded
\* in when it began, or with winning rows of the same keys.
THEOREM RoundsComplete ==
    ASSUME ExclusiveKeys
    PROVE  Spec => RoundComplete
<1> DEFINE Brought ==
        \A n \in Nodes : RoundDone(n) => \A i \in base[n] : kv[n][i[1]] >= i[2]
<1>1. MeshInv => Brought
  BY DEF MeshInv, RoundInv, RoundCovers, Ahead, AsGood, RoundDone
<1>2. MeshInv /\ [Next]_vars => [Brought]_vars
  BY <1>1
<1>3. Spec => [][Brought]_vars
  BY <1>2, MeshInvariant, PTL DEF Spec
<1> QED
  BY <1>3 DEF RoundComplete

\* The rows of the mesh evolve as MeshRows says: a row only ever moves up, and
\* only to a payload a client has stored (lib.rs:446-497, sync.rs:137-163).
THEOREM ImplementsMesh ==
    ASSUME ExclusiveKeys
    PROVE  Spec => MeshSpec
<1>1. Init => Mesh!Init
  BY DEF Init, Mesh!Init, NoPayload, Mesh!NoPayload
<1>2. MeshInv /\ [Next]_vars => [Mesh!Next]_Mesh!meshVars
  <2> SUFFICES ASSUME MeshInv, [Next]_vars PROVE Mesh!Next \/ UNCHANGED <<kv, written>>
    BY DEF Mesh!meshVars
  <2>1. ASSUME NEW n \in Nodes, NEW i \in Items, Store(n, i) PROVE Mesh!Store(n, i)
    BY <2>1 DEF Store, Mesh!Store, NoPayload, Mesh!NoPayload
  <2>2. ASSUME NEW n \in Nodes, NEW i \in batch[n], IngestCommit(n, i)
        PROVE  i \in Items /\ Mesh!Adopt(n, i)
    BY <2>2 DEF IngestCommit, Wins, Mesh!Adopt, MeshInv, NothingInvented, TypeInv, TypeOK
  <2>3. CASE UNCHANGED vars
    BY <2>3 DEF vars, node
  <2>4. CASE Next
    BY <2>1, <2>2, <2>4 DEF Next, StoreFold, StoreDropped, RoundStep, Roots, Compare, AskChildren,
       Fetch, IngestNothing, IngestFold, RoundDone, Fails, Unreachable, RoundFails,
       Restart, node, Items, Mesh!Next, Mesh!Items
  <2> QED
    BY <2>3, <2>4
<1> QED
  BY <1>1, <1>2, MeshInvariant, PTL DEF Spec, MeshSpec, Mesh!Spec
=============================================================================
