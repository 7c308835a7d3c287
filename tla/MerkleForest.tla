---------------------------- MODULE MerkleForest ----------------------------
(***************************************************************************)
(* MerkleForest (crates/interstellar-index/src/merkle.rs): an octree of    *)
(* XOR accumulators per epoch, one per cell and level, its seal records    *)
(* and the comparison of two forests.                                      *)
(*                                                                         *)
(* Replicas are forests that live side by side.  folded and snapshot are   *)
(* what each forest and each record ought to stand for; no step reads      *)
(* them.                                                                   *)
(***************************************************************************)
EXTENDS Cells

CONSTANTS
    Replicas,   \* the forests compared
    LeafLevels, \* the leaf levels a forest may be made with
    MaxCount    \* bound on an epoch's item count

ASSUME LevelsAssumption == LeafLevels \subseteq 1..Levels
ASSUME CountAssumption == MaxCount \in Nat

VARIABLES
    leaf,       \* leaf_depth_bits / 3 of each forest
    trees,      \* each forest's EpochTrees, by epoch
    record,     \* each forest's seal records, by epoch
    folded,     \* the items folded in and not out again
    snapshot    \* the items each record stands for

vars == <<leaf, trees, record, folded, snapshot>>

NoTree == [count |-> 0, hash |-> <<>>]
EmptyRecord == [leaf |-> 0, count |-> 0, hash |-> <<>>]

EpochCells(e, l) == {c \in CellsTo(l) : c[1] = e}
Leaves(e, l) == {c \in CellsAt(l) : c[1] = e}
NewTree(e, l) == [count |-> 0, hash |-> [c \in EpochCells(e, l) |-> {}]]

Present(r) == {e \in Epochs : trees[r][e] # NoTree}

-----------------------------------------------------------------------------
(* Slips: operations below with one plausible mistake in them. *)

\* The trees outlive a change of the leaf depth.
NewKeepsTrees(r, l) ==
    /\ leaf' = [leaf EXCEPT ![r] = l]
    /\ UNCHANGED <<trees, record, folded, snapshot>>

\* Upper levels are left to be computed on demand.
ToggleLeaf(tree, leafCell, digests) ==
    [tree EXCEPT !.hash =
        [c \in DOMAIN @ |-> IF c = leafCell THEN Xor(@[c], digests) ELSE @[c]]]

\* The saved record keeps a fresh count.
SerializeUncounted(r, e) ==
    LET leaves == {c \in Leaves(e, leaf[r]) : trees[r][e].hash[c] # {}}
    IN IF leaves = {} THEN EmptyRecord
       ELSE [leaf |-> leaf[r], count |-> 0,
             hash |-> [c \in leaves |-> trees[r][e].hash[c]]]

-----------------------------------------------------------------------------
(* Trees *)

\* XOR digests into every cell from the root to leafCell.
Toggle(tree, leafCell, digests) ==
    [tree EXCEPT !.hash =
        [c \in DOMAIN @ |->
            IF SubSeq(leafCell[2], 1, Level(c)) = c[2]
            THEN Xor(@[c], digests) ELSE @[c]]]

\* 0 for an absent tree, and for a cell nothing was ever folded into.
NodeHash(r, c) ==
    IF trees[r][c[1]] = NoTree THEN {} ELSE trees[r][c[1]].hash[c]

EpochRoots(r) == {e \in Present(r) : trees[r][e].hash[Root(e)] # {}}

\* A slip: the last octant is left out.
ChildHashesOfSeven(r, c) ==
    {d \in Children(c) : NodeHash(r, d) # {} /\ d[2][Level(d)] < 7}

ChildHashes(r, c) == {d \in Children(c) : NodeHash(r, d) # {}}

\* The leaf hashes of an epoch, without its upper levels.
Serialize(r, e) ==
    LET leaves == {c \in Leaves(e, leaf[r]) : trees[r][e].hash[c] # {}}
    IN IF leaves = {} THEN EmptyRecord
       ELSE [leaf |-> leaf[r], count |-> trees[r][e].count,
             hash |-> [c \in leaves |-> trees[r][e].hash[c]]]

\* Toggling each leaf hash in turn: every cell gets the XOR of its leaves.
Loadable(r, e) ==
    /\ trees[r][e] = NoTree
    /\ record[r][e] # EmptyRecord /\ record[r][e].leaf = leaf[r]
Rebuilt(r, e) ==
    LET rec == record[r][e]
        In(c) == {d \in DOMAIN rec.hash : SubSeq(d[2], 1, Level(c)) = c[2]}
        Odd(c) == {i \in Items :
                     Cardinality({d \in In(c) : i \in rec.hash[d]}) % 2 = 1}
    IN [count |-> rec.count,
        hash |-> [c \in EpochCells(e, leaf[r]) |-> Odd(c)]]

-----------------------------------------------------------------------------
(* Comparing two forests *)

Shallower(r, s) == IF leaf[r] < leaf[s] THEN leaf[r] ELSE leaf[s]

\* A slip: cells the other side lacks are not compared.
DifferOneSided(r, s, c) == NodeHash(s, c) # {} /\ NodeHash(r, c) # NodeHash(s, c)

Differ(r, s, c) == NodeHash(r, c) # NodeHash(s, c)

\* The cells of each level that the descent from the roots reaches.
Reached(r, s) ==
    LET reach[l \in 0..Shallower(r, s)] ==
          IF l = 0
          THEN {Root(e) : e \in {f \in Present(r) \union Present(s) :
                                    Differ(r, s, Root(f))}}
          ELSE {d \in UNION {Children(c) : c \in reach[l - 1]} : Differ(r, s, d)}
    IN reach[Shallower(r, s)]

\* The cells sync_once fetches for r from s, if neither moves: it asks s for
\* roots and children, and goes down where s has something else than r.
Fetched(r, s) ==
    LET reach[l \in 0..Shallower(r, s)] ==
          IF l = 0
          THEN {Root(e) : e \in {f \in EpochRoots(s) : Differ(r, s, Root(f))}}
          ELSE {d \in UNION {ChildHashes(s, c) : c \in reach[l - 1]} :
                    Differ(r, s, d)}
    IN reach[Shallower(r, s)]

-----------------------------------------------------------------------------
(* Operations *)

Init ==
    /\ leaf \in [Replicas -> LeafLevels]
    /\ trees = [r \in Replicas |-> [e \in Epochs |-> NoTree]]
    /\ record = [r \in Replicas |-> [e \in Epochs |-> EmptyRecord]]
    /\ folded = [r \in Replicas |-> {}]
    /\ snapshot = [r \in Replicas |-> [e \in Epochs |-> {}]]

LeafOf(r, i) == CellAt(i[1], leaf[r])

Insert(r, i) ==
    LET e == EpochOf(i)
        tree == IF trees[r][e] = NoTree THEN NewTree(e, leaf[r]) ELSE trees[r][e]
    IN /\ tree.count < MaxCount
       /\ trees' = [trees EXCEPT ![r][e] =
                      [Toggle(tree, LeafOf(r, i), {i}) EXCEPT !.count = @ + 1]]
       /\ folded' = [folded EXCEPT ![r] = Xor(@, {i})]
       /\ UNCHANGED <<leaf, record, snapshot>>

\* "Must be called with exactly the key/payload that was inserted."
Remove(r, i) ==
    LET e == EpochOf(i)
        tree == trees[r][e]
    IN /\ i \in folded[r] /\ tree # NoTree
       /\ trees' = [trees EXCEPT ![r][e] =
                      [Toggle(tree, LeafOf(r, i), {i}) EXCEPT
                          !.count = IF @ > 0 THEN @ - 1 ELSE 0]]
       /\ folded' = [folded EXCEPT ![r] = Xor(@, {i})]
       /\ UNCHANGED <<leaf, record, snapshot>>

\* The store keeps what serialize_epoch returns, if it returns anything.
Seal(r, e) ==
    /\ e \in Present(r) /\ Serialize(r, e) # EmptyRecord
    /\ record' = [record EXCEPT ![r][e] = Serialize(r, e)]
    /\ snapshot' = [snapshot EXCEPT ![r][e] = Within(folded[r], e)]
    /\ UNCHANGED <<leaf, trees, folded>>

\* A new forest, perhaps of another leaf depth.
New(r, l) ==
    /\ leaf' = [leaf EXCEPT ![r] = l]
    /\ trees' = [trees EXCEPT ![r] = [e \in Epochs |-> NoTree]]
    /\ folded' = [folded EXCEPT ![r] = {}]
    /\ UNCHANGED <<record, snapshot>>

LoadSealedEpoch(r, e) ==
    /\ Loadable(r, e)
    /\ trees' = [trees EXCEPT ![r][e] = Rebuilt(r, e)]
    /\ folded' = [folded EXCEPT ![r] = @ \union snapshot[r][e]]
    /\ UNCHANGED <<leaf, record, snapshot>>

Next ==
    \E r \in Replicas :
        \/ \E i \in Items : Insert(r, i) \/ Remove(r, i)
        \/ \E e \in Epochs : Seal(r, e) \/ LoadSealedEpoch(r, e)
        \/ \E l \in LeafLevels : New(r, l)

Spec == Init /\ [][Next]_vars

-----------------------------------------------------------------------------
(* Properties *)

Trees(e, l) ==
    {NoTree} \union [count : 0..MaxCount, hash : [EpochCells(e, l) -> SUBSET Items]]

TypeOK ==
    /\ leaf \in [Replicas -> LeafLevels]
    /\ \A r \in Replicas, e \in Epochs : trees[r][e] \in Trees(e, leaf[r])
    /\ folded \in [Replicas -> SUBSET Items]
    /\ snapshot \in [Replicas -> [Epochs -> SUBSET Items]]

\* "A node's hash is structure-independent": at every level a forest has, the
\* hash of a cell is that of the items in the cell, whether they were inserted
\* one by one, removed, or came back from a seal record.
HashExact ==
    \A r \in Replicas : \A c \in CellsTo(leaf[r]) :
        NodeHash(r, c) = Below(folded[r], c)

\* diff_forests returns every cell in which the two forests hold different
\* items, at the shallower leaf depth, and no other.
DiffExact ==
    \A r, s \in Replicas :
        Reached(r, s) = {c \in CellsAt(Shallower(r, s)) :
                            Below(folded[r], c) # Below(folded[s], c)}

\* A pull round between forests at rest fetches exactly the cells in which the
\* peer has items and they are not the items here.
FetchExact ==
    \A r, s \in Replicas :
        Fetched(r, s) = {c \in CellsAt(Shallower(r, s)) :
                            /\ Below(folded[s], c) # {}
                            /\ Below(folded[r], c) # Below(folded[s], c)}

\* An epoch's count never falls below the items folded in, so a forest that
\* says it is empty is; across removal, sealing and loading.
CountCovers ==
    \A r \in Replicas, e \in Epochs :
        trees[r][e].count >= Cardinality(Within(folded[r], e))
=============================================================================
