----------------------------- MODULE MeshSyncInv -----------------------------
(***************************************************************************)
(* The inductive invariant behind the theorems of MeshSyncProofs, for      *)
(* clients with ExclusiveKeys.                                             *)
(***************************************************************************)
EXTENDS MeshSync

\* Between rounds a loop holds nothing of one.
Idle ==
    \A n \in Nodes : pc[n] = "next" => reply[n] = {} /\ work[n] = {} /\ batch[n] = {}

TypeInv == TypeOK /\ Idle

At(items, k) == {i \in items : i[1] = k}
Storing(n, k) == \E i \in storing[n] : i[1] = k
Lost(n, k) == \E i \in lost[n] : i[1] = k
Taking(n, k) == pc[n] = "fold" /\ taken[n].item[1] = k

\* A row a client's call has committed is on disk and not yet in the forest,
\* which has nothing under its key; no call of that key was dropped before.
StoreReady(n) ==
    /\ \A i, j \in storing[n] : i = j
    /\ \A i \in storing[n] : /\ kv[n][i[1]] = i[2] /\ At(forest[n], i[1]) = {}
                             /\ ~Taking(n, i[1]) /\ ~Lost(n, i[1])

\* A row ingest has committed is on disk, and the forest still has the losing
\* one it replaces; or, after a dropped call, nothing but losing ones.
TakeReady(n) ==
    pc[n] = "fold" =>
        LET i == taken[n].item
        IN /\ kv[n][i[1]] = i[2]
           /\ At(forest[n], i[1]) = taken[n].old \/ Lost(n, i[1])
           /\ \A j \in taken[n].old : j[1] = i[1] /\ j[2] < i[2]
           /\ \A j \in At(forest[n], i[1]) : j[2] < i[2]

\* Under a key of a dropped call the forest may lack the row, and may keep rows
\* that ingest took for superseded; but none that wins over the one on disk.
LostBelow(n, k) == Lost(n, k) /\ \A j \in At(forest[n], k) : j[2] <= kv[n][k]

\* Every other key is folded in as it is on disk.
KeysFolded(n) ==
    \A k \in Keys : \/ At(forest[n], k) = At(RowsIn(kv[n]), k)
                   \/ Storing(n, k) \/ Taking(n, k) \/ LostBelow(n, k)

\* A lost row is on disk, or a winning one.
LostKept(n) == \A i \in lost[n] : kv[n][i[1]] >= i[2]

ForestInTrees(n) == \A i \in forest[n] : EpochOf(i) \in trees[n]

NodeFolded(n) ==
    /\ StoreReady(n) /\ TakeReady(n)
    /\ KeysFolded(n) /\ LostKept(n) /\ ForestInTrees(n)
FoldInv == \A n \in Nodes : NodeFolded(n)

\* During a round the peer's forest keeps something as good as what it had.
BaseKept ==
    \A n \in Nodes : pc[n] # "next" =>
        \A i \in base[n] : AsGood(forest[Peer(n)], i)

RoundInv == BaseKept /\ RoundCovers

\* What nodes have, or have fetched, somebody stored.
NothingInvented ==
    \A n \in Nodes : RowsIn(kv[n]) \subseteq written /\ batch[n] \subseteq written

MeshInv == TypeInv /\ FoldInv /\ RoundInv /\ NothingInvented
=============================================================================
