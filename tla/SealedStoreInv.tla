--------------------------- MODULE SealedStoreInv ---------------------------
(***************************************************************************)
(* The inductive invariants behind the theorems of SealedStoreProofs.      *)
(* SealInv holds whatever the callers write, as long as every build that   *)
(* opens the store has the same leaf depth; RowInv needs, besides,         *)
(* callers with ExclusiveKeys, and EventInv needs both.                    *)
(***************************************************************************)
EXTENDS SealedStore

OneDepth == \A d1, d2 \in LeafDepths : d1 = d2

PreCommit == {"begin", "wait", "delete", "deleted"}
Active == {"begin", "wait", "delete", "deleted", "fold", "publish", "end"}

\* A writer marks all its epochs before it commits, and keeps them until its
\* fold is done.
MarksHeld(w) ==
    /\ pc[w] = "idle" => marked[w] = {} /\ rows[w] = <<>>
    /\ pc[w] \in PreCommit => /\ todo[w] \union marked[w] = EpochsOf(rows[w])
                              /\ todo[w] \intersect marked[w] = {}
    /\ pc[w] \in {"fold", "publish"} => marked[w] = EpochsOf(rows[w])
    /\ \A i \in old[w] : i[1] \in KeysOf(rows[w])

\* seal_io is held exactly where the code holds its guard.
IoHeld ==
    /\ \A w \in Writers : pc[w] \in {"delete", "deleted"} <=> io = w
    /\ spc \in {"check", "marked", "persist"} <=> io = Sealer

\* A record on disk is known in memory, and a known record keeps writers out.
RecordsKnown == \A e \in Epochs : record[e] # NoRecord => e \in sealed
SealedUnmarked == \A e \in sealed : inflight[e] = 0
DeletedGone ==
    \A w \in Writers, e \in Epochs :
        pc[w] = "deleted" /\ First(e, todo[w]) => record[e] = NoRecord

\* What the sealer is about to persist, over no older record, is the tree.
SnapshotFresh ==
    \A e \in Epochs : First(e, cands) =>
        /\ spc \in {"marked", "persist"} => e \in sealed /\ record[e] = NoRecord
        /\ spc = "persist" => bytes = ForestOf(e) /\ bytes # {}

\* The accounting of marks: what keeps every count in range.
AccountInv == TypeOK /\ InflightExact /\ \A w \in Writers : MarksHeld(w)

RecordInv ==
    /\ IoHeld
    /\ RecordsKnown /\ SealedUnmarked /\ DeletedGone
    /\ SnapshotFresh
    /\ SealTracksForest

SealInv == AccountInv /\ RecordInv

-----------------------------------------------------------------------------

At(items, k) == {i \in items : i[1] = k}

\* A dropped call that may have left a row of k on disk and not in the forest.
Stranded(k) ==
    \E w \in Writers : pc[w] = "dropped" /\ KeyEpoch[k] \in marked[w]
Unfolded(k) == \E w \in Writers : pc[w] = "fold" /\ k \in KeysOf(rows[w])

KeysApart ==
    \A v, w \in Writers :
        pc[v] \in Active /\ pc[w] \in Active /\ v # w
            => KeysOf(rows[v]) \intersect KeysOf(rows[w]) = {}

\* Until its commit a call's `existing` is what is on disk under its keys.
ReadsCurrent ==
    \A w \in Writers : pc[w] \in PreCommit =>
        \A k \in KeysOf(rows[w]) : At(old[w], k) = At(RowsIn(kv), k)

\* After its commit the forest still has what it is going to remove.
FoldReady ==
    \A w \in Writers :
        /\ pc[w] \in Active => DistinctKeys(rows[w])
        /\ pc[w] \in {"fold", "publish"} => RowSet(rows[w]) \subseteq RowsIn(kv)
        /\ pc[w] = "fold" =>
              \A k \in KeysOf(rows[w]) :
                  Stranded(k) \/ At(forest, k) = At(old[w], k)
        /\ pc[w] = "publish" =>
              \A k \in KeysOf(rows[w]) :
                  Stranded(k) \/ At(forest, k) = At(RowsIn(kv), k)

\* Every other key is folded in as it is on disk.
KeysFolded ==
    \A k \in Keys :
        At(forest, k) = At(RowsIn(kv), k) \/ Unfolded(k) \/ Stranded(k)

ForestInTrees == \A i \in forest : EpochOf(i) \in trees

RowInv ==
    KeysApart /\ ReadsCurrent /\ FoldReady /\ KeysFolded /\ ForestInTrees

-----------------------------------------------------------------------------

\* What a call is going to commit outranks what is on disk under its keys, and
\* a row it supersedes is older than what it has committed.
Outranking ==
    /\ \A w \in Writers : pc[w] \in PreCommit =>
          \A i \in RowSet(rows[w]) : kv[i[1]] < i[2]
    /\ \A w \in Writers : pc[w] = "fold" =>
          \A i \in old[w] : i[2] < kv[i[1]]

\* No row in the forest outranks the one on disk, and where a fold is still to
\* come they are all older, also those a dropped call has left there.
ForestOlder ==
    \A i \in forest : /\ i[2] <= kv[i[1]]
                      /\ Unfolded(i[1]) => i[2] < kv[i[1]]

PublishedFolded ==
    \A w \in Writers : pc[w] = "publish" => RowSet(rows[w]) \subseteq forest

EventInv == Outranking /\ ForestOlder /\ PublishedFolded
=============================================================================
