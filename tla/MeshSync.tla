------------------------------ MODULE MeshSync ------------------------------
(***************************************************************************)
(* Anti-entropy between nodes (src/src/sync.rs and the peer loop in        *)
(* src/src/bin/server.rs).  Every node with peers runs one loop that pulls *)
(* from them in turn: roots, then children of divergent cells, then the    *)
(* rows of divergent leaves, which it ingests one by one.  A step is one   *)
(* request's answer, one comparison, one commit or one fold; between any   *)
(* two of them clients store rows on either node or go away in the middle  *)
(* of a call, the peer pulls in its turn, and nodes die.                   *)
(*                                                                         *)
(* A node's Merkle forest is the set of items folded in (MerkleForest      *)
(* shows its hashes to be those of that set), and its write path is a      *)
(* commit and a fold (SealedStore has what lies in between).               *)
(***************************************************************************)
EXTENDS Cells

CONSTANTS
    Nodes,
    PeersOf,        \* PEERS of each node: a sequence of nodes; none, no loop
    LeafLevel,      \* MERKLE_LEAF_DEPTH_BITS / 3 of each node's build
    Writes,         \* the <<node, item>> pairs clients store
    ExclusiveKeys   \* no client stores a key its node has or is ingesting

ASSUME MeshAssumption ==
    /\ PeersOf \in [Nodes -> Seq(Nodes)]
    /\ LeafLevel \in [Nodes -> 1..Levels]
    /\ Writes \subseteq Nodes \X Items
    /\ ExclusiveKeys \in BOOLEAN

VARIABLES
    kv,         \* on disk: each node's payload of each key
    forest,     \* the items folded into each node's forest
    trees,      \* the epochs with a tree in it
    storing,    \* the item a client's call has committed and not yet folded
    lost,       \* the items such a call never folded (no step reads it)
    pc,         \* where each node's loop is
    at,         \* the position in PeersOf it is at
    goal,       \* descend_to, as a level
    reply,      \* the peer's hashes left to compare: [cell, hash] records
    work,       \* the divergent cells left to visit
    batch,      \* the fetched rows left to ingest
    taken,      \* the row ingest has committed, and what it replaced
    base,       \* the peer's items at the start of the round (no step reads it)
    written     \* the items clients stored (no step reads it)

node == <<kv, forest, trees, storing, lost, written>>
round == <<goal, reply, work, batch, taken, base>>
vars == <<node, pc, at, round>>

Nothing == [item |-> <<>>, old |-> {}]

Init ==
    /\ kv = [n \in Nodes |-> [k \in Keys |-> NoPayload]]
    /\ forest = [n \in Nodes |-> {}] /\ trees = [n \in Nodes |-> {}]
    /\ storing = [n \in Nodes |-> {}] /\ lost = [n \in Nodes |-> {}]
    /\ pc = [n \in Nodes |-> "next"] /\ at = [n \in Nodes |-> 1]
    /\ goal = [n \in Nodes |-> 1]
    /\ reply = [n \in Nodes |-> {}] /\ work = [n \in Nodes |-> {}]
    /\ batch = [n \in Nodes |-> {}] /\ taken = [n \in Nodes |-> Nothing]
    /\ base = [n \in Nodes |-> {}] /\ written = {}

Peer(n) == PeersOf[n][at[n]]
Hashes(n, cells) ==
    {[cell |-> c, hash |-> Below(forest[n], c)] :
        c \in {d \in cells : Below(forest[n], d) # {}}}

-----------------------------------------------------------------------------
(* Slips: operations below with one plausible mistake in them. *)

\* The loop retries a failed peer until it answers.
TurnNever(n) == at[n]

\* Descend to this node's own leaves.
GoalOwn(n, p) == LeafLevel[n]

\* Only cells this node has nothing in are divergent.
DivergesIfMissing(n, r) == Below(forest[n], r.cell) = {}

\* A row that cannot be committed is passed over.
IngestSwallows(n, i) ==
    /\ pc[n] = "round" /\ i \in batch[n]
    /\ batch' = [batch EXCEPT ![n] = @ \ {i}]
    /\ UNCHANGED <<node, pc, at, goal, reply, work, taken, base>>

\* The superseded row is left in the forest.
FoldOnTop(n) ==
    /\ pc[n] = "fold"
    /\ forest' = [forest EXCEPT ![n] = Xor(@, {taken[n].item})]
    /\ trees' = [trees EXCEPT ![n] = @ \union {EpochOf(taken[n].item)}]
    /\ taken' = [taken EXCEPT ![n] = Nothing]
    /\ pc' = [pc EXCEPT ![n] = "round"]
    /\ UNCHANGED <<kv, storing, lost, written, at, goal, reply, work, batch, base>>

\* The later delivery wins.
WinsAlways(n, i) == kv[n][i[1]] # i[2]

-----------------------------------------------------------------------------
(* A client's store *)

Store(n, i) ==
    /\ <<n, i>> \in Writes /\ storing[n] = {}
    /\ ExclusiveKeys => /\ kv[n][i[1]] = NoPayload
                        /\ pc[n] = "fold" => taken[n].item[1] # i[1]
    /\ kv' = [kv EXCEPT ![n][i[1]] = i[2]]
    /\ storing' = [storing EXCEPT ![n] = {i}]
    /\ written' = written \union {i}
    /\ UNCHANGED <<forest, trees, lost, pc, at, round>>

StoreFold(n) ==
    /\ storing[n] # {}
    /\ forest' = [forest EXCEPT ![n] = Xor(@, storing[n])]
    /\ trees' = [trees EXCEPT ![n] = @ \union {EpochOf(i) : i \in storing[n]}]
    /\ storing' = [storing EXCEPT ![n] = {}]
    /\ UNCHANGED <<kv, lost, written, pc, at, round>>

\* The server drops the call's future at the commit: the row is on disk, and
\* in no forest until the node opens its store again.
StoreDropped(n) ==
    /\ storing[n] # {}
    /\ storing' = [storing EXCEPT ![n] = {}]
    /\ lost' = [lost EXCEPT ![n] = @ \union storing[n]]
    /\ UNCHANGED <<kv, forest, trees, written, pc, at, round>>

-----------------------------------------------------------------------------
(* A round *)

\* The loop goes on to its next peer.
Turn(n) == (at[n] % Len(PeersOf[n])) + 1
Turned(n) ==
    /\ pc' = [pc EXCEPT ![n] = "next"]
    /\ at' = [at EXCEPT ![n] = Turn(n)]
    /\ reply' = [reply EXCEPT ![n] = {}]
    /\ work' = [work EXCEPT ![n] = {}]
    /\ batch' = [batch EXCEPT ![n] = {}]
    /\ base' = [base EXCEPT ![n] = {}]

Unreachable(n) ==
    /\ pc[n] = "next" /\ PeersOf[n] # <<>> /\ Turned(n)
    /\ UNCHANGED <<node, goal, taken>>

\* The shallower of the two leaf levels.
Goal(n, p) == IF LeafLevel[p] < LeafLevel[n] THEN LeafLevel[p] ELSE LeafLevel[n]

Roots(n) ==
    /\ pc[n] = "next" /\ PeersOf[n] # <<>>
    /\ pc' = [pc EXCEPT ![n] = "round"]
    /\ goal' = [goal EXCEPT ![n] = Goal(n, Peer(n))]
    /\ reply' = [reply EXCEPT ![n] = Hashes(Peer(n), {Root(e) : e \in Epochs})]
    /\ base' = [base EXCEPT ![n] = forest[Peer(n)]]
    /\ UNCHANGED <<node, at, work, batch, taken>>

\* A cell goes on the list if the peer's hash is not 0 and not this node's.
Diverges(n, r) == r.hash # Below(forest[n], r.cell)
Compare(n, r) ==
    /\ pc[n] = "round" /\ r \in reply[n]
    /\ reply' = [reply EXCEPT ![n] = @ \ {r}]
    /\ work' = [work EXCEPT ![n] = IF Diverges(n, r) THEN @ \union {r.cell} ELSE @]
    /\ UNCHANGED <<node, pc, at, goal, batch, taken, base>>

\* The loop takes a cell from the list when the last one is dealt with.
Visits(n, c) ==
    /\ pc[n] = "round" /\ reply[n] = {} /\ batch[n] = {}
    /\ c \in work[n]
    /\ work' = [work EXCEPT ![n] = @ \ {c}]

AskChildren(n, c) ==
    /\ Visits(n, c) /\ Level(c) # goal[n]
    /\ reply' = [reply EXCEPT ![n] = Hashes(Peer(n), Children(c))]
    /\ UNCHANGED <<node, pc, at, goal, batch, taken, base>>

\* The peer reads the rows of the cell in one transaction and streams them.
Fetch(n, c) ==
    /\ Visits(n, c) /\ Level(c) = goal[n]
    /\ batch' = [batch EXCEPT ![n] = Below(RowsIn(kv[Peer(n)]), c)]
    /\ UNCHANGED <<node, pc, at, goal, reply, taken, base>>

\* The larger item digest wins.
Wins(n, i) == kv[n][i[1]] < i[2]

IngestNothing(n, i) ==
    /\ pc[n] = "round" /\ i \in batch[n] /\ ~Wins(n, i)
    /\ batch' = [batch EXCEPT ![n] = @ \ {i}]
    /\ UNCHANGED <<node, pc, at, goal, reply, work, taken, base>>

IngestCommit(n, i) ==
    /\ pc[n] = "round" /\ i \in batch[n] /\ Wins(n, i)
    /\ ExclusiveKeys => i[1] \notin {j[1] : j \in storing[n]}
    /\ kv' = [kv EXCEPT ![n][i[1]] = i[2]]
    /\ batch' = [batch EXCEPT ![n] = @ \ {i}]
    /\ taken' = [taken EXCEPT ![n] =
                   [item |-> i, old |-> {j \in RowsIn(kv[n]) : j[1] = i[1]}]]
    /\ pc' = [pc EXCEPT ![n] = "fold"]
    /\ UNCHANGED <<forest, trees, storing, lost, written, at, goal, reply, work, base>>

IngestFold(n) ==
    LET superseded == {j \in taken[n].old : EpochOf(j) \in trees[n]}
    IN /\ pc[n] = "fold"
       /\ forest' = [forest EXCEPT ![n] = Xor(Xor(@, superseded), {taken[n].item})]
       /\ trees' = [trees EXCEPT ![n] = @ \union {EpochOf(taken[n].item)}]
       /\ taken' = [taken EXCEPT ![n] = Nothing]
       /\ pc' = [pc EXCEPT ![n] = "round"]
       /\ UNCHANGED <<kv, storing, lost, written, at, goal, reply, work, batch, base>>

RoundDone(n) ==
    /\ pc[n] = "round" /\ reply[n] = {} /\ work[n] = {} /\ batch[n] = {}
    /\ Turned(n)
    /\ UNCHANGED <<node, goal, taken>>

\* A request or a commit fails: what is left of the round is dropped.
RoundFails(n) ==
    /\ pc[n] = "round" /\ Turned(n)
    /\ UNCHANGED <<node, goal, taken>>

-----------------------------------------------------------------------------
\* A node dies and opens its store again.
Restart(n) ==
    /\ forest' = [forest EXCEPT ![n] = RowsIn(kv[n])]
    /\ trees' = [trees EXCEPT ![n] = EpochsIn(kv[n])]
    /\ storing' = [storing EXCEPT ![n] = {}] /\ lost' = [lost EXCEPT ![n] = {}]
    /\ pc' = [pc EXCEPT ![n] = "next"] /\ at' = [at EXCEPT ![n] = 1]
    /\ reply' = [reply EXCEPT ![n] = {}]
    /\ work' = [work EXCEPT ![n] = {}]
    /\ batch' = [batch EXCEPT ![n] = {}]
    /\ taken' = [taken EXCEPT ![n] = Nothing]
    /\ base' = [base EXCEPT ![n] = {}]
    /\ UNCHANGED <<kv, written, goal>>

RoundStep(n) ==
    \/ Roots(n)
    \/ \E r \in reply[n] : Compare(n, r)
    \/ \E c \in work[n] : AskChildren(n, c) \/ Fetch(n, c)
    \/ \E i \in batch[n] : IngestNothing(n, i) \/ IngestCommit(n, i)
    \/ IngestFold(n)
    \/ RoundDone(n)

Fails(n) == Unreachable(n) \/ RoundFails(n)

Next ==
    \E n \in Nodes :
        \/ \E i \in Items : Store(n, i)
        \/ StoreFold(n) \/ StoreDropped(n)
        \/ RoundStep(n) \/ Fails(n) \/ Restart(n)

Spec == Init /\ [][Next]_vars

-----------------------------------------------------------------------------
(* Properties *)

CellsBelow(l) == CellsTo(l) \union {Root(e) : e \in Epochs}

\* The type of every variable.  The peers' hashes are of cells that exist at
\* both leaf depths, which is what node_hash and the children request demand.
TypeOK ==
    /\ kv \in [Nodes -> [Keys -> Payloads \union {NoPayload}]]
    /\ forest \in [Nodes -> SUBSET Items] /\ trees \in [Nodes -> SUBSET Epochs]
    /\ storing \in [Nodes -> SUBSET Items] /\ lost \in [Nodes -> SUBSET Items]
    /\ pc \in [Nodes -> {"next", "round", "fold"}]
    /\ at \in [Nodes -> Nat] /\ goal \in [Nodes -> 1..Levels]
    /\ reply \in [Nodes -> SUBSET [cell : CellsTo(Levels), hash : SUBSET Items]]
    /\ work \in [Nodes -> SUBSET CellsTo(Levels)]
    /\ batch \in [Nodes -> SUBSET Items] /\ base \in [Nodes -> SUBSET Items]
    /\ taken \in [Nodes -> [item : Items \union {<<>>}, old : SUBSET Items]]
    /\ \A n \in Nodes :
          /\ PeersOf[n] # <<>> => at[n] \in DOMAIN PeersOf[n]
          /\ goal[n] <= LeafLevel[n]
          /\ pc[n] # "next" =>
                PeersOf[n] # <<>> /\ goal[n] <= LeafLevel[Peer(n)]
          /\ work[n] \subseteq CellsTo(goal[n])
          /\ \A r \in reply[n] : r.cell \in CellsTo(goal[n])
          /\ IF pc[n] = "fold" THEN taken[n].item \in Items ELSE taken[n] = Nothing
    /\ written \subseteq Items

\* "One pull round: fetch everything the peer has that this store lacks": a
\* round that ends without an error leaves this node, for every item the peer
\* had folded in when it began, with that payload or a winning one; though the
\* peer and this node went on changing between its requests.
RoundComplete ==
    [][\A n \in Nodes :
          RoundDone(n) => \A i \in base[n] : kv[n][i[1]] >= i[2]]_vars

\* Why: what the round has yet to bring in is under a cell still to be
\* compared or visited, or in the batch.
AsGood(items, i) == \E j \in items : j[1] = i[1] /\ j[2] >= i[2]
Ahead(n, i) ==
    \/ kv[n][i[1]] >= i[2]
    \/ AsGood(batch[n], i)
    \/ \E c \in work[n] : i \in Below({i}, c)
    \/ \E r \in reply[n] : i \in Below({i}, r.cell) /\ AsGood(r.hash, i)
RoundCovers ==
    \A n \in Nodes : pc[n] # "next" => \A i \in base[n] : Ahead(n, i)

\* The rows of the mesh evolve as MeshRows says: nothing is invented, and a
\* row is only ever replaced by a winning one.
Mesh == INSTANCE MeshRows
MeshSpec == Mesh!Spec
=============================================================================
