-------------------------------- MODULE Rows --------------------------------
(***************************************************************************)
(* The rows an interstellar-db node keeps, at the detail the store tells   *)
(* apart: a key, the macro epoch in its first four bytes, and a payload.   *)
(*                                                                         *)
(* A payload stands for the rank of item_digest(key, payload) among the    *)
(* payloads that key may carry, so "the larger item digest wins" is > on   *)
(* payloads.  0 is the absent payload.  A Merkle node hash is the XOR of   *)
(* the digests below it; digests are taken as independent, so a hash is    *)
(* the set of items folded in an odd number of times and {} is the hash 0. *)
(***************************************************************************)
EXTENDS Integers, Sequences, FiniteSets

CONSTANTS
    Keys,       \* the 20-byte keys in play
    KeyEpoch,   \* the macro epoch of each key (its first four bytes)
    Payloads    \* the payloads, ranked by item digest

ASSUME KeysAssumption == IsFiniteSet(Keys) /\ KeyEpoch \in [Keys -> Nat]
ASSUME PayloadsAssumption == Payloads \subseteq Nat \ {0}

NoPayload == 0
Items == Keys \X Payloads

\* All the epochs a key can fall in.
Epochs == {KeyEpoch[k] : k \in Keys}

EpochOf(item) == KeyEpoch[item[1]]
Within(items, e) == {i \in items : EpochOf(i) = e}

\* The rows of a key-value tree kv, as items.
RowsIn(kv) == {i \in Items : kv[i[1]] = i[2]}
EpochsIn(kv) == {EpochOf(i) : i \in RowsIn(kv)}

\* What a sequence of rows names.
RowSet(rows) == {rows[n] : n \in DOMAIN rows}
KeysOf(rows) == {rows[n][1] : n \in DOMAIN rows}
EpochsOf(rows) == {KeyEpoch[k] : k \in KeysOf(rows)}
DistinctKeys(rows) ==
    \A m, n \in DOMAIN rows : rows[m][1] = rows[n][1] => m = n

\* XOR of two hashes, and of the digests of a sequence of rows.
Xor(A, B) == (A \ B) \union (B \ A)
Folded(rows) ==
    {i \in RowSet(rows) :
        Cardinality({n \in DOMAIN rows : rows[n] = i}) % 2 = 1}

\* A transaction that sets the rows in order leaves the last one set per key.
SetInOrder(rows, before, after) ==
    \A k \in Keys :
        \/ k \notin KeysOf(rows) /\ after[k] = before[k]
        \/ \E n \in DOMAIN rows :
              /\ rows[n] = <<k, after[k]>>
              /\ \A m \in DOMAIN rows : m > n => rows[m][1] # k

\* A seal record on disk: the leaf depth it was built at and its leaf hashes.
NoRecord == [depth |-> 0, items |-> {}]
RecordAt(d, items) == [depth |-> d, items |-> items]
=============================================================================
