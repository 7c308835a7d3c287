----------------------------- MODULE SealedDisk -----------------------------
(***************************************************************************)
(* What the store promises about the two things it keeps on disk, the data *)
(* rows and one optional seal record per epoch: a record always describes  *)
(* its epoch's rows exactly, so that `open` may trust it after any crash.  *)
(* SealedStore, where writers, the sealer and crashes interleave, is shown *)
(* to implement this specification.                                        *)
(***************************************************************************)
EXTENDS Rows

CONSTANT LeafDepths     \* the Merkle leaf depths of the builds that open the store

VARIABLES kv, record

diskVars == <<kv, record>>

Init ==
    /\ kv = [k \in Keys |-> NoPayload]
    /\ record = [e \in Epochs |-> NoRecord]

\* Rows change only in epochs that have no record.
Write ==
    /\ kv' \in [Keys -> Payloads \union {NoPayload}]
    /\ \A k \in Keys : kv'[k] # kv[k] => record[KeyEpoch[k]] = NoRecord
    /\ UNCHANGED record

Unseal(e) ==
    /\ record' = [record EXCEPT ![e] = NoRecord]
    /\ UNCHANGED kv

\* A new record holds the epoch's rows as they are on disk at that moment.
Seal(e, d) ==
    /\ Within(RowsIn(kv), e) # {}
    /\ record' = [record EXCEPT ![e] = RecordAt(d, Within(RowsIn(kv), e))]
    /\ UNCHANGED kv

Next ==
    \/ Write
    \/ \E e \in Epochs : Unseal(e)
    \/ \E e \in Epochs, d \in LeafDepths : Seal(e, d)

Spec == Init /\ [][Next]_diskVars
=============================================================================
