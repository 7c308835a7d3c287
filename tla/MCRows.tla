------------------------------- MODULE MCRows -------------------------------
(* Keys, epochs and workloads of the small instances of the store. *)
EXTENDS Rows

CONSTANTS k1, k2, k3

\* k1 and k2 share an epoch.
MCKeyEpoch == [k \in Keys |-> IF k = k3 THEN 1 ELSE 0]

Row(k, p) == <<k, p>>
NoBatches == {}

\* A row of its own, and a batch across both epochs.
MCBatches == {<<Row(k1, 1)>>, <<Row(k2, 1), Row(k3, 1)>>}

MCLate == {Row(k1, 2), Row(k3, 1)}
OneRow == {<<Row(k1, 1)>>}
TwoRows == {<<Row(k1, 1)>>, <<Row(k2, 1)>>}
HighRow == {<<Row(k1, 2)>>}
BothPayloads == {Row(k1, 1), Row(k1, 2)}
=============================================================================
