-------------------------- MODULE MCMerkleForest --------------------------
(* MerkleForest on small instances. *)
EXTENDS MerkleForest

CONSTANTS k1, k2, k3

\* k1 and k2 share an octant of the top level and part in the next; k3 is in
\* another epoch, under the same digits as k1.
MCKeyEpoch == [k \in Keys |-> IF k = k3 THEN 1 ELSE 0]
MCPath == [k \in Keys |-> IF k = k2 THEN <<1, 7>> ELSE <<1, 4>>]
=============================================================================
