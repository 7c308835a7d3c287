----------------------------- MODULE MCMeshRows -----------------------------
(* Keys, meshes and workloads of the small instances of MeshSync. *)
EXTENDS Cells

CONSTANTS k1, k2, k3, a, b, c

\* k1 and k2 share the top octant and part below it; k3 is in another epoch.
MCKeyEpoch == [k \in Keys |-> IF k = k3 THEN 1 ELSE 0]
MCPath == [k \in Keys |-> IF k = k2 THEN <<1, 7, 0>> ELSE <<1, 4, 2>>]

\* a pulls from nobody; b from a and c; c from a and b.  b is one level less
\* deep than a and c, and the link from c to a is the broken one.
Source ==
    [n \in {a, b, c} |-> IF n = a THEN <<>> ELSE IF n = b THEN <<a, c>> ELSE <<a, b>>]
ShallowB == [n \in {a, b, c} |-> IF n = b THEN 2 ELSE 3]
FirstOfC == {<<c, 1>>}

\* Conflicting payloads of k1 on b and c, and a row of k2 on a.
MCWrites == {<<b, <<k1, 1>>>>, <<c, <<k1, 2>>>>, <<a, <<k2, 1>>>>}
=============================================================================
