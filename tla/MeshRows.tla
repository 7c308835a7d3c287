------------------------------ MODULE MeshRows ------------------------------
(***************************************************************************)
(* What a mesh promises of the rows of its nodes ("The data model is a     *)
(* CRDT", docs/MESH.md): a node's row of a key only ever moves up in the   *)
(* order of item digests, and only to a payload somebody stored.           *)
(***************************************************************************)
EXTENDS Rows

CONSTANT Nodes

VARIABLES
    kv,         \* each node's payload of each key
    written     \* the items clients have stored

meshVars == <<kv, written>>

Init ==
    /\ kv = [n \in Nodes |-> [k \in Keys |-> NoPayload]]
    /\ written = {}

\* A client stores a new observation on node n.
Store(n, i) ==
    /\ kv[n][i[1]] = NoPayload
    /\ kv' = [kv EXCEPT ![n][i[1]] = i[2]]
    /\ written' = written \union {i}

\* Node n takes over a row that wins over its own.
Adopt(n, i) ==
    /\ i \in written /\ kv[n][i[1]] < i[2]
    /\ kv' = [kv EXCEPT ![n][i[1]] = i[2]]
    /\ UNCHANGED written

Next == \E n \in Nodes, i \in Items : Store(n, i) \/ Adopt(n, i)

Spec == Init /\ [][Next]_meshVars
=============================================================================
