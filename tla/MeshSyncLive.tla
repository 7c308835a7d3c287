---------------------------- MODULE MeshSyncLive ----------------------------
(***************************************************************************)
(* MeshSync with a moment from which clients store nothing, nodes stay up  *)
(* and every link works that is not Broken, to say what the nodes must     *)
(* have in common some time later.                                         *)
(***************************************************************************)
EXTENDS MeshSync

CONSTANT Broken     \* the <<node, position>> links that may go on failing

ASSUME BrokenAssumption ==
    Broken \subseteq {<<n, j>> \in Nodes \X Nat : j \in DOMAIN PeersOf[n]}

VARIABLE calm       \* that moment has come (no step of a node reads it)

liveVars == <<vars, calm>>

CalmDown ==
    /\ ~calm /\ calm' = TRUE
    /\ UNCHANGED vars

GoOn ==
    \E n \in Nodes :
        \/ StoreFold(n) \/ StoreDropped(n) \/ RoundStep(n)
        \/ <<n, at[n]>> \in Broken /\ Fails(n)

LiveNext ==
    \/ ~calm /\ Next /\ UNCHANGED calm
    \/ CalmDown
    \/ calm /\ GoOn /\ UNCHANGED calm

\* Tasks are scheduled fairly, and a request that does not fail is answered.
\* A client's call ends, but which way is up to the client.
Fairness ==
    \A n \in Nodes :
        WF_vars(StoreFold(n) \/ StoreDropped(n)) /\ WF_vars(RoundStep(n))

LiveInit == Init /\ calm = FALSE

LiveSpec == LiveInit /\ [][LiveNext]_liveVars /\ Fairness

-----------------------------------------------------------------------------
\* "Any observation reaching one node reaches every node transitively
\* connected to it", but for those of calls that were dropped at their commit
\* (dropped_call shows what these do to the store): every link that works,
\* whatever happens on the others, leaves its node with a row as good as each
\* of the peer's that is not lost.
Covers(n, m) ==
    \A k \in Keys : kv[n][k] >= kv[m][k] \/ <<k, kv[m][k]>> \in lost[m]
LinksCover ==
    \A n \in Nodes : \A j \in DOMAIN PeersOf[n] :
        <<n, j>> \notin Broken => Covers(n, PeersOf[n][j])
EventualConsistency == <>calm => <>[]LinksCover

\* In the end a round against a peer with the same rows, as deep as this node
\* or not, fetches nothing, if no call was dropped on either since it opened
\* its store: "in steady state a round against an in-sync peer is one Roots
\* RPC".
InSync(n, m) == kv[n] = kv[m] /\ lost[n] = {} /\ lost[m] = {}
RoundsQuiet ==
    <>calm => <>[](\A n \in Nodes :
                     pc[n] # "next" /\ InSync(n, Peer(n)) => work[n] = {})
=============================================================================
