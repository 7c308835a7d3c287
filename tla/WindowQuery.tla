---------------------------- MODULE WindowQuery ----------------------------
(***************************************************************************)
(* One QueryWindow call of the gRPC server (query_window in                *)
(* src/src/bin/server.rs, query_window and collect in src/src/store.rs)    *)
(* while clients store rows: the argument check, the plan, the scan of its *)
(* ranges in one read transaction, the sort, and the rows sent one by one  *)
(* through a bounded channel to a client that may leave.                   *)
(***************************************************************************)
EXTENDS QueryPlan

CONSTANTS
    Items,          \* the rows that may be stored: <<key, payload>> pairs
    Batches,        \* the sets of rows callers commit in one transaction
    Queries,        \* the queries asked: records [centre, radius, start, end]
    ChannelSize     \* the rows the channel to the client holds

ASSUME QueriesAssumption ==
    \A q \in Queries :
        /\ q.centre \in Int \X Int \X Int /\ q.radius \in Nat
        /\ {q.start, q.end} \subseteq Nat
ASSUME RowsAssumption ==
    /\ IsFiniteSet(Items) /\ Batches \subseteq SUBSET Items
    /\ \A i \in Items : i[1] \in [epoch : Nat, morton : Nat, offset : Nat]
    /\ <<>> \notin Items      \* it marks an error in the channel
ASSUME ChannelAssumption == ChannelSize \in Nat \ {0}

VARIABLES
    query,      \* the request
    tree,       \* the committed rows
    pc,         \* where the call is: the handler, then its task
    plan,       \* the key ranges of the query
    left,       \* those not scanned yet
    snap,       \* the snapshot the read transaction sees; {} before it begins
    hits,       \* what collect has found, each row with its range
    queue,      \* the rows sorted, not yet sent
    channel,    \* the rows on their way to the client
    received,   \* the rows the client has got
    stream      \* the client's side of the call

vars == <<query, tree, pc, plan, left, snap, hits, queue, channel, received, stream>>

Init ==
    /\ query \in Queries
    /\ tree = {}
    /\ pc = "call"
    /\ plan = {} /\ left = {} /\ snap = {} /\ hits = {}
    /\ queue = <<>> /\ channel = <<>> /\ received = <<>>
    /\ stream = "none"

\* An item of the channel that is an error and no row.
Error == <<>>

-----------------------------------------------------------------------------
(* Slips *)

\* Each range is read in a transaction of its own.
SeenNow == tree

\* Rows are sorted by their keys' bytes.
KeyOrder(g, h) == AtMost(g[2][1], h[2][1])

\* A task whose channel is full does not notice that the client is gone.
SendDoneLast ==
    /\ pc = "send" /\ queue = <<>>
    /\ pc' = "done"
    /\ UNCHANGED <<query, tree, plan, left, snap, hits, queue, channel, received,
                   stream>>

\* Rows are sent without waiting for room.
SendUnbounded ==
    /\ pc = "send" /\ queue # <<>> /\ stream = "open"
    /\ queue' = Tail(queue)
    /\ channel' = Append(channel, Head(queue))
    /\ UNCHANGED <<query, tree, pc, plan, left, snap, hits, received, stream>>

-----------------------------------------------------------------------------
(* Callers that store: a transaction commits its rows as a whole. *)

Over(held, batch) ==
    batch \union {i \in held : \A j \in batch : i[1] # j[1]}
Commit(batch) ==
    /\ tree' = Over(tree, batch)
    /\ UNCHANGED <<query, pc, plan, left, snap, hits, queue, channel, received,
                   stream>>

-----------------------------------------------------------------------------
(* The handler *)

Refuse ==
    /\ pc = "call" /\ query.start > query.end
    /\ pc' = "done" /\ stream' = "refused"
    /\ UNCHANGED <<query, tree, plan, left, snap, hits, queue, channel, received>>

\* The stream is returned at once; a task goes on with the query.
Accept ==
    /\ pc = "call" /\ query.start <= query.end
    /\ pc' = "plan" /\ stream' = "open"
    /\ UNCHANGED <<query, tree, plan, left, snap, hits, queue, channel, received>>

-----------------------------------------------------------------------------
(* Its task *)

Plan ==
    /\ pc = "plan"
    /\ plan' = WindowRanges(query) /\ left' = plan'
    /\ pc' = "begin"
    /\ UNCHANGED <<query, tree, snap, hits, queue, channel, received, stream>>

Begin ==
    /\ pc = "begin"
    /\ snap' = {tree}
    /\ pc' = "scan"
    /\ UNCHANGED <<query, tree, plan, left, hits, queue, channel, received, stream>>

\* The rows a range scan sees are those of the transaction's snapshot.
Seen == UNION snap

\* What a row's key decodes to.
Place == [row \in Items |-> DecodeKey(row[1])]

\* A row of the range that decodes to a point in the window.
Passes(o) == InTime(o, query) /\ InSphere(o, query)
Matches(range, row) == InRange(row[1], range) /\ Passes(Place[row])
Scan(range) ==
    /\ pc = "scan"
    /\ range \in left /\ \A r \in left : AtMost(range.first, r.first)
    /\ left' = left \ {range}
    /\ hits' = hits \union {<<range, row>> : row \in {i \in Seen : Matches(range, i)}}
    /\ UNCHANGED <<query, tree, pc, plan, snap, queue, channel, received, stream>>

\* The sort is stable, and ranges were scanned in the order of their keys.
InOrder(g, h) ==
    LET o == Place[g[2]]
        p == Place[h[2]]
    IN \/ o.secs < p.secs
       \/ o.secs = p.secs /\ o.tick < p.tick
       \/ o.secs = p.secs /\ o.tick = p.tick /\ AtMost(g[2][1], h[2][1])
Sort ==
    /\ pc = "scan" /\ left = {}
    /\ \E sorted \in [1..Cardinality(hits) -> hits] :
          /\ {sorted[n] : n \in DOMAIN sorted} = hits
          /\ \A m, n \in DOMAIN sorted : m < n => InOrder(sorted[m], sorted[n])
          /\ queue' = [n \in DOMAIN sorted |-> sorted[n][2]]
    /\ pc' = "send"
    /\ UNCHANGED <<query, tree, plan, left, snap, hits, channel, received, stream>>

\* The transaction, a scan or the blocking thread fails.
Fails ==
    /\ pc \in {"begin", "scan"}
    /\ pc' = "failed"
    /\ UNCHANGED <<query, tree, plan, left, snap, hits, queue, channel, received,
                   stream>>

\* send waits while the channel is full, and errs once the receiver is gone.
Send ==
    /\ pc = "send" /\ queue # <<>> /\ stream = "open"
    /\ Len(channel) < ChannelSize
    /\ queue' = Tail(queue)
    /\ channel' = Append(channel, Head(queue))
    /\ UNCHANGED <<query, tree, pc, plan, left, snap, hits, received, stream>>

\* The loop ends with the last row, or with the client gone.
SendDone ==
    /\ pc = "send" /\ (queue = <<>> \/ stream # "open")
    /\ pc' = "done"
    /\ UNCHANGED <<query, tree, plan, left, snap, hits, queue, channel, received,
                   stream>>

SendError ==
    /\ pc = "failed"
    /\ channel' = IF stream = "open" THEN Append(channel, Error) ELSE channel
    /\ pc' = "done"
    /\ UNCHANGED <<query, tree, plan, left, snap, hits, queue, received, stream>>

-----------------------------------------------------------------------------
(* The client *)

Receive ==
    /\ stream = "open" /\ channel # <<>>
    /\ channel' = Tail(channel)
    /\ IF Head(channel) = Error
       THEN stream' = "failed" /\ UNCHANGED received
       ELSE received' = Append(received, Head(channel)) /\ UNCHANGED stream
    /\ UNCHANGED <<query, tree, pc, plan, left, snap, hits, queue>>

\* The task has dropped its end of the channel.
EndOfStream ==
    /\ stream = "open" /\ channel = <<>> /\ pc = "done"
    /\ stream' = "ended"
    /\ UNCHANGED <<query, tree, pc, plan, left, snap, hits, queue, channel, received>>

Leave ==
    /\ stream = "open"
    /\ stream' = "left" /\ channel' = <<>>
    /\ UNCHANGED <<query, tree, pc, plan, left, snap, hits, queue, received>>

-----------------------------------------------------------------------------
Task ==
    \/ Refuse \/ Accept \/ Plan \/ Begin
    \/ \E range \in left : Scan(range)
    \/ Sort \/ Fails \/ Send \/ SendDone \/ SendError
Client == Receive \/ EndOfStream

Next ==
    \/ \E batch \in Batches : Commit(batch)
    \/ Task \/ Client \/ Leave

\* Tasks are scheduled fairly, and a client that is there reads its stream.
Spec == Init /\ [][Next]_vars
FairSpec == Spec /\ WF_vars(Task) /\ WF_vars(Client)

-----------------------------------------------------------------------------
(* Properties *)

\* The type of every variable.
TypeOK ==
    /\ query \in Queries
    /\ tree \subseteq Items /\ snap \subseteq SUBSET Items
    /\ pc \in {"call", "plan", "begin", "scan", "failed", "send", "done"}
    /\ left \subseteq plan
    /\ hits \subseteq plan \X Items
    /\ queue \in Seq(Items) /\ received \in Seq(Items)
    /\ channel \in Seq(Items \union {Error}) /\ Len(channel) <= ChannelSize
    /\ stream \in {"none", "refused", "open", "ended", "failed", "left"}

\* What the client gets is the answer of one moment: whatever callers commit
\* between the ranges it is never torn, and a stream that ends well has it all.
Elements(s) == {s[n] : n \in DOMAIN s}
Asked == {i \in Items : \E r \in plan : Matches(r, i)}
Outcome ==
    CASE stream \in {"none", "open"} -> "open"
      [] stream = "ended" -> "complete"
      [] OTHER -> "failed"
Snapshot ==
    INSTANCE SnapshotQuery WITH
        stored <- tree, wanted <- Asked,
        taken <- snap # {}, answer <- Asked \intersect UNION snap,
        shown <- Elements(received), outcome <- Outcome,
        Clearable <- FALSE
SnapshotSpec == Snapshot!Spec

\* "Chronological order for replay or Kalman integration", as the client sees
\* it arrive.
Chronological ==
    \A m, n \in DOMAIN received : m < n =>
        LET o == Place[received[m]]
            p == Place[received[n]]
        IN o.secs < p.secs \/ (o.secs = p.secs /\ o.tick <= p.tick)

\* Every call comes to an end on both sides, of a client that reads as of one
\* that leaves while the channel is full.
CallsEnd == pc = "call" ~> pc = "done" /\ stream \notin {"none", "open"}

-----------------------------------------------------------------------------
(* Of the plan, for observations made anywhere *)

\* How far rounding to the grid may move a coordinate.
Slack(v) == IF (Clamp(v) + MaxRange) % Scale = 0 THEN 0 ELSE Scale \div 2

\* Its distance from c, with the slack added (side 1) or taken off (side -1).
Distance(v, c, side) ==
    LET d == IF Clamp(v) < c THEN c - Clamp(v) ELSE Clamp(v) - c
        moved == d + side * Slack(v)
    IN IF moved < 0 THEN 0 ELSE moved
Within(o, q, side) ==
    LET dx == Distance(o.x, q.centre[1], side)
        dy == Distance(o.y, q.centre[2], side)
        dz == Distance(o.z, q.centre[3], side)
    IN dx * dx + dy * dy + dz * dz <= q.radius * q.radius

\* An observation that is in the sphere wherever rounding may put it, and one
\* that rounding may put there; on the grid the two are the sphere itself.
\* What is made past the edge of the space counts as made at the edge.
DeepIn(o) == InTime(o, query) /\ Within(o, query, 1)
Near(o) == InTime(o, query) /\ Within(o, query, -1)

\* An observation the scan meets and its filters keep.
Found(o) ==
    /\ \E r \in plan : InRange(KeyOf[o], r)
    /\ Passes(DecodeKey(KeyOf[o]))

\* A plan does not depend on the rows: it is judged before there are any.
Planned == pc = "begin" /\ tree = {} /\ stream = "open"

\* The one place the ranges are short: the last Morton code of a cell, in the
\* last second of the window after its first tick.
LastCorner(o) ==
    /\ o.secs = query.end /\ o.tick > 0
    /\ \E r \in plan : KeyOf[o].morton = r.last.morton

\* The scan finds every observation of the window, whatever cell and epoch
\* boundaries the window crosses, but in that one place and within half a grid
\* step of the sphere's surface; and nothing but what is in the window or that
\* close to it.  Observations on the grid are found exactly.
WindowCovered ==
    Planned =>
        \A o \in Observations : /\ DeepIn(o) => Found(o) \/ LastCorner(o)
                                /\ Found(o) => Near(o)

\* No observation is returned twice: ranges do not overlap.
NoneTwice ==
    Planned =>
        \A o \in Observations : Cardinality({r \in plan : InRange(KeyOf[o], r)}) <= 1

\* "Keeping KV fan-out in [1, 8]": at the planned depth a query touches at
\* most eight cells of each epoch, also when rounding and clamping move it.
FanOut ==
    \A e \in {r.first.epoch : r \in plan} :
        Cardinality({r \in plan : r.first.epoch = e}) \in 1..8

\* The single-epoch plan of the browser client covers its epoch: every
\* observation in the sphere where it was made, on the grid or off it.
EpochCovered ==
    Planned =>
        \A o \in Observations :
            /\ o.secs \div EpochSecs = query.start \div EpochSecs
            /\ InSphere(o, query)
            => \E r \in EpochRanges(query) : InRange(KeyOf[o], r)

\* "Return all observations within a sphere across [start_secs, end_secs]",
\* rounding aside.
WindowComplete == Planned => \A o \in Observations : DeepIn(o) => Found(o)
=============================================================================
