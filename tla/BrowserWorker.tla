--------------------------- MODULE BrowserWorker ---------------------------
(***************************************************************************)
(* The browser client: the page's map of requests (web/index.html), the    *)
(* Web Worker whose message handlers interleave at their awaits            *)
(* (web/worker.js), the WASM indexer it holds                              *)
(* (crates/interstellar-wasm/src/lib.rs) and the IndexedDB transactions it *)
(* opens (web/idb.js).                                                     *)
(*                                                                         *)
(* The buttons of the page chain requests and several chains may run at    *)
(* once: a session is any sequence of requests, posted without waiting.  A *)
(* step is what the worker runs from one event to the next.  A reload      *)
(* loses everything but the object store, and the session goes on.         *)
(***************************************************************************)
EXTENDS Integers, Sequences, FiniteSets

CONSTANTS
    AxisBits, Ticks,    \* as in QueryPlan
    Configs,        \* indexer parameters: records [scale, epochSecs]
    Default,        \* those the worker starts with
    Sessions,       \* what the page asks for: sequences of operations
    MaxRequests     \* the length of each

Requests == 1..MaxRequests
Operations == {s[id] : s \in Sessions, id \in Requests}

\* What an indexer asserts of its parameters, and of a window.
ASSUME ConfigsAssumption ==
    /\ Default \in Configs
    /\ Configs \subseteq [scale : Nat \ {0}, epochSecs : Nat \ {0}]
ASSUME SessionsAssumption ==
    /\ MaxRequests \in Nat
    /\ \A s \in Sessions : DOMAIN s = Requests
    /\ \A o \in Operations :
          \/ o.op = "config" /\ o.config \in Configs
          \/ /\ o.op = "store" /\ Len(o.records) \in Nat
             /\ DOMAIN o.records = 1..Len(o.records)
          \/ /\ o.op \in {"epoch", "window"} /\ o.query.radius \in Nat
             /\ o.query.start <= o.query.end
          \/ o.op \in {"count", "clear"}

VARIABLES
    obs,        \* on disk: the rows of the object store, <<key, observation>>
    indexer,    \* the worker's indexer: its parameters, none at first
    params,     \* those the next indexer is made with
    db,         \* whether the worker has its connection
    request,    \* the session
    at,         \* where each request is
    used,       \* the indexer each request's keys or ranges were made with
    found,      \* the candidates each query's scan has read
    answer,     \* the rows of each query's reply
    inbox,      \* requests posted to the worker
    txs,        \* transactions, in the order they were created
    outbox,     \* replies posted to the page
    pending     \* the page's map of requests without a reply

disk == <<obs>>
worker == <<indexer, params, db>>
calls == <<request, used, found, answer>>
vars == <<disk, worker, calls, at, inbox, txs, outbox, pending>>

NoIndexer == [scale |-> 0, epochSecs |-> 0]
Unread == {<<>>}

Init ==
    /\ obs = {}
    /\ indexer = NoIndexer /\ params = Default /\ db = FALSE
    /\ request \in Sessions
    /\ at = [id \in Requests |-> "unposted"]
    /\ used = [id \in Requests |-> NoIndexer]
    /\ found = [id \in Requests |-> Unread] /\ answer = [id \in Requests |-> {}]
    /\ inbox = <<>> /\ txs = <<>> /\ outbox = <<>> /\ pending = {}


-----------------------------------------------------------------------------
(* The indexer of parameters g, whatever observations there are *)
Indexer(g) ==
    INSTANCE QueryPlan WITH
        Scale <- g.scale, EpochSecs <- g.epochSecs,
        Coordinates <- {}, Seconds <- {}

-----------------------------------------------------------------------------
(* Slips: operations below with one plausible mistake in them. *)

\* Each record is put in a transaction of its own.
PutEach(id) ==
    /\ at[id] = "tx" /\ request[id].op = "store" /\ Head(txs) = id
    /\ \E n \in DOMAIN request[id].records :
          LET o == request[id].records[n]
              key == Indexer(used[id])!GenerateKey(o.x, o.y, o.z, o.secs, o.tick)
          IN obs' = {<<key, o>>} \union {row \in obs : row[1] # key}
    /\ at' \in {at, [at EXCEPT ![id] = "event"]}
    /\ txs' = SelectSeq(txs, LAMBDA e : e # id \/ at' = at)
    /\ UNCHANGED <<worker, calls, inbox, outbox, pending>>

\* A request stays in the map when its reply arrives.
ReceiveKept ==
    /\ outbox # <<>>
    /\ outbox' = Tail(outbox)
    /\ UNCHANGED <<disk, worker, calls, at, inbox, txs, pending>>

\* Nothing listens to onabort and onerror.
AbortedUnheard(id) ==
    /\ at[id] = "aborted"
    /\ at' = [at EXCEPT ![id] = "lost"]
    /\ UNCHANGED <<disk, worker, calls, inbox, txs, outbox, pending>>

-----------------------------------------------------------------------------
(* The WASM side: keys, ranges and decoding under parameters g *)

GenerateKey(g, o) == Indexer(g)!GenerateKey(o.x, o.y, o.z, o.secs, o.tick)
DecodeKey(g, key) == Indexer(g)!DecodeKey(key)

\* epochRanges for the epoch of q.start, windowRanges otherwise.
Ranges(g, r) ==
    IF r.op = "epoch" THEN Indexer(g)!EpochRanges(r.query)
                      ELSE Indexer(g)!WindowRanges(r.query)
Scans(g, r, key) == \E range \in Ranges(g, r) : Indexer(g)!InRange(key, range)

\* The exact filters of filterAndSort; an epoch query takes every time.
Passes(g, r, key) ==
    LET o == DecodeKey(g, key)
    IN /\ r.op = "window" => Indexer(g)!InTime(o, r.query)
       /\ Indexer(g)!InSphere(o, r.query)

\* The entries a store puts, in order; an observation stands for its label.
Entries(g, r) ==
    [n \in DOMAIN r.records |-> <<GenerateKey(g, r.records[n]), r.records[n]>>]

-----------------------------------------------------------------------------
(* The page *)

Post(id) ==
    /\ at[id] = "unposted" /\ \A n \in 1..id - 1 : at[n] # "unposted"
    /\ at' = [at EXCEPT ![id] = "posted"]
    /\ inbox' = Append(inbox, id)
    /\ pending' = pending \union {id}
    /\ UNCHANGED <<disk, worker, calls, txs, outbox>>

Receive ==
    /\ outbox # <<>>
    /\ outbox' = Tail(outbox)
    /\ pending' = pending \ {Head(outbox)}
    /\ UNCHANGED <<disk, worker, calls, at, inbox, txs>>

-----------------------------------------------------------------------------
(* The worker's handlers *)

IsQuery(id) == request[id].op \in {"epoch", "window"}
IsRead(id) == IsQuery(id) \/ request[id].op = "count"

Reply(id, place) ==
    /\ at' = [at EXCEPT ![id] = place]
    /\ outbox' = Append(outbox, id)

\* An operation up to its await: config answers at once, the others open a
\* transaction, which throws when there is no connection.
Configure(id) ==
    /\ request[id].op = "config"
    /\ params' = request[id].config /\ indexer' = params'
    /\ Reply(id, "ok")
    /\ UNCHANGED <<txs, used>>
OpenTx(id) ==
    /\ request[id].op # "config"
    /\ used' = [used EXCEPT ![id] = indexer]
    /\ txs' = Append(txs, id)
    /\ at' = [at EXCEPT ![id] = "tx"]
    /\ UNCHANGED <<indexer, params, outbox>>
Throw(id) ==
    /\ request[id].op # "config"
    /\ Reply(id, "error")
    /\ UNCHANGED <<indexer, params, used, txs>>

\* A message arrives and ensureReady finds an indexer, or none.
Handle(id) ==
    /\ inbox # <<>> /\ id = Head(inbox) /\ inbox' = Tail(inbox)
    /\ indexer # NoIndexer
    /\ \/ Configure(id)
       \/ db /\ OpenTx(id)
       \/ ~db /\ Throw(id)
    /\ UNCHANGED <<disk, db, request, found, answer, pending>>
Instantiate(id) ==
    /\ inbox # <<>> /\ id = Head(inbox) /\ inbox' = Tail(inbox)
    /\ indexer = NoIndexer
    /\ at' = [at EXCEPT ![id] = "init"]
    /\ UNCHANGED <<disk, worker, calls, txs, outbox, pending>>

\* The module is there: the indexer is made before the connection is asked for.
InitDone(id) ==
    /\ at[id] = "init"
    /\ indexer' = params
    /\ at' = [at EXCEPT ![id] = "open"]
    /\ UNCHANGED <<disk, params, db, calls, inbox, txs, outbox, pending>>

OpenDone(id) ==
    /\ at[id] = "open"
    /\ db' = TRUE
    /\ Configure(id) \/ OpenTx(id)
    /\ UNCHANGED <<disk, request, found, answer, inbox, pending>>

\* Either of the two fails; nothing is undone.
ReadyFails(id) ==
    /\ at[id] \in {"init", "open"}
    /\ Reply(id, "error")
    /\ UNCHANGED <<disk, worker, calls, inbox, txs, pending>>

-----------------------------------------------------------------------------
(* IndexedDB: a transaction waits for the earlier ones it may conflict with *)
(* and takes effect as a whole, or aborts.                                  *)

Earlier(id) == {txs[n] : n \in {m \in DOMAIN txs : \E k \in DOMAIN txs : k > m /\ txs[k] = id}}
MayRun(id) ==
    /\ at[id] = "tx"
    /\ Earlier(id) = {} \/ (IsRead(id) /\ \A e \in Earlier(id) : IsRead(e))
Without(id) ==
    LET n == CHOOSE m \in DOMAIN txs : txs[m] = id
    IN SubSeq(txs, 1, n - 1) \o SubSeq(txs, n + 1, Len(txs))

\* put replaces the value of its key.
PutAll(held, entries) ==
    {entries[n] : n \in {m \in DOMAIN entries :
        \A k \in DOMAIN entries : k > m => entries[k][1] # entries[m][1]}}
    \union {row \in held : \A n \in DOMAIN entries : entries[n][1] # row[1]}

PutBatch(id) ==
    /\ request[id].op = "store" /\ MayRun(id)
    /\ obs' = PutAll(obs, Entries(used[id], request[id]))
    /\ at' = [at EXCEPT ![id] = "event"] /\ txs' = Without(id)
    /\ UNCHANGED <<worker, calls, inbox, outbox, pending>>
ClearAll(id) ==
    /\ request[id].op = "clear" /\ MayRun(id)
    /\ obs' = {}
    /\ at' = [at EXCEPT ![id] = "event"] /\ txs' = Without(id)
    /\ UNCHANGED <<worker, calls, inbox, outbox, pending>>

\* Every range of a query is read in its one transaction.
ScanRanges(id) ==
    /\ IsQuery(id) /\ MayRun(id)
    /\ found' = [found EXCEPT ![id] =
                   {row \in obs : Scans(used[id], request[id], row[1])}]
    /\ at' = [at EXCEPT ![id] = "event"] /\ txs' = Without(id)
    /\ UNCHANGED <<disk, worker, request, used, answer, inbox, outbox, pending>>
CountAll(id) ==
    /\ request[id].op = "count" /\ MayRun(id)
    /\ found' = [found EXCEPT ![id] = obs]
    /\ at' = [at EXCEPT ![id] = "event"] /\ txs' = Without(id)
    /\ UNCHANGED <<disk, worker, request, used, answer, inbox, outbox, pending>>

Abort(id) ==
    /\ at[id] = "tx"
    /\ at' = [at EXCEPT ![id] = "aborted"] /\ txs' = Without(id)
    /\ UNCHANGED <<disk, worker, calls, inbox, outbox, pending>>

\* The transaction's event resumes the handler. A query's candidates are
\* decoded by the indexer there is now.
Finish(id) ==
    /\ at[id] = "event"
    /\ answer' = [answer EXCEPT ![id] =
                    CASE request[id].op = "count" -> found[id]
                      [] IsQuery(id) ->
                           {row \in found[id] : Passes(indexer, request[id], row[1])}
                      [] OTHER -> {}]
    /\ Reply(id, "ok")
    /\ UNCHANGED <<disk, worker, request, used, found, inbox, txs, pending>>
Aborted(id) ==
    /\ at[id] = "aborted"
    /\ Reply(id, "error")
    /\ UNCHANGED <<disk, worker, calls, inbox, txs, pending>>

-----------------------------------------------------------------------------
\* The page is closed or reloaded: what has not committed is aborted.
Reload ==
    /\ indexer' = NoIndexer /\ params' = Default /\ db' = FALSE
    /\ at' = [id \in Requests |-> IF id \in pending THEN "lost" ELSE at[id]]
    /\ inbox' = <<>> /\ txs' = <<>> /\ outbox' = <<>> /\ pending' = {}
    /\ UNCHANGED <<disk, calls>>

Event(id) ==
    \/ Handle(id) \/ Instantiate(id) \/ InitDone(id) \/ OpenDone(id)
    \/ ReadyFails(id)
    \/ PutBatch(id) \/ ClearAll(id) \/ ScanRanges(id) \/ CountAll(id) \/ Abort(id)
    \/ Finish(id) \/ Aborted(id)

Next ==
    \/ \E id \in Requests : Post(id) \/ Event(id)
    \/ Receive \/ Reload

\* The event loops run, and what the browser is asked for it does or refuses.
Fairness == WF_vars(Receive) /\ \A id \in Requests : WF_vars(Event(id))

Spec == Init /\ [][Next]_vars /\ Fairness

-----------------------------------------------------------------------------
(* Properties *)

Records == UNION {{o.records[n] : n \in DOMAIN o.records} :
                    o \in {p \in Operations : p.op = "store"}}
Rows == {<<GenerateKey(g, o), o>> : g \in Configs, o \in Records}

\* The rows a read asks for when it is planned with parameters g.
Plans == Configs \X {o \in Operations : o.op \in {"epoch", "window", "count"}}
Matches ==
    [p \in Plans |->
        {row \in Rows :
            \/ p[2].op = "count"
            \/ Scans(p[1], p[2], row[1]) /\ Passes(p[1], p[2], row[1])}]

\* The type of every variable, and requests that are where they can be.
TypeOK ==
    /\ obs \subseteq Rows
    /\ indexer \in Configs \union {NoIndexer} /\ params \in Configs
    /\ db \in BOOLEAN
    /\ request \in Sessions
    /\ \A id \in Requests :
          /\ used[id] \in Configs \union {NoIndexer}
          /\ found[id] \in (SUBSET Rows) \union {Unread} /\ answer[id] \subseteq Rows
          /\ id \in pending <=>
                \/ at[id] \in {"posted", "init", "open", "tx", "event", "aborted"}
                \/ \E n \in DOMAIN outbox : outbox[n] = id
          /\ at[id] = "tx" <=> \E n \in DOMAIN txs : txs[n] = id

\* A read is answered with what the object store held of the rows it asks for
\* at one moment, whatever requests, failures and reloads come between its
\* transaction, its reply and the page: a batch that is stored is in it as a
\* whole or not at all.
WriteBatches ==
    {PutAll({}, Entries(g, o)) : g \in Configs, o \in {p \in Operations : p.op = "store"}}
Asked(id) ==
    IF IsRead(id) /\ used[id] # NoIndexer THEN Matches[<<used[id], request[id]>>] ELSE {}
Outcome(id) ==
    IF ~IsRead(id) \/ id \in pending \/ at[id] = "unposted" THEN "open"
    ELSE IF at[id] = "ok" THEN "complete" ELSE "failed"
Snapshot(id) ==
    INSTANCE SnapshotQuery WITH
        Items <- Rows, Batches <- WriteBatches, Clearable <- TRUE,
        stored <- obs, wanted <- Asked(id),
        taken <- found[id] # Unread, answer <- Asked(id) \intersect found[id],
        shown <- answer[id], outcome <- Outcome(id)
ClientSnapshot ==
    /\ \A id \in Requests : Snapshot(id)!Init
    /\ [][\A id \in Requests :
            Snapshot(id)!Next \/ UNCHANGED Snapshot(id)!queryVars]_vars

\* Every request is settled, in whatever order transactions end and whichever
\* of them fail.
Settled == \A id \in Requests : id \in pending ~> id \notin pending

\* The worker "drop[s] candidates outside the wall-clock window or outside the
\* true sphere": of the rows whose keys the query's own indexer makes, a reply
\* has exactly the candidates that were observed in the sphere and window.
TrueSphere ==
    \A id \in Requests : IsQuery(id) /\ at[id] = "ok" =>
        \A row \in found[id] :
            row[1] = GenerateKey(used[id], row[2]) =>
                (row \in answer[id] <=>
                    /\ Indexer(used[id])!InSphere(row[2], request[id].query)
                    /\ request[id].op = "window" =>
                          Indexer(used[id])!InTime(row[2], request[id].query))
=============================================================================
