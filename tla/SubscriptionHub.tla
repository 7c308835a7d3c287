-------------------------- MODULE SubscriptionHub --------------------------
(***************************************************************************)
(* Region subscriptions: the store's change tap, SubscriptionHub           *)
(* (src/src/hub.rs) and the forwarding task subscribe spawns for each      *)
(* client (src/src/bin/server.rs).                                         *)
(*                                                                         *)
(* An event is its number in the order of publication and the clients      *)
(* whose sphere contains it.  Whether it is too old for a client with an   *)
(* age guard depends on the clock at dispatch and is left open.            *)
(***************************************************************************)
EXTENDS Integers, Sequences, FiniteSets

CONSTANTS
    Clients,    \* each subscribes once
    Regions,    \* the sets of clients an event may match
    Guarded,    \* the clients with max_age_secs > 0
    Readers,    \* the clients that go on reading their stream
    TapSize,    \* capacity of the broadcast channel
    Buffer,     \* capacity of a subscription's channel
    StreamSize, \* capacity of a stream's channel
    MaxEvents   \* bound on the events published

ASSUME HubAssumption ==
    /\ Regions \subseteq SUBSET Clients
    /\ Guarded \subseteq Clients /\ Readers \subseteq Clients
    /\ {TapSize, Buffer, StreamSize} \subseteq Nat \ {0} /\ MaxEvents \in Nat

VARIABLES
    sent,       \* events published so far
    tap,        \* the events the hub has yet to receive
    hub,        \* where run is: "recv", "dispatch" (under the read lock), "sweep"
    event,      \* the event being dispatched
    left,       \* the subscriptions it has yet to be offered to
    anyClosed,  \* any_closed
    subs,       \* the subscriptions in the hub
    queue,      \* each subscription's channel
    rx,         \* is its receiver alive, in the forwarding task
    held,       \* the event that task is sending on
    stream,     \* the client's end: "none", "open" or "gone"
    out,        \* the stream's channel
    got         \* what the client has read

source == <<sent, tap>>
dispatching == <<hub, event, left, anyClosed>>
client == <<stream, out, got>>
task == <<rx, held>>
vars == <<source, dispatching, subs, queue, task, client>>

Init ==
    /\ sent = 0 /\ tap = <<>>
    /\ hub = "recv" /\ event = [id |-> 0, region |-> {}]
    /\ left = {} /\ anyClosed = FALSE
    /\ subs = {}
    /\ queue = [c \in Clients |-> <<>>]
    /\ rx = [c \in Clients |-> FALSE] /\ held = [c \in Clients |-> <<>>]
    /\ stream = [c \in Clients |-> "none"] /\ out = [c \in Clients |-> <<>>]
    /\ got = [c \in Clients |-> <<>>]

-----------------------------------------------------------------------------
(* Slips: operations below with one plausible mistake in them. *)

\* The event is queued though the channel is full.
SendUnbounded(c) == queue' = [queue EXCEPT ![c] = Append(@, event.id)]

\* The hub waits while the channel is full.
SendAwait(c) == Len(queue[c]) < Buffer /\ SendUnbounded(c)

\* The oldest queued event makes room for the new one.
SendEvicting(c) ==
    queue' = [queue EXCEPT ![c] =
        Append(IF Len(@) = Buffer THEN Tail(@) ELSE @, event.id)]

\* A full channel counts as closed.
SweptFull == {c \in subs : ~rx[c] \/ Len(queue[c]) = Buffer}

\* One task forwards for all clients.
ForwardShared(c) ==
    /\ rx[c] /\ queue[c] # <<>> /\ \A d \in Clients : held[d] = <<>>
    /\ held' = [held EXCEPT ![c] = <<Head(queue[c])>>]
    /\ queue' = [queue EXCEPT ![c] = Tail(@)]
    /\ UNCHANGED <<source, dispatching, subs, rx, client>>

\* An event the stream has no room for goes back to the end of the channel.
ForwardSendRequeue(c) ==
    /\ held[c] # <<>> /\ stream[c] = "open"
    /\ held' = [held EXCEPT ![c] = <<>>]
    /\ IF Len(out[c]) < StreamSize
       THEN out' = [out EXCEPT ![c] = @ \o held[c]] /\ UNCHANGED queue
       ELSE queue' = [queue EXCEPT ![c] = @ \o held[c]] /\ UNCHANGED out
    /\ UNCHANGED <<source, dispatching, subs, rx, stream, got>>

\* The task ends without giving up its receiver.
ForwardBreakLeaking(c) ==
    /\ held[c] # <<>> /\ stream[c] = "gone"
    /\ held' = [held EXCEPT ![c] = <<>>]
    /\ UNCHANGED <<source, dispatching, subs, queue, rx, client>>

-----------------------------------------------------------------------------
\* publish: a full ring loses its oldest event.
Publish(region) ==
    /\ sent < MaxEvents
    /\ sent' = sent + 1
    /\ tap' = LET longer == Append(tap, [id |-> sent + 1, region |-> region])
              IN IF Len(longer) > TapSize THEN Tail(longer) ELSE longer
    /\ UNCHANGED <<dispatching, subs, queue, task, client>>

\* attach takes the write lock, so not while an event is fanned out.
Subscribe(c) ==
    /\ stream[c] = "none" /\ hub # "dispatch"
    /\ subs' = subs \union {c}
    /\ rx' = [rx EXCEPT ![c] = TRUE]
    /\ stream' = [stream EXCEPT ![c] = "open"]
    /\ UNCHANGED <<source, dispatching, queue, held, out, got>>

-----------------------------------------------------------------------------
(* The hub *)

Receive ==
    /\ hub = "recv" /\ tap # <<>>
    /\ event' = Head(tap) /\ tap' = Tail(tap)
    /\ hub' = "dispatch"
    /\ left' = subs /\ anyClosed' = FALSE
    /\ UNCHANGED <<sent, subs, queue, task, client>>

SeeClosed(c) ==
    /\ hub = "dispatch" /\ c \in left /\ ~rx[c]
    /\ anyClosed' = TRUE
    /\ left' = left \ {c}
    /\ UNCHANGED <<source, hub, event, subs, queue, task, client>>

\* Too old for the client, or outside its sphere.
PassOver(c) ==
    /\ hub = "dispatch" /\ c \in left /\ rx[c]
    /\ c \in Guarded \/ c \notin event.region
    /\ left' = left \ {c}
    /\ UNCHANGED <<source, hub, event, anyClosed, subs, queue, task, client>>

\* try_send: a full channel, or one closed since, loses the event.
TrySend(c) ==
    queue' = [queue EXCEPT ![c] = IF Len(@) < Buffer THEN Append(@, event.id) ELSE @]
Offer(c) ==
    /\ hub = "dispatch" /\ c \in left /\ rx[c]
    /\ c \in event.region
    /\ left' = left \ {c}
    /\ TrySend(c)
    /\ UNCHANGED <<source, hub, event, anyClosed, subs, task, client>>

Dispatched ==
    /\ hub = "dispatch" /\ left = {}
    /\ hub' = IF anyClosed THEN "sweep" ELSE "recv"
    /\ UNCHANGED <<source, event, left, anyClosed, subs, queue, task, client>>

\* Under the write lock, taken after the read lock is released.
Swept == {c \in subs : ~rx[c]}
Sweep ==
    /\ hub = "sweep"
    /\ subs' = subs \ Swept
    /\ hub' = "recv"
    /\ UNCHANGED <<source, event, left, anyClosed, queue, task, client>>

-----------------------------------------------------------------------------
(* The forwarding task of client c, and the client *)

Forward(c) ==
    /\ rx[c] /\ held[c] = <<>> /\ queue[c] # <<>>
    /\ held' = [held EXCEPT ![c] = <<Head(queue[c])>>]
    /\ queue' = [queue EXCEPT ![c] = Tail(@)]
    /\ UNCHANGED <<source, dispatching, subs, rx, client>>

ForwardSend(c) ==
    /\ held[c] # <<>> /\ stream[c] = "open" /\ Len(out[c]) < StreamSize
    /\ out' = [out EXCEPT ![c] = @ \o held[c]]
    /\ held' = [held EXCEPT ![c] = <<>>]
    /\ UNCHANGED <<source, dispatching, subs, queue, rx, stream, got>>

\* The send fails, the task ends and its receiver goes with it.
ForwardBreak(c) ==
    /\ held[c] # <<>> /\ stream[c] = "gone"
    /\ rx' = [rx EXCEPT ![c] = FALSE]
    /\ held' = [held EXCEPT ![c] = <<>>]
    /\ queue' = [queue EXCEPT ![c] = <<>>]
    /\ UNCHANGED <<source, dispatching, subs, client>>

Read(c) ==
    /\ stream[c] = "open" /\ out[c] # <<>>
    /\ got' = [got EXCEPT ![c] = Append(@, Head(out[c]))]
    /\ out' = [out EXCEPT ![c] = Tail(@)]
    /\ UNCHANGED <<source, dispatching, subs, queue, task, stream>>

Leave(c) ==
    /\ stream[c] = "open"
    /\ stream' = [stream EXCEPT ![c] = "gone"]
    /\ out' = [out EXCEPT ![c] = <<>>]
    /\ UNCHANGED <<source, dispatching, subs, queue, task, got>>

-----------------------------------------------------------------------------
HubStep ==
    \/ Receive \/ Dispatched \/ Sweep
    \/ \E c \in Clients : SeeClosed(c) \/ PassOver(c) \/ Offer(c)
TaskStep(c) == Forward(c) \/ ForwardSend(c) \/ ForwardBreak(c)

Next ==
    \/ \E region \in Regions : Publish(region)
    \/ HubStep
    \/ \E c \in Clients : Subscribe(c) \/ TaskStep(c) \/ Read(c) \/ Leave(c)

Spec == Init /\ [][Next]_vars

\* Tasks are scheduled fairly; only Readers are sure to read.
Fairness ==
    /\ WF_vars(HubStep)
    /\ \A c \in Clients : WF_vars(TaskStep(c))
    /\ \A c \in Readers : WF_vars(Read(c))
FairSpec == Spec /\ Fairness

-----------------------------------------------------------------------------
(* Properties *)

IdSeqs == Seq(1..MaxEvents)

TypeOK ==
    /\ sent \in 0..MaxEvents /\ Len(tap) <= TapSize
    /\ hub \in {"recv", "dispatch", "sweep"}
    /\ left \subseteq subs /\ anyClosed \in BOOLEAN /\ subs \subseteq Clients
    /\ rx \in [Clients -> BOOLEAN] /\ stream \in [Clients -> {"none", "open", "gone"}]
    /\ \A c \in Clients :
          /\ {queue[c], held[c], out[c], got[c]} \subseteq IdSeqs
          /\ Len(queue[c]) <= Buffer /\ Len(held[c]) <= 1 /\ Len(out[c]) <= StreamSize

\* A client hears events in the order of publication and none twice, through a
\* lossy tap, two bounded channels and a task between them.
Pipeline(c) == got[c] \o out[c] \o held[c] \o queue[c]
InOrder ==
    \A c \in Clients : \A m, n \in DOMAIN Pipeline(c) :
        m < n => Pipeline(c)[m] < Pipeline(c)[n]

\* "If the receiver's buffer is full the event is skipped": the newest one is
\* lost, never one that was accepted.
AcceptedKept ==
    [][\A c \in Clients :
          stream'[c] = "open" =>
              SubSeq(Pipeline(c)', 1, Len(Pipeline(c))) = Pipeline(c)]_vars

\* A client that is listening stays subscribed, though others come and go
\* while closed subscriptions are swept out.
ListenersKept == \A c \in Clients : stream[c] = "open" => c \in subs /\ rx[c]

\* "Slow or absent listeners never block the write path", nor one another:
\* the tap is emptied again and again though nobody reads.
TapDrained == []<>(tap = <<>> /\ hub = "recv")

\* What is queued for a client that reads reaches it, however slow others are.
ReadersServed ==
    \A c \in Readers :
        queue[c] # <<>> ~> stream[c] = "gone" \/ Pipeline(c) = got[c]

\* A matching event takes a gone client's task down, and the next event its
\* subscription.
GoneCleared ==
    \A c \in Clients :
        /\ stream[c] = "gone" /\ queue[c] # <<>> ~> ~rx[c]
        /\ stream[c] = "gone" /\ ~rx[c] /\ tap # <<>> ~> c \notin subs
=============================================================================
