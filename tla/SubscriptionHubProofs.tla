----------------------- MODULE SubscriptionHubProofs -----------------------
(***************************************************************************)
(* What a subscriber is promised, for every set of clients and every size  *)
(* of the tap, the subscriptions' channels and the streams' channels: the  *)
(* events come in order and none twice, an accepted event is not taken     *)
(* back, and a client that listens stays subscribed.                       *)
(***************************************************************************)
EXTENDS SubscriptionHub, SequenceTheorems, TLAPS

Ids == 1..MaxEvents
Event == [id : Nat, region : SUBSET Clients]

\* Strictly increasing.
Rising(s) == \A m, n \in DOMAIN s : m < n => s[m] < s[n]

\* What TypeOK leaves open: the channels are those of the clients, and a
\* subscription not yet offered the event is one the event is dispatched to.
Shapes ==
    /\ tap \in Seq(Event) /\ event \in Event
    /\ queue \in [Clients -> Seq(Ids)] /\ held \in [Clients -> Seq(Ids)]
    /\ out \in [Clients -> Seq(Ids)] /\ got \in [Clients -> Seq(Ids)]
    /\ hub = "dispatch" => event.id \in Ids
    /\ hub # "dispatch" => left = {}

\* The sizes TypeOK bounds.
Sizes ==
    /\ sent \in 0..MaxEvents /\ Len(tap) <= TapSize
    /\ hub \in {"recv", "dispatch", "sweep"}
    /\ left \subseteq subs /\ anyClosed \in BOOLEAN /\ subs \subseteq Clients
    /\ rx \in [Clients -> BOOLEAN] /\ stream \in [Clients -> {"none", "open", "gone"}]
    /\ \A c \in Clients :
          Len(queue[c]) <= Buffer /\ Len(held[c]) <= 1 /\ Len(out[c]) <= StreamSize

\* The events yet to come are newer than the one being dispatched, in order.
TapRising ==
    /\ event.id <= sent
    /\ \A n \in DOMAIN tap : event.id < tap[n].id /\ tap[n].id <= sent
    /\ \A m, n \in DOMAIN tap : m < n => tap[m].id < tap[n].id

\* A client not yet offered the event has only older ones on their way.
OfferedOnce ==
    \A c \in Clients : \A n \in DOMAIN Pipeline(c) :
        /\ Pipeline(c)[n] <= event.id
        /\ c \in left => Pipeline(c)[n] < event.id

HubInv == TypeOK /\ Shapes /\ TapRising /\ ListenersKept /\ OfferedOnce /\ InOrder
-----------------------------------------------------------------------------
(* Sequences of event numbers *)

\* t is s with some of its elements left out.
Thinned(t, s) ==
    \E at \in [DOMAIN t -> DOMAIN s] :
        /\ \A n \in DOMAIN t : t[n] = s[at[n]]
        /\ \A m, n \in DOMAIN t : m < n => at[m] < at[n]

\* A sequence cut off at the end.
LEMMA ThinnedPrefix ==
    ASSUME NEW a \in Seq(Ids), NEW b \in Seq(Ids)
    PROVE  Thinned(a, a \o b)
<1> DEFINE at == [n \in DOMAIN a |-> n]
<1>1. /\ DOMAIN a = 1..Len(a) /\ DOMAIN (a \o b) = 1..Len(a) + Len(b)
      /\ Len(a) \in Nat /\ Len(b) \in Nat
      /\ \A n \in 1..Len(a) : (a \o b)[n] = a[n]
  OBVIOUS
<1>2. at \in [DOMAIN a -> DOMAIN (a \o b)]
  BY <1>1
<1>3. \A n \in DOMAIN a : a[n] = (a \o b)[at[n]]
  BY <1>1
<1>4. \A m, n \in DOMAIN a : m < n => at[m] < at[n]
  OBVIOUS
<1> QED
  BY <1>2, <1>3, <1>4 DEF Thinned

\* A sequence with a stretch in its middle left out.
LEMMA ThinnedMiddle ==
    ASSUME NEW a \in Seq(Ids), NEW b \in Seq(Ids), NEW c \in Seq(Ids)
    PROVE  Thinned(a \o c, (a \o b) \o c)
<1> DEFINE t == a \o c
           s == (a \o b) \o c
           at == [n \in DOMAIN t |-> IF n <= Len(a) THEN n ELSE n + Len(b)]
<1>1. /\ DOMAIN t = 1..Len(a) + Len(c) /\ DOMAIN s = 1..(Len(a) + Len(b)) + Len(c)
      /\ Len(a) \in Nat /\ Len(b) \in Nat /\ Len(c) \in Nat
  OBVIOUS
<1>2. \A n \in 1..Len(a) + Len(c) : t[n] = IF n <= Len(a) THEN a[n] ELSE c[n - Len(a)]
  BY ConcatProperties
<1>3. \A n \in 1..Len(a) + Len(b) : (a \o b)[n] = IF n <= Len(a) THEN a[n] ELSE b[n - Len(a)]
  BY ConcatProperties
<1>4. \A n \in 1..(Len(a) + Len(b)) + Len(c) :
        s[n] = IF n <= Len(a) + Len(b) THEN (a \o b)[n] ELSE c[n - (Len(a) + Len(b))]
  <2>1. a \o b \in Seq(Ids) /\ Len(a \o b) = Len(a) + Len(b)
    OBVIOUS
  <2> QED
    BY <2>1, ConcatProperties
<1> HIDE DEF s, t
<1>5. at \in [DOMAIN t -> DOMAIN s]
  BY <1>1
<1>6. ASSUME NEW n \in DOMAIN t PROVE t[n] = s[at[n]]
  <2>1. CASE n <= Len(a)
    <3>1. at[n] = n /\ t[n] = a[n]
      BY <1>1, <1>2, <2>1
    <3>2. s[n] = (a \o b)[n] /\ (a \o b)[n] = a[n]
      BY <1>1, <1>3, <1>4, <2>1
    <3> QED
      BY <3>1, <3>2
  <2>2. CASE n > Len(a)
    <3>1. at[n] = n + Len(b) /\ t[n] = c[n - Len(a)]
      BY <1>1, <1>2, <2>2
    <3>2. s[n + Len(b)] = c[(n + Len(b)) - (Len(a) + Len(b))]
      BY <1>1, <1>4, <2>2
    <3>3. (n + Len(b)) - (Len(a) + Len(b)) = n - Len(a)
      BY <1>1
    <3> QED
      BY <3>1, <3>2, <3>3
  <2> QED
    BY <1>1, <2>1, <2>2
<1>7. \A m, n \in DOMAIN t : m < n => at[m] < at[n]
  BY <1>1
<1> HIDE DEF at
<1>8. Thinned(t, s)
  BY <1>5, <1>6, <1>7 DEF Thinned
<1> QED
  BY <1>8 DEF s, t

\* What is left of a rising sequence rises, below the same bounds.
LEMMA ThinnedRising ==
    ASSUME NEW s, NEW t, Thinned(t, s)
    PROVE  /\ Rising(s) => Rising(t)
           /\ \A n \in DOMAIN t : \E m \in DOMAIN s : t[n] = s[m]
<1>1. PICK at \in [DOMAIN t -> DOMAIN s] :
        /\ \A n \in DOMAIN t : t[n] = s[at[n]]
        /\ \A m, n \in DOMAIN t : m < n => at[m] < at[n]
  BY DEF Thinned
<1> QED
  BY <1>1 DEF Rising

\* A rising sequence goes on rising when a larger number is appended.
LEMMA RisingAppend ==
    ASSUME NEW s \in Seq(Ids), NEW e \in Ids, Rising(s),
           \A n \in DOMAIN s : s[n] < e
    PROVE  Rising(Append(s, e))
<1>1. /\ DOMAIN Append(s, e) = 1..Len(s) + 1 /\ DOMAIN s = 1..Len(s) /\ Len(s) \in Nat
      /\ \A n \in 1..Len(s) : Append(s, e)[n] = s[n]
      /\ Append(s, e)[Len(s) + 1] = e
  OBVIOUS
<1> QED
  BY <1>1 DEF Rising

\* What goes from one channel to the next stays in its place.
LEMMA Regroup ==
    \A a, b, c \in Seq(Ids) : (a \o b) \o c = a \o (b \o c)
  BY ConcatAssociative

\* One event of a channel moves on to the next one.
LEMMA HeadMoves ==
    ASSUME NEW s \in Seq(Ids), s # <<>>
    PROVE  /\ Head(s) \in Ids /\ <<Head(s)>> \in Seq(Ids) /\ Tail(s) \in Seq(Ids)
           /\ Len(<<Head(s)>>) = 1 /\ Len(Tail(s)) = Len(s) - 1
           /\ <<Head(s)>> \o Tail(s) = s
<1>1. /\ Head(s) \in Ids /\ <<Head(s)>> \in Seq(Ids) /\ Tail(s) \in Seq(Ids)
      /\ Len(<<Head(s)>>) = 1 /\ Len(Tail(s)) = Len(s) - 1
      /\ Len(s) \in Nat /\ DOMAIN s = 1..Len(s) /\ Head(s) = s[1]
      /\ \A n \in 1..Len(s) - 1 : Tail(s)[n] = s[n + 1]
  OBVIOUS
<1>2. /\ <<Head(s)>> \o Tail(s) \in Seq(Ids)
      /\ Len(<<Head(s)>> \o Tail(s)) = 1 + (Len(s) - 1)
      /\ \A n \in 1..1 + (Len(s) - 1) :
            (<<Head(s)>> \o Tail(s))[n] =
                IF n <= 1 THEN <<Head(s)>>[n] ELSE Tail(s)[n - 1]
  BY <1>1, ConcatProperties
<1>3. \A n \in 1..Len(s) : (<<Head(s)>> \o Tail(s))[n] = s[n]
  BY <1>1, <1>2
<1> QED
  BY <1>1, <1>2, <1>3, SeqEqual

\* What a client has read, its stream's channel, what its task holds and its
\* subscription's channel, as one sequence.
Way(g, o, h, q) == ((g \o o) \o h) \o q

\* An event queued is the last one on the way.
LEMMA WayQueued ==
    ASSUME NEW a \in Seq(Ids), NEW q \in Seq(Ids), NEW e \in Ids
    PROVE  a \o Append(q, e) = Append(a \o q, e)
<1> DEFINE last == <<e>>
<1>1. a \in Seq(Ids) /\ q \in Seq(Ids) /\ last \in Seq(Ids)
  OBVIOUS
<1>2. Append(q, e) = q \o last /\ Append(a \o q, e) = (a \o q) \o last
  BY ConcatProperties, AppendIsConcat
<1> HIDE DEF last
<1>3. (a \o q) \o last = a \o (q \o last)
  BY ONLY <1>1, Regroup, Zenon
<1> QED
  BY <1>2, <1>3

\* The task takes the first event out of the queue.
LEMMA WayTaken ==
    ASSUME NEW g \in Seq(Ids), NEW o \in Seq(Ids), NEW q \in Seq(Ids), q # <<>>
    PROVE  Way(g, o, <<Head(q)>>, Tail(q)) = Way(g, o, <<>>, q)
<1> DEFINE ahead == g \o o
           first == <<Head(q)>>
           rest == Tail(q)
<1>1. ahead \in Seq(Ids) /\ ahead \o <<>> = ahead
  BY ConcatEmptySeq, ConcatProperties
<1>2. first \in Seq(Ids) /\ rest \in Seq(Ids)
  BY HeadMoves
<1>3. first \o rest = q
  BY HeadMoves
<1> HIDE DEF ahead, first, rest
<1>4. (ahead \o first) \o rest = ahead \o (first \o rest)
  BY <1>1, <1>2, Regroup
<1> QED
  BY <1>1, <1>3, <1>4 DEF Way, ahead, first, rest

\* The task hands the event it holds to the stream.
LEMMA WaySent ==
    ASSUME NEW g \in Seq(Ids), NEW o \in Seq(Ids), NEW h \in Seq(Ids), NEW q \in Seq(Ids)
    PROVE  Way(g, o \o h, <<>>, q) = Way(g, o, h, q)
<1>1. (g \o o) \o h = g \o (o \o h)
  BY Regroup, ZenonT(30)
<1>2. (g \o o) \o h \in Seq(Ids)
  OBVIOUS
<1>3. ((g \o o) \o h) \o <<>> = (g \o o) \o h
  BY <1>2, ConcatEmptySeq
<1> QED
  BY <1>1, <1>3 DEF Way

\* The client reads the first event in the stream.
LEMMA WayRead ==
    ASSUME NEW g \in Seq(Ids), NEW o \in Seq(Ids), NEW h \in Seq(Ids), NEW q \in Seq(Ids),
           o # <<>>
    PROVE  Way(Append(g, Head(o)), Tail(o), h, q) = Way(g, o, h, q)
<1> DEFINE first == <<Head(o)>>
           rest == Tail(o)
<1>1. g \in Seq(Ids) /\ first \in Seq(Ids) /\ rest \in Seq(Ids)
  BY HeadMoves
<1>2. first \o rest = o /\ Head(o) \in Ids
  BY HeadMoves
<1>3. Append(g, Head(o)) = g \o first
  BY <1>2, AppendIsConcat
<1> HIDE DEF first, rest
<1>4. (g \o first) \o rest = g \o (first \o rest)
  BY ONLY <1>1, Regroup, SMTT(30)
<1>5. Append(g, Head(o)) \o rest = g \o o
  BY <1>2, <1>3, <1>4
<1> QED
  BY <1>5 DEF Way, rest

\* The task ends: what it holds and what is queued is lost.
LEMMA WayBroken ==
    ASSUME NEW g \in Seq(Ids), NEW o \in Seq(Ids), NEW h \in Seq(Ids), NEW q \in Seq(Ids)
    PROVE  Thinned(Way(g, o, <<>>, <<>>), Way(g, o, h, q))
<1> DEFINE ahead == g \o o
           behind == h \o q
<1>1. ahead \in Seq(Ids) /\ h \in Seq(Ids) /\ q \in Seq(Ids)
  OBVIOUS
<1>2. ahead \o <<>> = ahead
  BY <1>1, ConcatEmptySeq
<1> HIDE DEF ahead
<1>3. (ahead \o h) \o q = ahead \o behind
  BY ONLY <1>1, Regroup, SMTT(30)
<1>4. Thinned(ahead, ahead \o behind)
  BY <1>1, ConcatProperties, ThinnedPrefix
<1> QED
  BY <1>2, <1>3, <1>4 DEF Way, ahead

\* The client goes: what its stream holds is lost.
LEMMA WayLeft ==
    ASSUME NEW g \in Seq(Ids), NEW o \in Seq(Ids), NEW h \in Seq(Ids), NEW q \in Seq(Ids)
    PROVE  Thinned(Way(g, <<>>, h, q), Way(g, o, h, q))
<1> DEFINE front == g \o o
           behind == h \o q
<1>1. front \in Seq(Ids) /\ h \in Seq(Ids) /\ q \in Seq(Ids)
  OBVIOUS
<1>2. g \o <<>> = g
  BY ConcatEmptySeq
<1>3. (g \o h) \o q = g \o behind
  BY Regroup, SMTT(30)
<1>4. behind \in Seq(Ids)
  BY ConcatProperties
<1>5. Thinned(g \o behind, front \o behind)
  BY <1>4, ThinnedMiddle
<1> HIDE DEF front
<1>6. (front \o h) \o q = front \o behind
  BY ONLY <1>1, Regroup, SMTT(30)
<1> QED
  BY <1>2, <1>3, <1>5, <1>6 DEF Way, front

-----------------------------------------------------------------------------
(* One step *)

\* The first event in the tap is one, and the rest of the tap are events.
LEMMA TapFirst ==
    ASSUME NEW s \in Seq(Event), s # <<>>
    PROVE  /\ Head(s) \in Event /\ Head(s) = s[1] /\ 1 \in DOMAIN s
           /\ Tail(s) \in Seq(Event) /\ Len(Tail(s)) = Len(s) - 1
           /\ DOMAIN s = 1..Len(s) /\ DOMAIN Tail(s) = 1..Len(s) - 1
           /\ Len(s) \in Nat
           /\ \A n \in DOMAIN Tail(s) : Tail(s)[n] = s[n + 1] /\ n + 1 \in DOMAIN s
  OBVIOUS

\* An event published goes to the end of the tap.
LEMMA TapLast ==
    ASSUME NEW s \in Seq(Event), NEW e \in Event
    PROVE  /\ Append(s, e) \in Seq(Event) /\ Append(s, e) # <<>>
           /\ Len(Append(s, e)) = Len(s) + 1
           /\ Len(s) \in Nat
           /\ DOMAIN s = 1..Len(s) /\ DOMAIN Append(s, e) = 1..Len(s) + 1
           /\ \A n \in DOMAIN s : Append(s, e)[n] = s[n]
           /\ Append(s, e)[Len(s) + 1] = e
  OBVIOUS

\* The ring after a publication: the event at its end, the oldest event gone
\* when the ring was full.
LEMMA TapPublish ==
    ASSUME TypeOK, Shapes, NEW region \in Regions, Publish(region)
    PROVE  /\ tap' \in Seq(Event) /\ Len(tap') <= TapSize
           /\ TapRising => TapRising'
<1> DEFINE e == [id |-> sent + 1, region |-> region]
           longer == Append(tap, e)
<1> USE DEF TypeOK, Shapes
<1>1. e \in Event /\ e.id = sent + 1 /\ sent \in Nat
  BY HubAssumption DEF Event
<1>2. tap' = IF Len(longer) > TapSize THEN Tail(longer) ELSE longer
  BY DEF Publish
<1>3. sent' = sent + 1 /\ event' = event
  BY DEF Publish, dispatching
<1> HIDE DEF e
<1>4. /\ longer \in Seq(Event) /\ longer # <<>> /\ Len(longer) = Len(tap) + 1
      /\ Len(tap) \in Nat /\ DOMAIN tap = 1..Len(tap) /\ DOMAIN longer = 1..Len(tap) + 1
      /\ \A n \in DOMAIN tap : longer[n] = tap[n]
      /\ longer[Len(tap) + 1] = e
  BY <1>1, TapLast
<1>5. /\ event.id \in Nat /\ TapSize \in Nat \ {0} /\ Len(tap) <= TapSize
      /\ \A n \in DOMAIN tap : tap[n].id \in Nat
  <2>1. \A n \in DOMAIN tap : tap[n] \in Event
    BY ElementOfSeq, <1>4
  <2> QED
    BY <2>1, HubAssumption DEF Event
<1> HIDE DEF longer, TypeOK, Shapes
<1>6. ASSUME TapRising
      PROVE  /\ \A n \in DOMAIN longer : event.id < longer[n].id /\ longer[n].id <= sent + 1
             /\ \A m, n \in DOMAIN longer : m < n => longer[m].id < longer[n].id
  <2>2. event.id \in Nat /\ \A n \in DOMAIN tap : tap[n].id \in Nat
    BY <1>5
  <2>3. /\ event.id <= sent
        /\ \A n \in DOMAIN tap : event.id < tap[n].id /\ tap[n].id <= sent
        /\ \A m, n \in DOMAIN tap : m < n => tap[m].id < tap[n].id
    BY <1>6 DEF TapRising
  <2>4. longer[Len(tap) + 1].id = sent + 1
    BY <1>1, <1>4
  <2>5. \A n \in DOMAIN tap : longer[n].id = tap[n].id
    BY <1>4
  <2>6. \A n \in DOMAIN longer : n \in DOMAIN tap \/ n = Len(tap) + 1
    BY <1>4
  <2>7. ASSUME NEW n \in DOMAIN longer
        PROVE  event.id < longer[n].id /\ longer[n].id <= sent + 1
    <3>1. CASE n \in DOMAIN tap
      BY <1>1, <2>2, <2>3, <2>5, <3>1
    <3>2. CASE n = Len(tap) + 1
      BY <1>1, <2>2, <2>3, <2>4, <3>2
    <3> QED
      BY <2>6, <3>1, <3>2
  <2>8. ASSUME NEW m \in DOMAIN longer, NEW n \in DOMAIN longer, m < n
        PROVE  longer[m].id < longer[n].id
    <3>1. m \in DOMAIN tap
      BY <1>4, <2>8
    <3>2. CASE n \in DOMAIN tap
      BY <2>3, <2>5, <2>8, <3>1, <3>2
    <3>3. CASE n = Len(tap) + 1
      BY <1>1, <2>2, <2>3, <2>4, <2>5, <3>1, <3>3
    <3> QED
      BY <2>6, <3>2, <3>3
  <2> QED
    BY <2>7, <2>8
<1>7. CASE Len(longer) > TapSize
  <2>1. /\ tap' = Tail(longer)
        /\ tap' \in Seq(Event) /\ Len(tap') = Len(longer) - 1
        /\ \A n \in DOMAIN tap' : tap'[n] = longer[n + 1] /\ n + 1 \in DOMAIN longer
        /\ DOMAIN tap' \subseteq Nat
    BY <1>2, <1>4, <1>7, TapFirst
  <2>2. \A m, n \in DOMAIN tap' : m < n => m + 1 < n + 1
    BY <2>1
  <2>3. TapRising => event.id <= sent
    BY DEF TapRising
  <2>5. TapRising => TapRising'
    BY <1>1, <1>3, <1>5, <1>6, <2>1, <2>2, <2>3 DEF TapRising
  <2> QED
    BY <1>4, <1>5, <1>7, <2>1, <2>5
<1>8. CASE ~(Len(longer) > TapSize)
  <2>1. tap' = longer
    BY <1>2, <1>8
  <2>2. TapRising => TapRising'
    BY <1>1, <1>3, <1>5, <1>6, <2>1 DEF TapRising
  <2> QED
    BY <1>4, <1>5, <1>8, <2>1, <2>2
<1> QED
  BY <1>7, <1>8

\* The event taken out of the tap, and what is left there.
LEMMA TapReceive ==
    ASSUME TypeOK, Shapes, TapRising, Receive
    PROVE  /\ tap' \in Seq(Event) /\ Len(tap') <= TapSize
           /\ event' \in Event /\ event'.id \in Ids /\ event.id < event'.id
           /\ TapRising'
<1> USE DEF TypeOK, Shapes
<1>1. tap # <<>> /\ event' = Head(tap) /\ tap' = Tail(tap) /\ sent' = sent
  BY DEF Receive
<1>2. /\ Head(tap) \in Event /\ Head(tap) = tap[1] /\ 1 \in DOMAIN tap
      /\ Tail(tap) \in Seq(Event) /\ Len(Tail(tap)) = Len(tap) - 1
      /\ DOMAIN tap = 1..Len(tap) /\ DOMAIN Tail(tap) = 1..Len(tap) - 1
      /\ Len(tap) \in Nat
      /\ \A n \in DOMAIN Tail(tap) : Tail(tap)[n] = tap[n + 1] /\ n + 1 \in DOMAIN tap
  BY <1>1, TapFirst
<1>3. event.id \in Nat /\ event'.id \in Nat /\ sent \in Nat /\ sent <= MaxEvents
  BY <1>1, <1>2, HubAssumption DEF Event
<1>4. event.id < event'.id /\ event'.id <= sent
  BY <1>1, <1>2 DEF TapRising
<1>5. \A n \in DOMAIN tap' : 1 < n + 1
  BY <1>1, <1>2
<1>6. \A n \in DOMAIN tap' : event'.id < tap'[n].id /\ tap'[n].id <= sent
  BY <1>1, <1>2, <1>5 DEF TapRising
<1>7. \A m, n \in DOMAIN tap' : m < n => m + 1 < n + 1
  BY <1>1, <1>2
<1>8. \A m, n \in DOMAIN tap' : m < n => tap'[m].id < tap'[n].id
  BY <1>1, <1>2, <1>7 DEF TapRising
<1>9. TapRising'
  BY <1>1, <1>4, <1>6, <1>8 DEF TapRising
<1>10. event'.id \in Ids
  BY <1>3, <1>4, HubAssumption DEF Ids
<1>11. TapSize \in Nat
  BY HubAssumption
<1> QED
  BY <1>1, <1>2, <1>4, <1>9, <1>10, <1>11

\* TypeOK is the sizes of the channels and the types given by Shapes.
LEMMA TypeParts ==
    /\ Shapes => (TypeOK <=> Sizes)
    /\ Shapes' => (TypeOK' <=> Sizes')
  BY DEF TypeOK, Sizes, Shapes, IdSeqs, Ids

\* One channel is given other contents, no longer than the bound.
LEMMA ChannelSet ==
    ASSUME NEW f \in [Clients -> Seq(Ids)], NEW bound,
           \A d \in Clients : Len(f[d]) <= bound,
           NEW c \in Clients, NEW s \in Seq(Ids), Len(s) <= bound
    PROVE  /\ [f EXCEPT ![c] = s] \in [Clients -> Seq(Ids)]
           /\ \A d \in Clients : Len([f EXCEPT ![c] = s][d]) <= bound
  OBVIOUS

\* The channels keep their types and their bounds.
LEMMA TypeStep ==
    ASSUME TypeOK, Shapes, TapRising, [Next]_vars
    PROVE  TypeOK' /\ Shapes'
<1> SUFFICES Sizes' /\ Shapes'
  BY TypeParts
<1> USE DEF Shapes, Sizes, source, dispatching, client, task
<1> USE TypeParts
<1>1. ASSUME NEW region \in Regions, Publish(region) PROVE Sizes' /\ Shapes'
  BY <1>1, TapPublish, HubAssumption, SMTT(30) DEF Publish, Ids
<1>2. CASE Receive
  BY <1>2, TapReceive DEF Receive
<1>3. CASE Dispatched
  BY <1>3 DEF Dispatched
<1>4. CASE Sweep
  BY <1>4 DEF Sweep, Swept
<1>5. ASSUME NEW c \in Clients, SeeClosed(c) PROVE Sizes' /\ Shapes'
  BY <1>5 DEF SeeClosed
<1>6. ASSUME NEW c \in Clients, PassOver(c) PROVE Sizes' /\ Shapes'
  BY <1>6 DEF PassOver
<1>7. ASSUME NEW c \in Clients, Offer(c) PROVE Sizes' /\ Shapes'
  <2>1. /\ Append(queue[c], event.id) \in Seq(Ids)
        /\ Len(Append(queue[c], event.id)) = Len(queue[c]) + 1
        /\ Len(queue[c]) \in Nat /\ Buffer \in Nat
    BY <1>7, HubAssumption DEF Offer
  <2>2. /\ queue' \in [Clients -> Seq(Ids)]
        /\ \A d \in Clients : Len(queue'[d]) <= Buffer
    BY <1>7, <2>1 DEF Offer, TrySend
  <2> QED
    BY <1>7, <2>2 DEF Offer
<1>8. ASSUME NEW c \in Clients, Subscribe(c) PROVE Sizes' /\ Shapes'
  BY <1>8 DEF Subscribe
<1>9. ASSUME NEW c \in Clients, Forward(c) PROVE Sizes' /\ Shapes'
  <2>1. /\ <<Head(queue[c])>> \in Seq(Ids) /\ Tail(queue[c]) \in Seq(Ids)
        /\ Len(<<Head(queue[c])>>) = 1 /\ Len(Tail(queue[c])) = Len(queue[c]) - 1
        /\ Len(queue[c]) \in Nat /\ Buffer \in Nat
    BY <1>9, HeadMoves, HubAssumption DEF Forward
  <2>2. held' \in [Clients -> Seq(Ids)] /\ \A d \in Clients : Len(held'[d]) <= 1
    <3>1. held' = [held EXCEPT ![c] = <<Head(queue[c])>>]
      BY <1>9 DEF Forward
    <3>2. held \in [Clients -> Seq(Ids)] /\ \A d \in Clients : Len(held[d]) <= 1
      OBVIOUS
    <3> QED
      BY <2>1, <3>1, <3>2, ChannelSet
  <2>3. queue' \in [Clients -> Seq(Ids)] /\ \A d \in Clients : Len(queue'[d]) <= Buffer
    <3>1. queue' = [queue EXCEPT ![c] = Tail(queue[c])]
      BY <1>9 DEF Forward
    <3>2. queue \in [Clients -> Seq(Ids)] /\ \A d \in Clients : Len(queue[d]) <= Buffer
      OBVIOUS
    <3>3. Len(Tail(queue[c])) <= Buffer
      BY <2>1, <3>2
    <3> QED
      BY <2>1, <3>1, <3>2, <3>3, ChannelSet
  <2> QED
    BY <1>9, <2>2, <2>3 DEF Forward
<1>10. ASSUME NEW c \in Clients, ForwardSend(c) PROVE Sizes' /\ Shapes'
  <2>1. /\ out[c] \o held[c] \in Seq(Ids) /\ <<>> \in Seq(Ids)
        /\ Len(out[c] \o held[c]) = Len(out[c]) + Len(held[c])
        /\ Len(out[c]) \in Nat /\ Len(held[c]) \in Nat /\ Len(<<>>) = 0
        /\ StreamSize \in Nat
    BY HubAssumption
  <2>2. /\ out' \in [Clients -> Seq(Ids)] /\ held' \in [Clients -> Seq(Ids)]
        /\ \A d \in Clients : Len(out'[d]) <= StreamSize /\ Len(held'[d]) <= 1
    BY <1>10, <2>1 DEF ForwardSend
  <2> QED
    BY <1>10, <2>2 DEF ForwardSend
<1>11. ASSUME NEW c \in Clients, ForwardBreak(c) PROVE Sizes' /\ Shapes'
  <2>1. <<>> \in Seq(Ids) /\ Len(<<>>) = 0 /\ Buffer \in Nat
    BY HubAssumption
  <2>2. /\ queue' \in [Clients -> Seq(Ids)] /\ held' \in [Clients -> Seq(Ids)]
        /\ \A d \in Clients : Len(queue'[d]) <= Buffer /\ Len(held'[d]) <= 1
    BY <1>11, <2>1 DEF ForwardBreak
  <2> QED
    BY <1>11, <2>2 DEF ForwardBreak
<1>12. ASSUME NEW c \in Clients, Read(c) PROVE Sizes' /\ Shapes'
  <2>1. /\ Append(got[c], Head(out[c])) \in Seq(Ids) /\ Tail(out[c]) \in Seq(Ids)
        /\ Len(Tail(out[c])) = Len(out[c]) - 1
        /\ Len(out[c]) \in Nat /\ StreamSize \in Nat
    BY <1>12, HeadMoves, AppendProperties, HubAssumption DEF Read
  <2>2. /\ out' \in [Clients -> Seq(Ids)] /\ got' \in [Clients -> Seq(Ids)]
        /\ \A d \in Clients : Len(out'[d]) <= StreamSize
    <3>1. /\ out' = [out EXCEPT ![c] = Tail(out[c])]
          /\ got' = [got EXCEPT ![c] = Append(got[c], Head(out[c]))]
      BY <1>12 DEF Read
    <3>2. out \in [Clients -> Seq(Ids)] /\ \A d \in Clients : Len(out[d]) <= StreamSize
      OBVIOUS
    <3>3. Len(Tail(out[c])) <= StreamSize
      BY <2>1, <3>2
    <3>4. out' \in [Clients -> Seq(Ids)] /\ \A d \in Clients : Len(out'[d]) <= StreamSize
      BY <2>1, <3>1, <3>2, <3>3, ChannelSet
    <3>5. got' \in [Clients -> Seq(Ids)]
      BY <2>1, <3>1
    <3> QED
      BY <3>4, <3>5
  <2> QED
    BY <1>12, <2>2 DEF Read
<1>13. ASSUME NEW c \in Clients, Leave(c) PROVE Sizes' /\ Shapes'
  <2>1. <<>> \in Seq(Ids) /\ Len(<<>>) = 0 /\ StreamSize \in Nat
    BY HubAssumption
  <2>2. /\ out' \in [Clients -> Seq(Ids)]
        /\ \A d \in Clients : Len(out'[d]) <= StreamSize
    BY <1>13, <2>1 DEF Leave
  <2> QED
    BY <1>13, <2>2 DEF Leave
<1>14. CASE UNCHANGED vars
  BY <1>14 DEF vars
<1> QED
  BY <1>1, <1>2, <1>3, <1>4, <1>5, <1>6, <1>7, <1>8, <1>9, <1>10, <1>11, <1>12, <1>13,
     <1>14 DEF Next, HubStep, TaskStep

\* A client that listens keeps its receiver, and the sweep takes only those
\* without one.
LEMMA ListenersStep ==
    ASSUME TypeOK, ListenersKept, [Next]_vars
    PROVE  ListenersKept'
<1> USE DEF ListenersKept, TypeOK, source, dispatching, client, task
<1>1. CASE \E region \in Regions : Publish(region)
  BY <1>1 DEF Publish
<1>2. CASE Receive \/ Dispatched
  BY <1>2 DEF Receive, Dispatched
<1>3. CASE Sweep
  BY <1>3 DEF Sweep, Swept
<1>4. CASE \E c \in Clients : SeeClosed(c) \/ PassOver(c) \/ Offer(c)
  BY <1>4 DEF SeeClosed, PassOver, Offer
<1>5. ASSUME NEW c \in Clients, Subscribe(c) PROVE ListenersKept'
  BY <1>5 DEF Subscribe
<1>6. CASE \E c \in Clients : Forward(c) \/ ForwardSend(c) \/ Read(c)
  BY <1>6 DEF Forward, ForwardSend, Read
<1>7. ASSUME NEW c \in Clients, ForwardBreak(c) PROVE ListenersKept'
  BY <1>7 DEF ForwardBreak
<1>8. ASSUME NEW c \in Clients, Leave(c) PROVE ListenersKept'
  BY <1>8 DEF Leave
<1>9. CASE UNCHANGED vars
  BY <1>9 DEF vars
<1> QED
  BY <1>1, <1>2, <1>3, <1>4, <1>5, <1>6, <1>7, <1>8, <1>9 DEF Next, HubStep, TaskStep

\* What is on its way to a client is a sequence of event numbers.
LEMMA PipelineSeq ==
    ASSUME Shapes, NEW c \in Clients
    PROVE  Pipeline(c) \in Seq(Ids)
  BY ConcatProperties DEF Shapes, Pipeline

\* The three things a step can do with what is on its way to a client: leave
\* it, add the event being dispatched at its end, or, once the client is gone,
\* drop part of it.
PipelineEffect(c) ==
    \/ Pipeline(c)' = Pipeline(c)
    \/ /\ hub = "dispatch" /\ c \in left /\ c \notin left' /\ event' = event
       /\ Pipeline(c)' = Append(Pipeline(c), event.id)
    \/ /\ stream'[c] = "gone" /\ event' = event /\ left' = left
       /\ Thinned(Pipeline(c)', Pipeline(c))

LEMMA PipelineStep ==
    ASSUME TypeOK, Shapes, [Next]_vars, NEW c \in Clients
    PROVE  PipelineEffect(c)
<1> USE DEF source, dispatching, client, task
<1>1. /\ queue \in [Clients -> Seq(Ids)] /\ held \in [Clients -> Seq(Ids)]
      /\ out \in [Clients -> Seq(Ids)] /\ got \in [Clients -> Seq(Ids)]
      /\ stream \in [Clients -> {"none", "open", "gone"}]
  BY DEF Shapes, TypeOK
<1>2. /\ got[c] \in Seq(Ids) /\ out[c] \in Seq(Ids)
      /\ held[c] \in Seq(Ids) /\ queue[c] \in Seq(Ids)
  BY <1>1
<1>3. /\ Pipeline(c) = Way(got[c], out[c], held[c], queue[c])
      /\ Pipeline(c)' = Way(got'[c], out'[c], held'[c], queue'[c])
  BY DEF Pipeline, Way
<1>4. ASSUME /\ queue'[c] = queue[c] /\ held'[c] = held[c]
             /\ out'[c] = out[c] /\ got'[c] = got[c]
      PROVE  PipelineEffect(c)
  BY <1>3, <1>4 DEF PipelineEffect
<1>5. CASE \E region \in Regions : Publish(region)
  BY <1>4, <1>5 DEF Publish
<1>6. CASE Receive \/ Dispatched \/ Sweep
  BY <1>4, <1>6 DEF Receive, Dispatched, Sweep
<1>7. CASE \E d \in Clients : SeeClosed(d) \/ PassOver(d) \/ Subscribe(d)
  BY <1>4, <1>7 DEF SeeClosed, PassOver, Subscribe
<1>8. CASE \E d \in Clients \ {c} : Offer(d) \/ Forward(d) \/ ForwardSend(d)
                                      \/ ForwardBreak(d) \/ Read(d) \/ Leave(d)
  BY <1>1, <1>4, <1>8 DEF Offer, TrySend, Forward, ForwardSend, ForwardBreak, Read, Leave
<1>9. CASE Offer(c)
  <2>1. CASE ~(Len(queue[c]) < Buffer)
    BY <1>1, <1>4, <1>9, <2>1 DEF Offer, TrySend
  <2>2. CASE Len(queue[c]) < Buffer
    <3>1. /\ hub = "dispatch" /\ c \in left /\ c \notin left' /\ event' = event
          /\ queue'[c] = Append(queue[c], event.id)
          /\ held' = held /\ out' = out /\ got' = got
      BY <1>1, <1>9, <2>2 DEF Offer, TrySend
    <3>2. PICK e \in Ids : e = event.id
      BY <3>1 DEF Shapes
    <3>3. PICK a, q \in Seq(Ids) :
            a = (got[c] \o out[c]) \o held[c] /\ q = queue[c]
      BY <1>2, ConcatProperties
    <3>4. a \o Append(q, e) = Append(a \o q, e)
      BY WayQueued
    <3>5. Pipeline(c)' = a \o Append(q, e) /\ Pipeline(c) = a \o q
      BY <1>3, <3>1, <3>2, <3>3 DEF Way
    <3> QED
      BY <3>1, <3>2, <3>4, <3>5 DEF PipelineEffect
  <2> QED
    BY <2>1, <2>2
<1>10. CASE Forward(c)
  <2>1. /\ queue[c] # <<>> /\ held[c] = <<>>
        /\ queue'[c] = Tail(queue[c]) /\ held'[c] = <<Head(queue[c])>>
        /\ out' = out /\ got' = got
    BY <1>1, <1>10 DEF Forward
  <2>2. Pipeline(c)' = Pipeline(c)
    BY <1>2, <1>3, <2>1, WayTaken
  <2> QED
    BY <2>2 DEF PipelineEffect
<1>11. CASE ForwardSend(c)
  <2>1. out'[c] = out[c] \o held[c] /\ held'[c] = <<>> /\ queue' = queue /\ got' = got
    BY <1>1, <1>11 DEF ForwardSend
  <2>2. Pipeline(c)' = Pipeline(c)
    BY <1>2, <1>3, <2>1, WaySent
  <2> QED
    BY <2>2 DEF PipelineEffect
<1>12. CASE ForwardBreak(c)
  <2>1. /\ queue'[c] = <<>> /\ held'[c] = <<>> /\ out' = out /\ got' = got
        /\ stream'[c] = "gone" /\ event' = event /\ left' = left
    BY <1>1, <1>12 DEF ForwardBreak
  <2>2. Thinned(Pipeline(c)', Pipeline(c))
    BY <1>2, <1>3, <2>1, WayBroken
  <2> QED
    BY <2>1, <2>2 DEF PipelineEffect
<1>13. CASE Read(c)
  <2>1. /\ out[c] # <<>> /\ got'[c] = Append(got[c], Head(out[c]))
        /\ out'[c] = Tail(out[c]) /\ held' = held /\ queue' = queue
    BY <1>1, <1>13 DEF Read
  <2>2. Pipeline(c)' = Pipeline(c)
    BY <1>2, <1>3, <2>1, WayRead
  <2> QED
    BY <2>2 DEF PipelineEffect
<1>14. CASE Leave(c)
  <2>1. /\ out'[c] = <<>> /\ held' = held /\ queue' = queue /\ got' = got
        /\ stream'[c] = "gone" /\ event' = event /\ left' = left
    BY <1>1, <1>14 DEF Leave
  <2>2. Thinned(Pipeline(c)', Pipeline(c))
    BY <1>2, <1>3, <2>1, WayLeft
  <2> QED
    BY <2>1, <2>2 DEF PipelineEffect
<1>15. CASE UNCHANGED vars
  BY <1>4, <1>15 DEF vars
<1> QED
  BY <1>5, <1>6, <1>7, <1>8, <1>9, <1>10, <1>11, <1>12, <1>13, <1>14, <1>15
     DEF Next, HubStep, TaskStep

\* The numbers on their way stay below the event being dispatched, or reach it
\* when it is queued.
LEMMA OrderStep ==
    ASSUME TypeOK, Shapes, TapRising, OfferedOnce, InOrder, [Next]_vars
    PROVE  TapRising' /\ OfferedOnce' /\ InOrder'
<1> USE DEF source, dispatching, client, task
<1>1. TapRising'
  <2>1. CASE \E region \in Regions : Publish(region)
    BY <2>1, TapPublish
  <2>2. CASE Receive
    BY <2>2, TapReceive
  <2>3. CASE ~Receive /\ ~\E region \in Regions : Publish(region)
    <3>1. sent' = sent /\ tap' = tap /\ event' = event
      BY <2>3 DEF Next, HubStep, TaskStep, Dispatched, Sweep, SeeClosed, PassOver, Offer,
         Subscribe, Forward, ForwardSend, ForwardBreak, Read, Leave, vars
    <3> QED
      BY <3>1 DEF TapRising
  <2> QED
    BY <2>1, <2>2, <2>3
<1>2. ASSUME NEW c \in Clients
      PROVE  /\ \A m, n \in DOMAIN Pipeline(c)' :
                    m < n => Pipeline(c)'[m] < Pipeline(c)'[n]
             /\ \A n \in DOMAIN Pipeline(c)' :
                    /\ Pipeline(c)'[n] <= event'.id
                    /\ c \in left' => Pipeline(c)'[n] < event'.id
  <2> DEFINE old == Pipeline(c)
             new == Pipeline(c)'
  <2>1. PipelineEffect(c)
    BY PipelineStep
  <2>2. old \in Seq(Ids)
    BY PipelineSeq
  <2>3. /\ Rising(old)
        /\ \A n \in DOMAIN old : old[n] <= event.id /\ (c \in left => old[n] < event.id)
    BY DEF InOrder, OfferedOnce, Rising
  <2> HIDE DEF old, new
  <2> SUFFICES /\ Rising(new)
               /\ \A n \in DOMAIN new :
                     new[n] <= event'.id /\ (c \in left' => new[n] < event'.id)
    BY DEF Rising, new
  <2>4. CASE new = old
    <3>1. CASE Receive
      <4>1. event.id < event'.id /\ event.id \in Nat /\ event'.id \in Nat
        BY <3>1, TapReceive DEF Shapes, Event
      <4>2. \A n \in DOMAIN old : old[n] \in Nat
        <5>1. \A n \in DOMAIN old : old[n] \in Ids
          BY <2>2
        <5> QED
          BY <5>1, HubAssumption DEF Ids
      <4> QED
        BY <2>3, <2>4, <4>1, <4>2
    <3>2. CASE ~Receive
      <4>1. event' = event /\ left' \subseteq left
        BY <3>2 DEF Next, HubStep, TaskStep, Publish, Dispatched, Sweep, SeeClosed, PassOver,
           Offer, Subscribe, Forward, ForwardSend, ForwardBreak, Read, Leave, vars
      <4> QED
        BY <2>3, <2>4, <4>1
    <3> QED
      BY <3>1, <3>2
  <2>5. CASE /\ hub = "dispatch" /\ c \in left /\ c \notin left' /\ event' = event
             /\ new = Append(old, event.id)
    <3>1. event.id \in Ids
      BY <2>5 DEF Shapes
    <3>2. /\ DOMAIN new = 1..Len(old) + 1 /\ DOMAIN old = 1..Len(old) /\ Len(old) \in Nat
          /\ \A n \in 1..Len(old) : new[n] = old[n]
          /\ new[Len(old) + 1] = event.id
      BY <2>2, <2>5, <3>1
    <3>3. Rising(new)
      BY <2>2, <2>3, <2>5, <3>1, RisingAppend
    <3>4. \A n \in DOMAIN new : n \in DOMAIN old \/ n = Len(old) + 1
      BY <3>2
    <3>5. \A n \in DOMAIN new : new[n] <= event.id
      BY <2>3, <2>5, <3>1, <3>2, <3>4 DEF Ids
    <3> QED
      BY <2>5, <3>3, <3>5
  <2>6. CASE event' = event /\ left' = left /\ Thinned(new, old)
    <3>1. Rising(new) /\ \A n \in DOMAIN new : \E m \in DOMAIN old : new[n] = old[m]
      BY <2>3, <2>6, ThinnedRising
    <3> QED
      BY <2>3, <2>6, <3>1
  <2> QED
    BY <2>1, <2>4, <2>5, <2>6 DEF PipelineEffect, old, new
<1> QED
  BY <1>1, <1>2 DEF InOrder, OfferedOnce

-----------------------------------------------------------------------------
(* Theorems *)

LEMMA HubInvHolds == Spec => []HubInv
<1>1. Init => HubInv
  <2> SUFFICES ASSUME Init PROVE HubInv
    OBVIOUS
  <2> USE DEF Init
  <2>1. Shapes
    BY HubAssumption DEF Shapes, Event
  <2>2. TypeOK
    <3>1. Sizes
      <4>1. Len(<<>>) = 0 /\ 0 <= TapSize /\ 0 <= Buffer /\ 0 <= StreamSize /\ 0 \in 0..MaxEvents
        BY HubAssumption
      <4>2. \A c \in Clients : queue[c] = <<>> /\ held[c] = <<>> /\ out[c] = <<>>
        OBVIOUS
      <4>3. \A c \in Clients :
              Len(queue[c]) <= Buffer /\ Len(held[c]) <= 1 /\ Len(out[c]) <= StreamSize
        BY <4>1, <4>2
      <4> QED
        BY <4>1, <4>3 DEF Sizes
    <3> QED
      BY <2>1, <3>1, TypeParts
  <2>3. TapRising /\ ListenersKept
    BY DEF TapRising, ListenersKept
  <2>4. ASSUME NEW c \in Clients PROVE Pipeline(c) = <<>>
    BY ConcatEmptySeq DEF Pipeline
  <2>5. InOrder /\ OfferedOnce
    BY <2>4 DEF InOrder, OfferedOnce
  <2> QED
    BY <2>1, <2>2, <2>3, <2>5 DEF HubInv
<1>2. HubInv /\ [Next]_vars => HubInv'
  BY TypeStep, ListenersStep, OrderStep DEF HubInv
<1> QED
  BY <1>1, <1>2, PTL DEF Spec

\* The channels hold events of the store, no more of them than they have room
\* for, and an event is only offered to clients that have subscribed.
THEOREM TypeCorrect == Spec => []TypeOK
<1>1. HubInv => TypeOK
  BY DEF HubInv
<1> QED
  BY <1>1, HubInvHolds, PTL

\* A client hears events in the order of publication and none twice, however
\* publication, dispatch, the forwarding tasks, the clients' reads and the loss
\* of events in the tap and in full channels fall together.
THEOREM HeardInOrder == Spec => []InOrder
<1>1. HubInv => InOrder
  BY DEF HubInv
<1> QED
  BY <1>1, HubInvHolds, PTL

\* No sweep takes the subscription of a client that still listens.
THEOREM ListenersStay == Spec => []ListenersKept
<1>1. HubInv => ListenersKept
  BY DEF HubInv
<1> QED
  BY <1>1, HubInvHolds, PTL

\* An event accepted for a client that goes on listening is not taken back and
\* keeps its place, whatever is lost behind it.
THEOREM AcceptedStay == Spec => AcceptedKept
<1>1. HubInv /\ [Next]_vars =>
        [\A c \in Clients :
            stream'[c] = "open" =>
                SubSeq(Pipeline(c)', 1, Len(Pipeline(c))) = Pipeline(c)]_vars
  <2> SUFFICES ASSUME HubInv, [Next]_vars, NEW c \in Clients, stream'[c] = "open"
               PROVE  SubSeq(Pipeline(c)', 1, Len(Pipeline(c))) = Pipeline(c)
    OBVIOUS
  <2> DEFINE old == Pipeline(c)
             new == Pipeline(c)'
  <2>1. PipelineEffect(c)
    BY PipelineStep DEF HubInv
  <2>2. old \in Seq(Ids)
    BY PipelineSeq DEF HubInv
  <2> HIDE DEF old, new
  <2>3. CASE new = old
    BY <2>2, <2>3, SubSeqFull DEF old, new
  <2>4. CASE hub = "dispatch" /\ new = Append(old, event.id)
    <3>1. PICK e \in Ids : e = event.id
      BY <2>4 DEF HubInv, Shapes
    <3>2. SubSeq(Append(old, e), 1, Len(old)) = old
      BY <2>2
    <3> QED
      BY <2>4, <3>1, <3>2 DEF old, new
  <2>5. ~(stream'[c] = "gone")
    OBVIOUS
  <2> QED
    BY <2>1, <2>3, <2>4, <2>5 DEF PipelineEffect, old, new
<1> QED
  BY <1>1, HubInvHolds, PTL DEF Spec, AcceptedKept

=============================================================================
