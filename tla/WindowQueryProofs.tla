------------------------- MODULE WindowQueryProofs -------------------------
(***************************************************************************)
(* The stream of a window query is the answer of one moment: for every     *)
(* indexer, query, workload and size of the channel.                       *)
(***************************************************************************)
EXTENDS WindowQuery, QueryPlanProofs

\* The rows of what collect has found.
RowsOf(found) == {h[2] : h \in found}

\* What the query asks for of the rows in its snapshot.
Answer == Asked \intersect UNION snap

\* Nothing is sent before the scan has ended, and its snapshot is there from
\* the scan on.
Phases ==
    /\ stream = "none" <=> pc = "call"
    /\ pc \in {"call", "plan"} => plan = {}
    /\ pc \in {"call", "plan", "begin"} => snap = {} /\ hits = {}
    /\ IsFiniteSet(hits)
    /\ pc = "begin" => left = plan
    /\ pc \in {"scan", "send"} => snap # {}
    /\ pc \notin {"send", "done"} => queue = <<>> /\ channel = <<>> /\ received = <<>>

\* The ranges scanned so far have given every row of theirs the query asks for.
ScannedExact ==
    pc = "scan" =>
        RowsOf(hits) = {i \in Items \intersect Seen : \E r \in plan \ left : Matches(r, i)}

\* No row of the answer is lost on its way, and none is made up; a stream that
\* has lost rows holds an error.
NoneLost ==
    /\ Elements(received) \subseteq Answer
    /\ pc = "send" /\ stream = "open" =>
          /\ channel \in Seq(Items)
          /\ Elements(received) \union Elements(channel) \union Elements(queue) = Answer
    /\ pc = "done" /\ stream = "open" =>
          \/ channel = <<Error>>
          \/ /\ channel \in Seq(Items) /\ snap # {}
             /\ Elements(received) \union Elements(channel) = Answer

QueryInv == TypeOK /\ Phases /\ ScannedExact /\ NoneLost

-----------------------------------------------------------------------------
(* Sequences *)

\* A row appended is an element more.
LEMMA ElementsAppend ==
    ASSUME NEW S, NEW s \in Seq(S), NEW e \in S
    PROVE  /\ Append(s, e) \in Seq(S)
           /\ Elements(Append(s, e)) = Elements(s) \union {e}
<1>1. /\ Append(s, e) \in Seq(S)
      /\ DOMAIN Append(s, e) = 1..Len(s) + 1 /\ DOMAIN s = 1..Len(s) /\ Len(s) \in Nat
      /\ \A n \in 1..Len(s) : Append(s, e)[n] = s[n]
      /\ Append(s, e)[Len(s) + 1] = e
  OBVIOUS
<1>2. ASSUME NEW x PROVE x \in Elements(Append(s, e)) <=> x \in Elements(s) \union {e}
  <2>1. ASSUME x \in Elements(Append(s, e)) PROVE x \in Elements(s) \union {e}
    <3>1. PICK n \in 1..Len(s) + 1 : x = Append(s, e)[n]
      BY <1>1, <2>1 DEF Elements
    <3>2. n \in 1..Len(s) \/ n = Len(s) + 1
      BY <1>1
    <3> QED
      BY <1>1, <3>1, <3>2 DEF Elements
  <2>2. ASSUME x \in Elements(s) \union {e} PROVE x \in Elements(Append(s, e))
    <3>1. CASE x = e
      BY <1>1, <3>1 DEF Elements
    <3>2. CASE x \in Elements(s)
      <4>1. PICK n \in 1..Len(s) : x = s[n]
        BY <1>1, <3>2 DEF Elements
      <4> QED
        BY <1>1, <4>1 DEF Elements
    <3> QED
      BY <2>2, <3>1, <3>2
  <2> QED
    BY <2>1, <2>2
<1> QED
  BY <1>1, <1>2

\* The elements of a sequence are its head and those of its tail.
LEMMA ElementsTail ==
    ASSUME NEW S, NEW s \in Seq(S), s # <<>>
    PROVE  /\ Head(s) \in S /\ Tail(s) \in Seq(S)
           /\ Elements(s) = {Head(s)} \union Elements(Tail(s))
<1>1. /\ Head(s) \in S /\ Tail(s) \in Seq(S) /\ Len(s) \in Nat \ {0}
      /\ DOMAIN s = 1..Len(s) /\ DOMAIN Tail(s) = 1..Len(s) - 1
      /\ Head(s) = s[1]
      /\ \A n \in 1..Len(s) - 1 : Tail(s)[n] = s[n + 1]
  OBVIOUS
<1>2. ASSUME NEW x PROVE x \in Elements(s) <=> x \in {Head(s)} \union Elements(Tail(s))
  <2>1. ASSUME x \in Elements(s) PROVE x \in {Head(s)} \union Elements(Tail(s))
    <3>1. PICK n \in 1..Len(s) : x = s[n]
      BY <1>1, <2>1 DEF Elements
    <3>2. CASE n = 1
      BY <1>1, <3>1, <3>2
    <3>3. CASE n # 1
      <4>1. n - 1 \in 1..Len(s) - 1 /\ (n - 1) + 1 = n
        BY <1>1, <3>3
      <4>2. x = Tail(s)[n - 1]
        BY <1>1, <3>1, <4>1
      <4> QED
        BY <1>1, <4>1, <4>2 DEF Elements
    <3> QED
      BY <3>2, <3>3
  <2>2. ASSUME x \in {Head(s)} \union Elements(Tail(s)) PROVE x \in Elements(s)
    <3>1. CASE x = Head(s)
      <4>1. 1 \in 1..Len(s)
        BY <1>1
      <4> QED
        BY <1>1, <3>1, <4>1 DEF Elements
    <3>2. CASE x \in Elements(Tail(s))
      <4>1. PICK n \in 1..Len(s) - 1 : x = Tail(s)[n]
        BY <1>1, <3>2 DEF Elements
      <4>2. n + 1 \in 1..Len(s) /\ x = s[n + 1]
        BY <1>1, <4>1
      <4> QED
        BY <1>1, <4>2 DEF Elements
    <3> QED
      BY <2>2, <3>1, <3>2
  <2> QED
    BY <2>1, <2>2
<1> QED
  BY <1>1, <1>2

LEMMA ElementsEmpty == Elements(<<>>) = {}
  BY DEF Elements
-----------------------------------------------------------------------------
(* The invariant *)

\* What a row has to be to match depends on the query alone.
LEMMA MatchesKept ==
    ASSUME query' = query, NEW r, NEW i
    PROVE  Matches(r, i)' <=> Matches(r, i)
  BY DEF Matches, Passes, InTime, InSphere

\* The plan, the query and the snapshot make the answer.
LEMMA AnswerKept ==
    ASSUME query' = query, plan' = plan
    PROVE  Asked' = Asked /\ (snap' = snap => Answer' = Answer)
  BY MatchesKept DEF Asked, Answer

\* The rows of one range are finitely many.
LEMMA RowsOfRange ==
    ASSUME NEW range, NEW S \in SUBSET Items
    PROVE  IsFiniteSet({<<range, row>> : row \in S})
<1> DEFINE T == {<<range, row>> : row \in S}
           f == [row \in S |-> <<range, row>>]
<1>1. IsFiniteSet(S)
  BY RowsAssumption, FS_Subset
<1>2. f \in Surjection(S, T)
  BY DEF Surjection
<1> QED
  BY <1>1, <1>2, FS_Surjection

LEMMA QueryInit == Init => QueryInv
<1> SUFFICES ASSUME Init PROVE QueryInv
  OBVIOUS
<1>1. <<>> \in Seq(Items) /\ <<>> \in Seq(Items \union {Error}) /\ Len(<<>>) = 0
  OBVIOUS
<1>2. TypeOK
  BY <1>1, ChannelAssumption DEF Init, TypeOK
<1> QED
  BY <1>2, ElementsEmpty, FS_EmptySet DEF Init, QueryInv, Phases, ScannedExact, NoneLost

LEMMA TypeStep == QueryInv /\ [Next]_vars => TypeOK'
<1> SUFFICES ASSUME QueryInv, [Next]_vars PROVE TypeOK'
  OBVIOUS
<1> USE DEF QueryInv
<1> DEFINE Both == Items \union {Error}
<1>a. Len(<<>>) = 0 /\ <<>> \in Seq(Items) /\ <<>> \in Seq(Both)
  OBVIOUS
<1>1. ASSUME NEW batch \in Batches, Commit(batch) PROVE TypeOK'
  <2>1. batch \subseteq Items
    BY RowsAssumption
  <2> QED
    BY <1>1, <2>1 DEF Commit, Over, TypeOK
<1>2. CASE Refuse \/ Accept \/ Plan \/ Begin \/ Fails \/ SendDone
  <2>1. CASE Refuse \/ Accept
    BY <2>1 DEF Refuse, Accept, TypeOK
  <2>2. CASE Plan
    BY <2>2 DEF Plan, Phases, TypeOK
  <2>3. CASE Begin
    BY <2>3 DEF Begin, TypeOK
  <2>4. CASE Fails \/ SendDone
    BY <2>4 DEF Fails, SendDone, TypeOK
  <2> QED
    BY <1>2, <2>1, <2>2, <2>3, <2>4
<1>3. ASSUME NEW range \in left, Scan(range) PROVE TypeOK'
  BY <1>3 DEF Scan, Seen, TypeOK
<1>4. CASE Sort
  <2>1. PICK sorted \in [1..Cardinality(hits) -> hits] :
          queue' = [n \in DOMAIN sorted |-> sorted[n][2]]
    BY <1>4 DEF Sort
  <2>2. \A h \in hits : h[2] \in Items
    BY DEF TypeOK
  <2>3. Cardinality(hits) \in Nat
    BY FS_CardinalityType DEF Phases
  <2>4. queue' \in Seq(Items)
    BY <2>1, <2>2, <2>3
  <2> QED
    BY <1>4, <2>4 DEF Sort, TypeOK
<1>5. CASE Send
  <2>1. Head(queue) \in Items /\ Tail(queue) \in Seq(Items)
    BY <1>5, ElementsTail DEF Send, TypeOK
  <2>2. channel' \in Seq(Both) /\ Len(channel') = Len(channel) + 1 /\ Len(channel) \in Nat
    BY <1>5, <2>1 DEF Send, TypeOK
  <2> QED
    BY <1>5, <2>1, <2>2, ChannelAssumption DEF Send, TypeOK
<1>6. CASE SendError
  <2>1. channel = <<>>
    BY <1>6 DEF SendError, Phases
  <2>2. channel' \in Seq(Both) /\ Len(channel') \in {0, 1}
    <3>1. Append(<<>>, Error) \in Seq(Both) /\ Len(Append(<<>>, Error)) = 1
      OBVIOUS
    <3> QED
      BY <1>6, <1>a, <2>1, <3>1 DEF SendError
  <2> QED
    BY <1>6, <2>2, ChannelAssumption DEF SendError, TypeOK
<1>7. CASE Receive
  <2>1. /\ Head(channel) \in Both /\ Tail(channel) \in Seq(Both)
        /\ Len(Tail(channel)) = Len(channel) - 1 /\ Len(channel) \in Nat
    BY <1>7 DEF Receive, TypeOK
  <2>2. received' \in Seq(Items)
    BY <1>7, <2>1, ElementsAppend DEF Receive, TypeOK
  <2> QED
    BY <1>7, <2>1, <2>2, ChannelAssumption DEF Receive, TypeOK
<1>8. CASE EndOfStream \/ Leave
  <2>1. CASE EndOfStream
    BY <2>1 DEF EndOfStream, TypeOK
  <2>2. CASE Leave
    BY <2>2, <1>a, ChannelAssumption DEF Leave, TypeOK
  <2> QED
    BY <1>8, <2>1, <2>2
<1>9. CASE UNCHANGED vars
  BY <1>9 DEF vars, TypeOK
<1> QED
  BY <1>1, <1>2, <1>3, <1>4, <1>5, <1>6, <1>7, <1>8, <1>9 DEF Next, Task, Client
LEMMA PhaseStep == QueryInv /\ [Next]_vars => Phases'
<1> SUFFICES ASSUME QueryInv, [Next]_vars PROVE Phases'
  OBVIOUS
<1> USE DEF QueryInv, Phases
<1>1. ASSUME NEW batch \in Batches, Commit(batch) PROVE Phases'
  BY <1>1 DEF Commit
<1>2. CASE Refuse \/ Accept \/ Plan
  BY <1>2 DEF Refuse, Accept, Plan
<1>3. CASE Begin \/ Fails
  BY <1>3 DEF Begin, Fails
<1>4. ASSUME NEW range \in left, Scan(range) PROVE Phases'
  <2>1. IsFiniteSet(hits')
    <3> DEFINE new == {<<range, row>> : row \in {i \in Seen : Matches(range, i)}}
    <3>1. Seen \subseteq Items
      BY DEF TypeOK, Seen
    <3>2. IsFiniteSet(new)
      BY <3>1, RowsOfRange
    <3>3. IsFiniteSet(hits \union new)
      BY <3>2, FS_Union
    <3> QED
      BY <1>4, <3>3 DEF Scan
  <2> QED
    BY <1>4, <2>1 DEF Scan
<1>5. CASE Sort \/ SendDone \/ SendError \/ Send
  BY <1>5 DEF Sort, SendDone, SendError, Send
<1>6. CASE Receive \/ EndOfStream \/ Leave
  BY <1>6 DEF Receive, EndOfStream, Leave, Error
<1>7. CASE UNCHANGED vars
  BY <1>7 DEF vars
<1> QED
  BY <1>1, <1>2, <1>3, <1>4, <1>5, <1>6, <1>7 DEF Next, Task, Client

LEMMA ScanStep == QueryInv /\ [Next]_vars => ScannedExact'
<1> SUFFICES ASSUME QueryInv, [Next]_vars, pc' = "scan"
             PROVE  RowsOf(hits)' = {i \in Items \intersect Seen' :
                                       \E r \in plan' \ left' : Matches(r, i)'}
  BY DEF ScannedExact
<1> USE DEF QueryInv
<1>1. query' = query
  BY DEF Next, Commit, Task, Refuse, Accept, Plan, Begin, Scan, Sort, Fails, Send,
     SendDone, SendError, Client, Receive, EndOfStream, Leave, vars
<1>2. CASE Begin
  <2>1. hits' = {} /\ plan' = left'
    BY <1>2 DEF Begin, Phases
  <2> QED
    BY <2>1 DEF RowsOf
<1>3. ASSUME NEW range \in left, Scan(range)
      PROVE  RowsOf(hits)' = {i \in Items \intersect Seen' :
                                \E r \in plan' \ left' : Matches(r, i)'}
  <2>1. /\ pc = "scan" /\ plan' = plan /\ Seen' = Seen /\ left' = left \ {range}
        /\ hits' = hits \union {<<range, row>> : row \in {i \in Seen : Matches(range, i)}}
    BY <1>3 DEF Scan, Seen
  <2>2. plan \ left' = (plan \ left) \union {range} /\ Seen \subseteq Items
    BY <2>1 DEF TypeOK, Seen
  <2>3. RowsOf(hits)' = RowsOf(hits) \union {i \in Seen : Matches(range, i)}
    <3> DEFINE new == {<<range, row>> : row \in {i \in Seen : Matches(range, i)}}
    <3> DEFINE rows == {i \in Seen : Matches(range, i)}
    <3>1. {h[2] : h \in new} = rows
      <4>1. ASSUME NEW i \in rows PROVE i \in {h[2] : h \in new}
        <5>1. <<range, i>> \in new /\ <<range, i>>[2] = i
          OBVIOUS
        <5> QED
          BY <5>1
      <4>2. ASSUME NEW h \in new PROVE h[2] \in rows
        <5>1. PICK i \in rows : h = <<range, i>>
          OBVIOUS
        <5> QED
          BY <5>1
      <4> HIDE DEF new, rows
      <4> QED
        BY <4>1, <4>2
    <3>2. {h[2] : h \in hits \union new} = {h[2] : h \in hits} \union {h[2] : h \in new}
      OBVIOUS
    <3> QED
      BY <2>1, <3>1, <3>2 DEF RowsOf
  <2>4. RowsOf(hits) = {i \in Items \intersect Seen : \E r \in plan \ left : Matches(r, i)}
    BY <2>1 DEF ScannedExact
  <2> QED
    BY <1>1, <2>1, <2>2, <2>3, <2>4, MatchesKept
<1>4. ASSUME pc = "scan", UNCHANGED <<plan, left, snap, hits>>
      PROVE  RowsOf(hits)' = {i \in Items \intersect Seen' :
                                \E r \in plan' \ left' : Matches(r, i)'}
  <2>1. /\ RowsOf(hits)' = RowsOf(hits) /\ Seen' = Seen
        /\ RowsOf(hits) = {i \in Items \intersect Seen : \E r \in plan \ left : Matches(r, i)}
    BY <1>4 DEF RowsOf, Seen, ScannedExact
  <2> QED
    BY <1>1, <1>4, <2>1, MatchesKept
<1>5. ASSUME NEW batch \in Batches, Commit(batch) PROVE pc = "scan" /\ UNCHANGED <<plan, left, snap, hits>>
  BY <1>5 DEF Commit
<1>6. CASE Receive \/ EndOfStream \/ Leave \/ UNCHANGED vars
  <2>1. pc = "scan" /\ UNCHANGED <<plan, left, snap, hits>>
    BY <1>6 DEF Receive, EndOfStream, Leave, vars
  <2> QED
    BY <1>4, <2>1
<1>7. ~Refuse /\ ~Accept /\ ~Plan /\ ~Sort /\ ~Fails /\ ~Send /\ ~SendDone /\ ~SendError
  BY DEF Refuse, Accept, Plan, Sort, Fails, Send, SendDone, SendError
<1> QED
  BY <1>2, <1>3, <1>4, <1>5, <1>6, <1>7 DEF Next, Task, Client
LEMMA SendStep == QueryInv /\ [Next]_vars => NoneLost'
<1> SUFFICES ASSUME QueryInv, [Next]_vars PROVE NoneLost'
  OBVIOUS
<1> USE DEF QueryInv
<1> DEFINE Both == Items \union {Error}
<1>1. ASSUME NEW batch \in Batches, Commit(batch) PROVE NoneLost'
  BY <1>1, AnswerKept DEF Commit, NoneLost, Elements
<1>2. CASE Refuse \/ Accept
  BY <1>2, AnswerKept DEF Refuse, Accept, NoneLost, Elements
<1>3. CASE Plan \/ Begin
  <2>1. received' = <<>> /\ pc' \in {"begin", "scan"}
    BY <1>3 DEF Plan, Begin, Phases
  <2> QED
    BY <2>1, ElementsEmpty DEF NoneLost, Elements
<1>4. ASSUME NEW range \in left, Scan(range) PROVE NoneLost'
  BY <1>4, AnswerKept DEF Scan, NoneLost, Elements
<1>5. CASE Sort
  <2>1. PICK sorted \in [1..Cardinality(hits) -> hits] :
          /\ {sorted[n] : n \in DOMAIN sorted} = hits
          /\ queue' = [n \in DOMAIN sorted |-> sorted[n][2]]
    BY <1>5 DEF Sort
  <2>2. Elements(queue') = RowsOf(hits)
    BY <2>1 DEF Elements, RowsOf
  <2>3. RowsOf(hits) = Answer
    BY <1>5 DEF Sort, ScannedExact, Answer, Asked, Seen
  <2>4. channel' = <<>> /\ received' = <<>> /\ Answer' = Answer /\ pc' = "send"
    BY <1>5, AnswerKept DEF Sort, Phases
  <2> QED
    BY <2>2, <2>3, <2>4, ElementsEmpty DEF NoneLost, Elements
<1>6. CASE Fails
  BY <1>6, AnswerKept DEF Fails, NoneLost, Elements
<1>7. CASE Send
  <2>1. /\ Head(queue) \in Items /\ Tail(queue) \in Seq(Items)
        /\ Elements(queue) = {Head(queue)} \union Elements(Tail(queue))
    BY <1>7, ElementsTail DEF Send, TypeOK
  <2>2. /\ channel \in Seq(Items)
        /\ Elements(received) \union Elements(channel) \union Elements(queue) = Answer
    BY <1>7 DEF Send, NoneLost
  <2>3. /\ channel' \in Seq(Items)
        /\ Elements(channel') = Elements(channel) \union {Head(queue)}
    BY <1>7, <2>1, <2>2, ElementsAppend DEF Send
  <2>4. queue' = Tail(queue) /\ received' = received /\ Answer' = Answer /\ pc' = "send"
    BY <1>7, AnswerKept DEF Send
  <2> QED
    BY <2>1, <2>2, <2>3, <2>4, ZenonT(60) DEF NoneLost, Elements
<1>8. CASE SendDone
  <2>1. /\ pc = "send" /\ pc' = "done" /\ (stream = "open" => queue = <<>>) /\ snap # {}
        /\ UNCHANGED <<channel, received, stream, snap>> /\ Answer' = Answer
    BY <1>8, AnswerKept DEF SendDone, Phases
  <2> QED
    BY <2>1, ElementsEmpty DEF NoneLost, Elements
<1>9. CASE SendError
  <2>1. /\ channel' = IF stream = "open" THEN <<Error>> ELSE channel
        /\ UNCHANGED <<received, stream>> /\ Answer' = Answer /\ pc' = "done"
    BY <1>9, AnswerKept DEF SendError, Phases
  <2> QED
    BY <2>1 DEF NoneLost, Elements
<1>10. CASE Receive
  <2>1. /\ Answer' = Answer /\ channel' = Tail(channel) /\ stream = "open"
        /\ UNCHANGED <<pc, queue, snap>> /\ channel # <<>>
    BY <1>10, AnswerKept DEF Receive
  <2>2. CASE Head(channel) = Error
    <3>1. stream' = "failed" /\ received' = received
      BY <1>10, <2>2 DEF Receive
    <3> QED
      BY <2>1, <3>1 DEF NoneLost, Elements
  <2>3. CASE Head(channel) # Error
    <3>1. received' = Append(received, Head(channel)) /\ stream' = stream
      BY <1>10, <2>3 DEF Receive
    <3>2. pc \in {"send", "done"} /\ channel # <<Error>>
      BY <2>1, <2>3 DEF Phases, TypeOK
    <3>3. channel \in Seq(Items)
      BY <2>1, <3>2 DEF NoneLost
    <3>4. /\ Head(channel) \in Items /\ Tail(channel) \in Seq(Items)
          /\ Elements(channel) = {Head(channel)} \union Elements(Tail(channel))
      BY <2>1, <3>3, ElementsTail
    <3>5. Elements(received') = Elements(received) \union {Head(channel)}
      BY <3>1, <3>4, ElementsAppend DEF TypeOK
    <3>6. Tail(channel) # <<Error>>
      <4>1. Error \notin Items
        BY RowsAssumption DEF Error
      <4>2. Error \in Elements(<<Error>>) /\ Elements(Tail(channel)) \subseteq Items
        BY <3>4 DEF Elements
      <4> QED
        BY <4>1, <4>2
    <3>7. Elements(received') \union Elements(channel')
            = Elements(received) \union Elements(channel)
      BY <2>1, <3>4, <3>5
    <3>8. Elements(received') \subseteq Answer
      BY <2>1, <3>2, <3>4, <3>5 DEF NoneLost
    <3>9. /\ UNCHANGED <<pc, stream>> /\ Answer' = Answer /\ channel' \in Seq(Items)
          /\ Elements(queue') = Elements(queue) /\ (pc = "done" => snap' # {})
      BY <2>1, <3>1, <3>2, <3>4 DEF NoneLost
    <3> QED
      BY <2>1, <3>2, <3>7, <3>8, <3>9 DEF NoneLost
  <2> QED
    BY <2>2, <2>3
<1>11. CASE EndOfStream \/ Leave
  BY <1>11, AnswerKept DEF EndOfStream, Leave, NoneLost, Elements
<1>12. CASE UNCHANGED vars
  BY <1>12, AnswerKept DEF vars, NoneLost, Elements
<1> QED
  BY <1>1, <1>2, <1>3, <1>4, <1>5, <1>6, <1>7, <1>8, <1>9, <1>10, <1>11, <1>12
  DEF Next, Task, Client

LEMMA QueryInvariant == Spec => []QueryInv
<1>1. QueryInv /\ [Next]_vars => QueryInv'
  BY TypeStep, PhaseStep, ScanStep, SendStep DEF QueryInv
<1> QED
  BY <1>1, QueryInit, PTL DEF Spec

-----------------------------------------------------------------------------
(* Theorems *)

\* Every variable keeps its type, and the channel its bound (server.rs:103-135).
THEOREM TypeCorrect == Spec => []TypeOK
<1>1. QueryInv => TypeOK
  BY DEF QueryInv
<1> QED
  BY <1>1, QueryInvariant, PTL

\* A client gets the rows its query asks for that were stored at one moment, or
\* fewer of them and an error: SnapshotQuery (store.rs:558-603,
\* server.rs:111-134).
THEOREM ImplementsSnapshot == Spec => SnapshotSpec
<1>1. Init => Snapshot!Init
  BY ElementsEmpty DEF Init, Snapshot!Init, Asked, Outcome
<1>2. QueryInv /\ [Next]_vars => [Snapshot!Next]_(Snapshot!queryVars)
  <2> SUFFICES ASSUME QueryInv, [Next]_vars
               PROVE  Snapshot!Next \/ UNCHANGED Snapshot!queryVars
    OBVIOUS
  <2> USE DEF QueryInv
  <2>a. UNCHANGED <<query, plan>> => Asked' = Asked
    BY AnswerKept
  <2>b. UNCHANGED stream => Outcome' = Outcome
    BY DEF Outcome
  <2>c. UNCHANGED received => Elements(received)' = Elements(received)
    BY DEF Elements
  <2>1. ASSUME NEW batch \in Batches, Commit(batch) PROVE Snapshot!Write(batch)
    BY <2>1, <2>a, <2>b, <2>c DEF Commit, Over, Snapshot!Write, Snapshot!Over
  <2>2. CASE Refuse
    BY <2>2, <2>a, <2>c DEF Refuse, Phases, Outcome, Snapshot!Fail, Snapshot!Next
  <2>3. CASE Accept
    <3>1. Outcome' = Outcome
      BY <2>3 DEF Accept, Phases, Outcome
    <3> QED
      BY <2>3, <3>1, <2>a, <2>c DEF Accept, Snapshot!queryVars
  <2>4. CASE Plan
    <3>1. snap = {} /\ snap' = {} /\ Asked = {} /\ Asked' \in SUBSET Items
      BY <2>4 DEF Plan, Phases, Asked
    <3> QED
      BY <2>4, <3>1, <2>b, <2>c DEF Plan, Snapshot!Ask, Snapshot!Next
  <2>5. CASE Begin
    <3>1. snap = {} /\ snap' = {tree} /\ UNION snap' = tree
      BY <2>5 DEF Begin, Phases
    <3> QED
      BY <2>5, <3>1, <2>a, <2>b, <2>c DEF Begin, Snapshot!Take, Snapshot!Next
  <2>6. ASSUME NEW range \in left, Scan(range) PROVE UNCHANGED Snapshot!queryVars
    BY <2>6, <2>a, <2>b, <2>c DEF Scan, Snapshot!queryVars
  <2>7. CASE Sort \/ Fails \/ Send \/ SendDone \/ SendError
    BY <2>7, <2>a, <2>b, <2>c DEF Sort, Fails, Send, SendDone, SendError,
       Snapshot!queryVars
  <2>8. CASE Receive
    <3>1. UNCHANGED <<query, plan, snap, tree>> /\ stream = "open" /\ channel # <<>>
      BY <2>8 DEF Receive
    <3>2. CASE Head(channel) = Error
      BY <2>8, <3>1, <3>2, <2>a, <2>c DEF Receive, Outcome, Snapshot!Fail,
         Snapshot!Next
    <3>3. CASE Head(channel) # Error
      <4>1. received' = Append(received, Head(channel)) /\ stream' = stream
        BY <2>8, <3>3 DEF Receive
      <4>2. pc \in {"send", "done"} /\ channel # <<Error>>
        BY <3>1, <3>3 DEF Phases, TypeOK
      <4>3. channel \in Seq(Items) /\ snap # {}
        BY <3>1, <4>2 DEF NoneLost, Phases
      <4>4. Elements(received') = Elements(received) \union {Head(channel)}
        BY <3>1, <4>1, <4>3, ElementsTail, ElementsAppend DEF TypeOK
      <4>5. NoneLost' /\ Answer' = Answer
        BY <3>1, SendStep, AnswerKept
      <4>6. Elements(received') \subseteq Answer
        BY <4>5 DEF NoneLost, Elements
      <4> QED
        BY <3>1, <4>1, <4>3, <4>4, <4>6, <2>a, <2>b
        DEF Outcome, Answer, Snapshot!Show, Snapshot!Next
    <3> QED
      BY <3>2, <3>3
  <2>9. CASE EndOfStream
    <3>1. /\ stream = "open" /\ channel = <<>> /\ pc = "done" /\ stream' = "ended"
          /\ UNCHANGED <<query, plan, snap, tree, received>>
      BY <2>9 DEF EndOfStream
    <3>2. snap # {} /\ Elements(received) = Answer
      BY <3>1, ElementsEmpty DEF NoneLost
    <3> QED
      BY <3>1, <3>2, <2>a, <2>c DEF Outcome, Answer, Snapshot!Complete,
         Snapshot!Next
  <2>10. CASE Leave
    BY <2>10, <2>a, <2>c DEF Leave, Outcome, Snapshot!Fail, Snapshot!Next
  <2>11. CASE UNCHANGED vars
    BY <2>11, <2>a, <2>b, <2>c DEF vars, Snapshot!queryVars
  <2> QED
    BY <2>1, <2>2, <2>3, <2>4, <2>5, <2>6, <2>7, <2>8, <2>9, <2>10, <2>11
    DEF Next, Task, Client, Snapshot!Next
<1> QED
  BY <1>1, <1>2, QueryInvariant, PTL DEF Spec, SnapshotSpec, Snapshot!Spec
-----------------------------------------------------------------------------
(* The order of arrival *)

NotAfter(i, j) ==
    \/ Place[i].secs < Place[j].secs
    \/ Place[i].secs = Place[j].secs /\ Place[i].tick <= Place[j].tick
Ordered(s) == \A m, n \in DOMAIN s : m < n => NotAfter(s[m], s[n])
Follows(s, t) == \A i \in Elements(s), j \in Elements(t) : NotAfter(i, j)

\* What the client has, what is on its way and what is still to be sent are in
\* order, one after the other.
Sorted ==
    /\ Ordered(received)
    /\ stream = "open" /\ pc \in {"send", "done"} /\ channel \in Seq(Items) =>
          /\ Ordered(channel) /\ Follows(received, channel)
          /\ pc = "send" => Ordered(queue) /\ Follows(received, queue) /\ Follows(channel, queue)

\* Appending a row after all others, and taking the first one off.
LEMMA OrderedAppend ==
    ASSUME NEW S, NEW s \in Seq(S), NEW e \in S, Ordered(s),
           \A i \in Elements(s) : NotAfter(i, e)
    PROVE  Ordered(Append(s, e))
<1>1. /\ DOMAIN Append(s, e) = 1..Len(s) + 1 /\ DOMAIN s = 1..Len(s) /\ Len(s) \in Nat
      /\ \A n \in 1..Len(s) : Append(s, e)[n] = s[n]
      /\ Append(s, e)[Len(s) + 1] = e
  OBVIOUS
<1> SUFFICES ASSUME NEW m \in 1..Len(s) + 1, NEW n \in 1..Len(s) + 1, m < n
             PROVE  NotAfter(Append(s, e)[m], Append(s, e)[n])
  BY <1>1 DEF Ordered
<1>2. m \in 1..Len(s) /\ Append(s, e)[m] = s[m]
  BY <1>1
<1>3. CASE n = Len(s) + 1
  BY <1>1, <1>2, <1>3 DEF Elements
<1>4. CASE n # Len(s) + 1
  <2>1. n \in 1..Len(s) /\ Append(s, e)[n] = s[n]
    BY <1>1, <1>4
  <2> QED
    BY <1>1, <1>2, <2>1 DEF Ordered
<1> QED
  BY <1>3, <1>4

LEMMA OrderedTail ==
    ASSUME NEW S, NEW s \in Seq(S), s # <<>>, Ordered(s)
    PROVE  /\ Ordered(Tail(s))
           /\ \A j \in Elements(Tail(s)) : NotAfter(Head(s), j)
<1>1. /\ Len(s) \in Nat \ {0} /\ DOMAIN s = 1..Len(s) /\ DOMAIN Tail(s) = 1..Len(s) - 1
      /\ Head(s) = s[1]
      /\ \A n \in 1..Len(s) - 1 : Tail(s)[n] = s[n + 1]
  OBVIOUS
<1>2. ASSUME NEW m \in 1..Len(s) - 1, NEW n \in 1..Len(s) - 1, m < n
      PROVE  NotAfter(Tail(s)[m], Tail(s)[n])
  <2>1. m + 1 \in 1..Len(s) /\ n + 1 \in 1..Len(s) /\ m + 1 < n + 1
    BY <1>1, <1>2
  <2> QED
    BY <1>1, <2>1 DEF Ordered
<1>3. ASSUME NEW n \in 1..Len(s) - 1 PROVE NotAfter(Head(s), Tail(s)[n])
  <2>1. 1 \in 1..Len(s) /\ n + 1 \in 1..Len(s) /\ 1 < n + 1
    BY <1>1
  <2> QED
    BY <1>1, <2>1 DEF Ordered
<1> QED
  BY <1>1, <1>2, <1>3 DEF Ordered, Elements

LEMMA OrderedEmpty == Ordered(<<>>) /\ \A s : Follows(<<>>, s) /\ Follows(s, <<>>)
  BY ElementsEmpty DEF Ordered, Follows

\* Where a row was made in its second is a number.
LEMMA TickOfPlace ==
    ASSUME NEW i \in Items
    PROVE  Place[i].tick \in Nat
<1>1. i[1].epoch \in Nat /\ i[1].offset \in Nat /\ EpochSecs \in Nat /\ Ticks \in Nat \ {0}
  BY RowsAssumption, IndexerAssumption
<1>2. i[1].epoch * EpochSecs * Ticks + i[1].offset \in Nat
  BY <1>1
<1> QED
  BY <1>1, <1>2 DEF Place, DecodeKey

\* Rows sorted are in the order of the places they decode to.
LEMMA InOrderIsNotAfter ==
    ASSUME NEW g, NEW h, g[2] \in Items, h[2] \in Items, InOrder(g, h)
    PROVE  NotAfter(g[2], h[2])
  BY TickOfPlace DEF InOrder, NotAfter

LEMMA OrderStep == QueryInv /\ Sorted /\ [Next]_vars => Sorted'
<1> SUFFICES ASSUME QueryInv, Sorted, [Next]_vars PROVE Sorted'
  OBVIOUS
<1> USE DEF QueryInv
<1>1. ASSUME NEW batch \in Batches, Commit(batch) PROVE Sorted'
  BY <1>1 DEF Commit, Sorted, Ordered, Follows, Elements
<1>2. CASE Refuse \/ Accept
  BY <1>2 DEF Refuse, Accept, Sorted, Ordered
<1>3. CASE Plan \/ Begin \/ Fails
  BY <1>3 DEF Plan, Begin, Fails, Sorted, Ordered
<1>4. ASSUME NEW range \in left, Scan(range) PROVE Sorted'
  BY <1>4 DEF Scan, Sorted, Ordered
<1>5. CASE Sort
  <2>1. PICK sorted \in [1..Cardinality(hits) -> hits] :
          /\ \A m, n \in DOMAIN sorted : m < n => InOrder(sorted[m], sorted[n])
          /\ queue' = [n \in DOMAIN sorted |-> sorted[n][2]]
    BY <1>5 DEF Sort
  <2>2. \A h \in hits : h[2] \in Items
    BY DEF TypeOK
  <2>3. ASSUME NEW m \in DOMAIN queue', NEW n \in DOMAIN queue', m < n
        PROVE  NotAfter(queue'[m], queue'[n])
    <3>1. /\ m \in DOMAIN sorted /\ n \in DOMAIN sorted
          /\ queue'[m] = sorted[m][2] /\ queue'[n] = sorted[n][2]
      BY <2>1
    <3>2. InOrder(sorted[m], sorted[n]) /\ sorted[m][2] \in Items /\ sorted[n][2] \in Items
      BY <2>1, <2>2, <2>3, <3>1
    <3> QED
      BY <3>1, <3>2, InOrderIsNotAfter
  <2>4. Ordered(queue)'
    BY <2>3 DEF Ordered
  <2>5. channel' = <<>> /\ received' = <<>> /\ pc' = "send"
    BY <1>5 DEF Sort, Phases
  <2> QED
    BY <2>4, <2>5, OrderedEmpty DEF Sorted, Follows, Elements, Ordered
<1>6. CASE Send
  <2>1. /\ pc = "send" /\ queue # <<>> /\ stream = "open" /\ queue' = Tail(queue)
        /\ channel' = Append(channel, Head(queue))
        /\ received' = received /\ pc' = "send" /\ queue \in Seq(Items)
    BY <1>6 DEF Send, TypeOK
  <2>2. channel \in Seq(Items)
    BY <2>1 DEF NoneLost
  <2>3. /\ Ordered(received) /\ Ordered(channel) /\ Ordered(queue)
        /\ Follows(received, channel) /\ Follows(received, queue) /\ Follows(channel, queue)
    BY <2>1, <2>2 DEF Sorted
  <2>4. /\ Head(queue) \in Items /\ Tail(queue) \in Seq(Items)
        /\ Elements(queue) = {Head(queue)} \union Elements(Tail(queue))
    BY <2>1, ElementsTail
  <2>5. /\ Ordered(Tail(queue)) /\ \A j \in Elements(Tail(queue)) : NotAfter(Head(queue), j)
    BY <2>1, <2>3, OrderedTail
  <2>6. Elements(channel') = Elements(channel) \union {Head(queue)}
    BY <2>1, <2>2, <2>4, ElementsAppend
  <2>7. Ordered(channel')
    <3>1. \A i \in Elements(channel) : NotAfter(i, Head(queue))
      BY <2>3, <2>4 DEF Follows
    <3> QED
      BY <2>1, <2>2, <2>3, <2>4, <3>1, OrderedAppend
  <2>8. /\ Follows(received, channel') /\ Follows(received, Tail(queue))
        /\ Follows(channel', Tail(queue))
    BY <2>3, <2>4, <2>5, <2>6 DEF Follows
  <2>9. Ordered(received') /\ Ordered(queue')
    BY <2>1, <2>3, <2>5
  <2>10. Follows(received', channel') /\ Follows(received', queue') /\ Follows(channel', queue')
    BY <2>1, <2>8
  <2> QED
    BY <2>7, <2>9, <2>10 DEF Sorted, Ordered, Follows, Elements
<1>7. CASE SendDone
  BY <1>7 DEF SendDone, Sorted, Ordered, Follows, Elements
<1>8. CASE SendError
  <2>1. channel' = IF stream = "open" THEN <<Error>> ELSE channel
    BY <1>8 DEF SendError, Phases
  <2>2. <<Error>> \notin Seq(Items)
    <3>1. Error \notin Items
      BY RowsAssumption DEF Error
    <3>2. ASSUME <<Error>> \in Seq(Items) PROVE FALSE
      <4>1. Len(<<Error>>) = 1 /\ <<Error>>[1] = Error
        OBVIOUS
      <4>2. <<Error>>[1] \in Items
        BY <3>2, <4>1
      <4> QED
        BY <3>1, <4>1, <4>2
    <3> QED
      BY <3>2
  <2> QED
    BY <1>8, <2>1, <2>2 DEF SendError, Sorted, Ordered
<1>9. CASE Receive
  <2>1. /\ channel' = Tail(channel) /\ stream = "open" /\ channel # <<>>
        /\ UNCHANGED <<pc, queue>>
    BY <1>9 DEF Receive
  <2>2. CASE Head(channel) = Error
    <3>1. stream' = "failed" /\ received' = received
      BY <1>9, <2>2 DEF Receive
    <3> QED
      BY <3>1 DEF Sorted, Ordered
  <2>3. CASE Head(channel) # Error
    <3>1. received' = Append(received, Head(channel)) /\ stream' = stream
      BY <1>9, <2>3 DEF Receive
    <3>2. pc \in {"send", "done"} /\ channel # <<Error>>
      BY <2>1, <2>3 DEF Phases, TypeOK
    <3>3. channel \in Seq(Items) /\ received \in Seq(Items)
      BY <2>1, <3>2 DEF NoneLost, TypeOK
    <3>4. /\ Head(channel) \in Items /\ Tail(channel) \in Seq(Items)
          /\ Elements(channel) = {Head(channel)} \union Elements(Tail(channel))
      BY <2>1, <3>3, ElementsTail
    <3>5. Elements(received') = Elements(received) \union {Head(channel)}
      BY <3>1, <3>3, <3>4, ElementsAppend
    <3>6. /\ Ordered(received) /\ Ordered(channel) /\ Follows(received, channel)
          /\ pc = "send" => Ordered(queue) /\ Follows(received, queue) /\ Follows(channel, queue)
      BY <2>1, <3>2, <3>3 DEF Sorted
    <3>7. Ordered(Tail(channel)) /\ \A j \in Elements(Tail(channel)) : NotAfter(Head(channel), j)
      BY <2>1, <3>3, <3>6, OrderedTail
    <3>8. Ordered(received')
      <4>1. \A i \in Elements(received) : NotAfter(i, Head(channel))
        BY <3>4, <3>6 DEF Follows
      <4> QED
        BY <3>1, <3>3, <3>4, <3>6, <4>1, OrderedAppend
    <3>9. Follows(received', Tail(channel))
      BY <3>4, <3>5, <3>6, <3>7 DEF Follows
    <3>10. pc = "send" => Follows(received', queue) /\ Follows(Tail(channel), queue)
      BY <3>4, <3>5, <3>6 DEF Follows
    <3>11. /\ Ordered(channel') /\ Follows(received', channel')
           /\ pc' = "send" => Ordered(queue') /\ Follows(received', queue')
                              /\ Follows(channel', queue')
      BY <2>1, <3>6, <3>7, <3>9, <3>10
    <3> QED
      BY <3>8, <3>11 DEF Sorted, Ordered, Follows, Elements
  <2> QED
    BY <2>2, <2>3
<1>10. CASE EndOfStream \/ Leave
  BY <1>10 DEF EndOfStream, Leave, Sorted, Ordered
<1>11. CASE UNCHANGED vars
  BY <1>11 DEF vars, Sorted, Ordered, Follows, Elements
<1> QED
  BY <1>1, <1>2, <1>3, <1>4, <1>5, <1>6, <1>7, <1>8, <1>9, <1>10, <1>11
  DEF Next, Task, Client

\* Rows arrive in chronological order, however the channel fills and whenever
\* the client leaves (store.rs:593-601, server.rs:120-134).
THEOREM ArrivesInOrder == Spec => []Chronological
<1>1. Init => Sorted
  BY OrderedEmpty DEF Init, Sorted
<1>2. Sorted => Chronological
  BY DEF Sorted, Ordered, NotAfter, Chronological
<1> QED
  BY <1>1, <1>2, OrderStep, QueryInvariant, PTL DEF Spec

-----------------------------------------------------------------------------
(* The plan a query is answered with *)

\* The plan is that of the query from the step that makes it on.
PlanMade ==
    /\ query \in Queries
    /\ plan \in {{}, WindowRanges(query)}
    /\ pc = "begin" => plan = WindowRanges(query)

LEMMA PlanStep == PlanMade /\ [Next]_vars => PlanMade'
<1> SUFFICES ASSUME PlanMade, [Next]_vars PROVE PlanMade'
  OBVIOUS
<1> USE DEF PlanMade
<1>1. ASSUME NEW batch \in Batches, Commit(batch) PROVE PlanMade'
  BY <1>1 DEF Commit
<1>2. CASE Refuse
  BY <1>2 DEF Refuse
<1>3. CASE Accept
  BY <1>3 DEF Accept
<1>4. CASE Plan
  BY <1>4 DEF Plan
<1>5. CASE Begin
  BY <1>5 DEF Begin
<1>6. ASSUME NEW range \in left, Scan(range) PROVE PlanMade'
  BY <1>6 DEF Scan
<1>7. CASE Sort
  BY <1>7 DEF Sort
<1>8. CASE Fails
  BY <1>8 DEF Fails
<1>9. CASE Send
  BY <1>9 DEF Send
<1>10. CASE SendDone
  BY <1>10 DEF SendDone
<1>11. CASE SendError
  BY <1>11 DEF SendError
<1>12. CASE Receive
  BY <1>12 DEF Receive
<1>13. CASE EndOfStream
  BY <1>13 DEF EndOfStream
<1>14. CASE Leave
  BY <1>14 DEF Leave
<1>15. CASE UNCHANGED vars
  BY <1>15 DEF vars
<1> QED
  BY <1>1, <1>2, <1>3, <1>4, <1>5, <1>6, <1>7, <1>8, <1>9, <1>10, <1>11, <1>12,
     <1>13, <1>14, <1>15 DEF Next, Task, Client

LEMMA PlanInvariant == Spec => []PlanMade
<1>1. Init => PlanMade
  BY DEF Init, PlanMade
<1> QED
  BY <1>1, PlanStep, PTL DEF Spec

LEMMA AskedTyped == PlanMade => QueryTyped(query)
BY QueriesAssumption DEF PlanMade, QueryTyped

\* Squares of what is no further from nought are no larger.
LEMMA Squares ==
    \A b \in Nat, a \in Int : -b <= a /\ a <= b => a * a <= b * b
<1>1. SUFFICES ASSUME NEW b \in Nat, NEW a \in Int, -b <= a, a <= b
               PROVE  a * a <= b * b
  OBVIOUS
<1>2. b - a \in Nat /\ b + a \in Nat
  BY <1>1
<1>3. (b - a) * (b + a) >= 0
  BY <1>2
<1>4. b * b - a * a = (b - a) * (b + a)
  OBVIOUS
<1> QED
  BY <1>3, <1>4

\* How far from c a coordinate is kept is between its distances with the slack
\* taken off and added.
LEMMA KeptDistance ==
    ASSUME NEW v \in Int, NEW c \in Int
    PROVE  /\ Distance(v, c, 1) \in Nat /\ Distance(v, c, -1) \in Nat
           /\ LET e == Denormalize(Normalize(v)) - c
              IN /\ e \in Int
                 /\ e * e <= Distance(v, c, 1) * Distance(v, c, 1)
                 /\ Distance(v, c, -1) * Distance(v, c, -1) <= e * e
<1> DEFINE u == Clamp(v)
           g == Denormalize(Normalize(v))
           h == Slack(v)
           e == g - c
           near == Distance(v, c, -1)
           far == Distance(v, c, 1)
<1>1. u \in Int /\ g \in Int /\ h \in Nat /\ -h <= g - u /\ g - u <= h
  BY Rounding DEF Slack
<1>2. /\ far = LET d == IF u < c THEN c - u ELSE u - c
               IN IF d + 1 * h < 0 THEN 0 ELSE d + 1 * h
      /\ near = LET d == IF u < c THEN c - u ELSE u - c
                IN IF d + (-1) * h < 0 THEN 0 ELSE d + (-1) * h
  BY DEF Distance
<1> HIDE DEF u, g, h, near, far
<1>3. 1 * h = h /\ (-1) * h = -h
  BY <1>1
<1>4. e \in Int /\ near \in Nat /\ far \in Nat /\ -far <= e /\ e <= far
  BY <1>1, <1>2, <1>3
<1>5. near <= e \/ near <= -e \/ near = 0
  BY <1>1, <1>2, <1>3
<1>6. e * e <= far * far
  <2> HIDE DEF e
  <2> QED
    BY <1>4, Squares
<1>7. near * near <= e * e
  <2> HIDE DEF e
  <2>1. CASE near <= e \/ near = 0
    <3>1. CASE near = 0
      <4>1. near * near = 0 /\ e * e >= 0
        BY <1>4, <3>1
      <4> QED
        BY <4>1
    <3>2. CASE near <= e
      <4>1. e \in Nat /\ -e <= near
        BY <1>4, <3>2
      <4> QED
        BY <1>4, <3>2, <4>1, Squares
    <3> QED
      BY <2>1, <3>1, <3>2
  <2>2. CASE near <= -e
    <3> DEFINE b == -e
    <3>1. b \in Nat /\ -b <= near /\ near <= b /\ near \in Int
      BY <1>4, <2>2
    <3>2. b * b = e * e
      BY <1>4
    <3> HIDE DEF b
    <3> QED
      BY <3>1, <3>2, Squares
  <2> QED
    BY <1>5, <2>1, <2>2
<1> QED
  BY <1>4, <1>6, <1>7 DEF e, g, near, far

\* Where a key is kept is in the sphere if its observation is deep in it, and
\* only if its observation is near it.
LEMMA KeptInSphere ==
    ASSUME NEW q, QueryTyped(q), NEW p \in Observations
    PROVE  /\ Within(p, q, 1) => InSphere(DecodeKey(KeyOf[p]), q)
           /\ InSphere(DecodeKey(KeyOf[p]), q) => Within(p, q, -1)
<1> DEFINE o == DecodeKey(KeyOf[p])
           cx == q.centre[1]
           cy == q.centre[2]
           cz == q.centre[3]
           R == q.radius * q.radius
<1>1. /\ p.x \in Int /\ p.y \in Int /\ p.z \in Int
      /\ cx \in Int /\ cy \in Int /\ cz \in Int /\ R \in Int
  BY ObservationParts DEF QueryTyped
<1> DEFINE kx == Denormalize(Normalize(p.x)) - cx
           ky == Denormalize(Normalize(p.y)) - cy
           kz == Denormalize(Normalize(p.z)) - cz
           fx == Distance(p.x, cx, 1)
           fy == Distance(p.y, cy, 1)
           fz == Distance(p.z, cz, 1)
           nx == Distance(p.x, cx, -1)
           ny == Distance(p.y, cy, -1)
           nz == Distance(p.z, cz, -1)
<1>2. o = [x |-> Denormalize(Normalize(p.x)), y |-> Denormalize(Normalize(p.y)),
           z |-> Denormalize(Normalize(p.z)), secs |-> p.secs, tick |-> p.tick]
  BY DecodeBack
<1> HIDE DEF o
<1>3. InSphere(o, q) <=> kx * kx + ky * ky + kz * kz <= R
  BY <1>2 DEF InSphere
<1>4. /\ Within(p, q, 1) <=> fx * fx + fy * fy + fz * fz <= R
      /\ Within(p, q, -1) <=> nx * nx + ny * ny + nz * nz <= R
  BY DEF Within
<1> HIDE DEF cx, cy, cz, R
<1>5. /\ kx \in Int /\ fx \in Nat /\ nx \in Nat /\ kx * kx <= fx * fx /\ nx * nx <= kx * kx
      /\ ky \in Int /\ fy \in Nat /\ ny \in Nat /\ ky * ky <= fy * fy /\ ny * ny <= ky * ky
      /\ kz \in Int /\ fz \in Nat /\ nz \in Nat /\ kz * kz <= fz * fz /\ nz * nz <= kz * kz
  BY <1>1, KeptDistance
<1> DEFINE K == kx * kx + ky * ky + kz * kz
           F == fx * fx + fy * fy + fz * fz
           N == nx * nx + ny * ny + nz * nz
<1> HIDE DEF kx, ky, kz, fx, fy, fz, nx, ny, nz
<1>6. K \in Int /\ F \in Int /\ N \in Int /\ N <= K /\ K <= F
  <2> DEFINE k1 == kx * kx
             k2 == ky * ky
             k3 == kz * kz
             f1 == fx * fx
             f2 == fy * fy
             f3 == fz * fz
             n1 == nx * nx
             n2 == ny * ny
             n3 == nz * nz
  <2>1. /\ k1 \in Int /\ k2 \in Int /\ k3 \in Int /\ f1 \in Int /\ f2 \in Int
        /\ f3 \in Int /\ n1 \in Int /\ n2 \in Int /\ n3 \in Int
    BY <1>5
  <2>2. k1 <= f1 /\ k2 <= f2 /\ k3 <= f3 /\ n1 <= k1 /\ n2 <= k2 /\ n3 <= k3
    BY <1>5
  <2> HIDE DEF k1, k2, k3, f1, f2, f3, n1, n2, n3
  <2>3. /\ k1 + k2 + k3 \in Int /\ f1 + f2 + f3 \in Int /\ n1 + n2 + n3 \in Int
        /\ n1 + n2 + n3 <= k1 + k2 + k3 /\ k1 + k2 + k3 <= f1 + f2 + f3
    BY <2>1, <2>2
  <2> QED
    BY <2>3 DEF k1, k2, k3, f1, f2, f3, n1, n2, n3
<1> HIDE DEF K, F, N
<1>7. /\ InSphere(o, q) <=> K <= R
      /\ Within(p, q, 1) <=> F <= R
      /\ Within(p, q, -1) <=> N <= R
  BY <1>3, <1>4 DEF K, F, N
<1>8. /\ Within(p, q, 1) => InSphere(o, q)
      /\ InSphere(o, q) => Within(p, q, -1)
  BY <1>1, <1>6, <1>7
<1> QED
  BY <1>8 DEF o

\* The scan finds every observation of the window, on the grid or off it and
\* however cell and epoch boundaries cut the window, but those after the first
\* tick of its last second at the last code of a cell, and those within half a
\* grid step of the sphere's surface, where rounding decides; and it finds no
\* other (lib.rs:28-41, lib.rs:217-298, store.rs:558-603).
THEOREM WindowIsCovered == Spec => []WindowCovered
<1>1. PlanMade => WindowCovered
  <2> SUFFICES ASSUME PlanMade, pc = "begin", NEW p \in Observations
               PROVE  /\ DeepIn(p) => Found(p) \/ LastCorner(p)
                      /\ Found(p) => Near(p)
    BY DEF WindowCovered, Planned
  <2> DEFINE o == DecodeKey(KeyOf[p])
  <2>1. QueryTyped(query) /\ plan = WindowRanges(query)
    BY AskedTyped DEF PlanMade
  <2>2. o.secs = p.secs
    BY KeptCode
  <2>3. /\ Within(p, query, 1) => InSphere(o, query)
        /\ InSphere(o, query) => Within(p, query, -1)
    BY <2>1, KeptInSphere
  <2>4. InTime(o, query) <=> InTime(p, query)
    BY <2>2 DEF InTime
  <2>5. ASSUME DeepIn(p) PROVE Found(p) \/ LastCorner(p)
    <3>1. InTime(p, query) /\ InSphere(o, query) /\ Passes(o)
      BY <2>3, <2>4, <2>5 DEF DeepIn, Passes
    <3>2. PICK r \in plan : InRange(KeyOf[p], r) \/ CutOff(p, query, r)
      BY <2>1, <3>1, RangesCover
    <3>3. CASE InRange(KeyOf[p], r)
      BY <3>1, <3>3 DEF Found
    <3>4. CASE CutOff(p, query, r)
      BY <3>4 DEF CutOff, LastCorner
    <3> QED
      BY <3>2, <3>3, <3>4
  <2>6. Found(p) => Near(p)
    BY <2>3, <2>4 DEF Found, Near, Passes
  <2> QED
    BY <2>5, <2>6
<1> QED
  BY <1>1, PlanInvariant, PTL

\* No observation is in two ranges of a plan, so that none is returned twice
\* (lib.rs:217-298).
THEOREM NoneIsTwice == Spec => []NoneTwice
<1>1. PlanMade => NoneTwice
  <2> SUFFICES ASSUME PlanMade, pc = "begin", NEW p \in Observations
               PROVE  Cardinality({r \in plan : InRange(KeyOf[p], r)}) <= 1
    BY DEF NoneTwice, Planned
  <2>1. QueryTyped(query) /\ plan = WindowRanges(query)
    BY AskedTyped DEF PlanMade
  <2> QED
    BY <2>1, RangesApart
<1> QED
  BY <1>1, PlanInvariant, PTL

\* A query touches at most eight cells of each epoch, wherever its sphere lies
\* and whatever clamping and rounding do to its ends (lib.rs:113-175, 217-298).
THEOREM FanOutIsBounded == Spec => []FanOut
<1>1. PlanMade => FanOut
  <2> SUFFICES ASSUME PlanMade, NEW x \in plan
               PROVE  Cardinality({r \in plan : r.first.epoch = x.first.epoch}) \in 1..8
    BY DEF FanOut
  <2> DEFINE e == x.first.epoch
             S == {r \in plan : r.first.epoch = e}
  <2>1. QueryTyped(query) /\ plan = WindowRanges(query)
    BY AskedTyped DEF PlanMade
  <2>2. Few(S, 8)
    BY <2>1, RangesFew
  <2>3. x \in S
    OBVIOUS
  <2> HIDE DEF S
  <2>4. Cardinality(S) # 0
    BY <2>2, <2>3, FS_EmptySet DEF Few
  <2>5. Cardinality(S) \in 1..8
    BY <2>2, <2>4 DEF Few
  <2> QED
    BY <2>5 DEF S
<1> QED
  BY <1>1, PlanInvariant, PTL

\* The single-epoch plan of the browser client holds every observation of its
\* epoch in the sphere where it was made, the last tick and code included
\* (lib.rs:177-215).
THEOREM EpochIsCovered == Spec => []EpochCovered
<1>1. PlanMade => EpochCovered
  <2> SUFFICES ASSUME PlanMade, NEW p \in Observations,
                      p.secs \div EpochSecs = query.start \div EpochSecs,
                      InSphere(p, query)
               PROVE  \E r \in EpochRanges(query) : InRange(KeyOf[p], r)
    BY DEF EpochCovered
  <2> QED
    BY AskedTyped, EpochCover
<1> QED
  BY <1>1, PlanInvariant, PTL
=============================================================================
