------------------------ MODULE BrowserWorkerProofs ------------------------
(***************************************************************************)
(* The browser client's types and queues, and that each of its reads is    *)
(* answered with what the object store held at one moment: for every       *)
(* session, and as long as the worker's parameters stay what they are.     *)
(***************************************************************************)
EXTENDS BrowserWorker, WellFoundedInduction, NaturalsInduction, SequenceTheorems, TLAPS

\* No session asks for other parameters than those the worker starts with.
SameConfig == \A o \in Operations : o.op = "config" => o.config = Default

Among(id, s) == \E n \in DOMAIN s : s[n] = id
Apart(s) == \A m, n \in DOMAIN s : s[m] = s[n] => m = n

Places == {"unposted", "posted", "init", "open", "tx", "event", "aborted",
           "ok", "error", "lost"}
Open == {"posted", "init", "open", "tx", "event", "aborted"}

\* A request is in one queue at most, once, and where it is says in which; the
\* page waits for it as long as the worker has it or its reply.
QueuesInv ==
    /\ at \in [Requests -> Places] /\ pending \subseteq Requests
    /\ inbox \in Seq(Requests) /\ Apart(inbox)
    /\ txs \in Seq(Requests) /\ Apart(txs)
    /\ outbox \in Seq(Requests) /\ Apart(outbox)
    /\ \A id \in Requests :
          /\ Among(id, inbox) <=> at[id] = "posted"
          /\ Among(id, txs) <=> at[id] = "tx"
          /\ Among(id, outbox) => at[id] \in {"ok", "error"}
          /\ id \in pending <=> at[id] \in Open \/ Among(id, outbox)

\* A request that has its transaction has keys or ranges, and an indexer is
\* there until the page goes.
ValuesInv ==
    /\ obs \subseteq Rows
    /\ indexer \in Configs \union {NoIndexer} /\ params \in Configs
    /\ db \in BOOLEAN
    /\ request \in Sessions
    /\ used \in [Requests -> Configs \union {NoIndexer}]
    /\ found \in [Requests -> (SUBSET Rows) \union {Unread}]
    /\ answer \in [Requests -> SUBSET Rows]
    /\ \A id \in Requests :
          /\ at[id] \in {"open", "tx", "event", "aborted"} => indexer \in Configs
          /\ at[id] \in {"tx", "event", "aborted"} => used[id] \in Configs
          /\ at[id] = "event" /\ IsRead(id) => found[id] # Unread

\* What a read has found its ranges hold, and its reply has what it asks for of
\* that and no more.
ReadsInv ==
    \A id \in Requests :
        /\ at[id] \in {"unposted", "posted", "init", "open"} => used[id] = NoIndexer
        /\ at[id] \in {"unposted", "posted", "init", "open", "tx"} => found[id] = Unread
        /\ at[id] \notin {"ok", "lost"} => answer[id] = {}
        /\ IsRead(id) /\ found[id] # Unread =>
              /\ used[id] \in Configs
              /\ IsQuery(id) =>
                    \A row \in found[id] : Scans(used[id], request[id], row[1])
        /\ IsRead(id) /\ at[id] = "ok" =>
              found[id] # Unread /\ answer[id] = Asked(id) \intersect found[id]

\* All indexers there have been are the same.
KeptInv ==
    /\ params = Default /\ indexer \in {NoIndexer, Default}
    /\ \A id \in Requests : used[id] \in {NoIndexer, Default}

BrowserInv == QueuesInv /\ ValuesInv

-----------------------------------------------------------------------------
(* Queues *)

\* A request put in a queue.
LEMMA AmongAppend ==
    ASSUME NEW s \in Seq(Requests), Apart(s), NEW e \in Requests, ~Among(e, s)
    PROVE  /\ Append(s, e) \in Seq(Requests) /\ Apart(Append(s, e))
           /\ \A x : Among(x, Append(s, e)) <=> Among(x, s) \/ x = e
<1> DEFINE t == Append(s, e)
           L == Len(s)
<1>1. /\ t \in Seq(Requests) /\ L \in Nat
      /\ DOMAIN s = 1..L /\ DOMAIN t = 1..L + 1
      /\ \A n \in 1..L : t[n] = s[n]
      /\ t[L + 1] = e
  OBVIOUS
<1> HIDE DEF t, L
<1>2. ASSUME NEW m \in 1..L + 1, NEW n \in 1..L + 1, t[m] = t[n] PROVE m = n
  <2>1. (m \in 1..L \/ m = L + 1) /\ (n \in 1..L \/ n = L + 1)
    BY <1>1
  <2>2. ASSUME NEW k \in 1..L PROVE s[k] # e
    BY <1>1 DEF Among
  <2> QED
    BY <1>1, <1>2, <2>1, <2>2 DEF Apart
<1>3. ASSUME NEW x, Among(x, t) PROVE Among(x, s) \/ x = e
  <2>1. PICK n \in 1..L + 1 : t[n] = x
    BY <1>1, <1>3 DEF Among
  <2>2. n \in 1..L \/ n = L + 1
    BY <1>1
  <2> QED
    BY <1>1, <2>1, <2>2 DEF Among
<1>4. ASSUME NEW x, Among(x, s) \/ x = e PROVE Among(x, t)
  <2>1. L + 1 \in 1..L + 1 /\ \A n \in 1..L : n \in 1..L + 1
    BY <1>1
  <2> QED
    BY <1>1, <1>4, <2>1 DEF Among
<1>5. Apart(t)
  BY <1>1, <1>2 DEF Apart
<1> QED
  BY <1>1, <1>3, <1>4, <1>5 DEF t

\* The first request taken off a queue.
LEMMA AmongTail ==
    ASSUME NEW s \in Seq(Requests), Apart(s), s # <<>>
    PROVE  /\ Head(s) \in Requests /\ Among(Head(s), s)
           /\ Tail(s) \in Seq(Requests) /\ Apart(Tail(s))
           /\ \A x : Among(x, Tail(s)) <=> Among(x, s) /\ x # Head(s)
<1> DEFINE t == Tail(s)
           h == Head(s)
           L == Len(s)
<1>1. /\ t \in Seq(Requests) /\ h \in Requests /\ L \in Nat \ {0}
      /\ DOMAIN s = 1..L /\ DOMAIN t = 1..L - 1
      /\ \A n \in 1..L - 1 : t[n] = s[n + 1]
      /\ h = s[1]
  OBVIOUS
<1> HIDE DEF t, h, L
<1>2. \A n \in 1..L - 1 : n + 1 \in 1..L /\ n + 1 # 1
  BY <1>1
<1>3. Apart(t)
  <2> SUFFICES ASSUME NEW m \in 1..L - 1, NEW n \in 1..L - 1, t[m] = t[n] PROVE m = n
    BY <1>1 DEF Apart
  <2>1. s[m + 1] = s[n + 1]
    BY <1>1
  <2>2. m + 1 = n + 1
    BY <1>1, <1>2, <2>1 DEF Apart
  <2> QED
    BY <2>2
<1>4. ASSUME NEW x, Among(x, t) PROVE Among(x, s) /\ x # h
  <2>1. PICK n \in 1..L - 1 : t[n] = x
    BY <1>1, <1>4 DEF Among
  <2>2. s[n + 1] = x /\ n + 1 \in 1..L /\ n + 1 # 1 /\ 1 \in 1..L
    BY <1>1, <1>2, <2>1
  <2> QED
    BY <1>1, <2>2 DEF Among, Apart
<1>5. ASSUME NEW x, Among(x, s), x # h PROVE Among(x, t)
  <2>1. PICK n \in 1..L : s[n] = x
    BY <1>1, <1>5 DEF Among
  <2>2. n - 1 \in 1..L - 1 /\ (n - 1) + 1 = n
    BY <1>1, <1>5, <2>1
  <2> QED
    BY <1>1, <2>1, <2>2 DEF Among
<1>6. Among(h, s)
  BY <1>1 DEF Among
<1> QED
  BY <1>1, <1>3, <1>4, <1>5, <1>6 DEF t, h

\* A request taken out of a queue.
Cut(s, n) == SubSeq(s, 1, n - 1) \o SubSeq(s, n + 1, Len(s))

LEMMA AmongCut ==
    ASSUME NEW s \in Seq(Requests), Apart(s), NEW n \in DOMAIN s
    PROVE  /\ Cut(s, n) \in Seq(Requests) /\ Apart(Cut(s, n))
           /\ \A x : Among(x, Cut(s, n)) <=> Among(x, s) /\ x # s[n]
<1> DEFINE L == Len(s)
           p == SubSeq(s, 1, n - 1)
           q == SubSeq(s, n + 1, L)
           t == p \o q
<1>1. L \in Nat /\ DOMAIN s = 1..L /\ n \in 1..L
  BY LenProperties
<1>2. p \in Seq(Requests) /\ Len(p) = n - 1 /\ \A i \in 1..n - 1 : p[i] = s[i]
  <2>1. 1 \in Int /\ n - 1 \in Int /\ \A i \in 1..n - 1 : s[i] \in Requests
    BY <1>1
  <2>2. p \in Seq(Requests) /\ Len(p) = (IF 1 <= n - 1 THEN n - 1 - 1 + 1 ELSE 0)
        /\ \A i \in 1..n - 1 - 1 + 1 : p[i] = s[1 + i - 1]
    BY <2>1, SubSeqProperties
  <2>3. n - 1 - 1 + 1 = n - 1 /\ \A i \in 1..n - 1 : 1 + i - 1 = i
    BY <1>1
  <2> QED
    BY <1>1, <2>2, <2>3
<1>3. q \in Seq(Requests) /\ Len(q) = L - n /\ \A i \in 1..L - n : q[i] = s[n + i]
  <2>1. n + 1 \in Int /\ L \in Int /\ \A i \in n + 1..L : s[i] \in Requests
    BY <1>1
  <2>2. q \in Seq(Requests) /\ Len(q) = (IF n + 1 <= L THEN L - (n + 1) + 1 ELSE 0)
        /\ \A i \in 1..L - (n + 1) + 1 : q[i] = s[(n + 1) + i - 1]
    BY <2>1, SubSeqProperties
  <2>3. L - (n + 1) + 1 = L - n /\ \A i \in 1..L - n : (n + 1) + i - 1 = n + i
    BY <1>1
  <2> QED
    BY <1>1, <2>2, <2>3
<1> HIDE DEF L, p, q
<1>4. /\ t \in Seq(Requests) /\ Len(t) = L - 1 /\ DOMAIN t = 1..L - 1
      /\ \A i \in 1..n - 1 : t[i] = s[i]
      /\ \A i \in n..L - 1 : t[i] = s[i + 1]
  <2>1. /\ t \in Seq(Requests) /\ Len(t) = Len(p) + Len(q)
        /\ \A i \in 1..Len(p) + Len(q) :
              t[i] = IF i <= Len(p) THEN p[i] ELSE q[i - Len(p)]
    BY <1>2, <1>3, ConcatProperties
  <2>2. Len(t) = L - 1
    BY <1>1, <1>2, <1>3, <2>1
  <2>3. DOMAIN t = 1..L - 1
    BY <2>1, <2>2, LenProperties
  <2>4. ASSUME NEW i \in 1..n - 1 PROVE t[i] = s[i]
    BY <1>1, <1>2, <1>3, <2>1
  <2>5. ASSUME NEW i \in n..L - 1 PROVE t[i] = s[i + 1]
    <3>1. t[i] = q[i - (n - 1)]
      BY <1>1, <1>2, <1>3, <2>1, SMTT(30)
    <3>2. i - (n - 1) \in 1..L - n /\ n + (i - (n - 1)) = i + 1
      BY <1>1
    <3> QED
      BY <1>3, <3>1, <3>2
  <2> QED
    BY <2>1, <2>2, <2>3, <2>4, <2>5
<1> HIDE DEF t
<1> DEFINE f(i) == IF i < n THEN i ELSE i + 1
<1>5. \A i \in 1..L - 1 : f(i) \in 1..L /\ f(i) # n /\ t[i] = s[f(i)]
  BY <1>1, <1>4
<1>6. \A i, j \in 1..L - 1 : f(i) = f(j) => i = j
  BY <1>1
<1>7. \A j \in 1..L : j # n => \E i \in 1..L - 1 : f(i) = j
  <2> SUFFICES ASSUME NEW j \in 1..L, j # n PROVE \E i \in 1..L - 1 : f(i) = j
    OBVIOUS
  <2>1. CASE j < n
    BY <1>1, <2>1
  <2>2. CASE j > n
    <3>1. j - 1 \in 1..L - 1 /\ f(j - 1) = j
      BY <1>1, <2>2
    <3> QED
      BY <3>1
  <2> QED
    BY <1>1, <2>1, <2>2
<1> HIDE DEF f
<1>8. Apart(t)
  BY <1>1, <1>4, <1>5, <1>6 DEF Apart
<1>9. ASSUME NEW x PROVE Among(x, t) <=> Among(x, s) /\ x # s[n]
  <2>1. ASSUME Among(x, t) PROVE Among(x, s) /\ x # s[n]
    <3>1. PICK i \in 1..L - 1 : t[i] = x
      BY <1>4, <2>1 DEF Among
    <3> QED
      BY <1>1, <1>5, <3>1 DEF Among, Apart
  <2>2. ASSUME Among(x, s), x # s[n] PROVE Among(x, t)
    <3>1. PICK j \in 1..L : s[j] = x
      BY <1>1, <2>2 DEF Among
    <3>2. PICK i \in 1..L - 1 : f(i) = j
      BY <1>7, <2>2, <3>1
    <3> QED
      BY <1>4, <1>5, <3>1, <3>2 DEF Among
  <2> QED
    BY <2>1, <2>2
<1>10. Cut(s, n) = t
  BY DEF Cut, t, p, q, L
<1> QED
  BY <1>4, <1>8, <1>9, <1>10

\* A transaction that ends.
LEMMA AmongWithout ==
    ASSUME txs \in Seq(Requests), Apart(txs), NEW id \in Requests, Among(id, txs)
    PROVE  /\ Without(id) \in Seq(Requests) /\ Apart(Without(id))
           /\ \A x : Among(x, Without(id)) <=> Among(x, txs) /\ x # id
<1> DEFINE n == CHOOSE m \in DOMAIN txs : txs[m] = id
<1>1. n \in DOMAIN txs /\ txs[n] = id
  BY DEF Among
<1>2. Without(id) = Cut(txs, n)
  BY DEF Without, Cut
<1> HIDE DEF n
<1> QED
  BY <1>1, <1>2, AmongCut

-----------------------------------------------------------------------------
(* Where requests are *)

\* A request that takes its turn leaves the inbox.
LEMMA TurnTaken ==
    ASSUME QueuesInv, inbox # <<>>
    PROVE  /\ Head(inbox) \in Requests /\ at[Head(inbox)] = "posted"
           /\ Tail(inbox) \in Seq(Requests) /\ Apart(Tail(inbox))
           /\ \A x : Among(x, Tail(inbox)) <=> Among(x, inbox) /\ x # Head(inbox)
BY AmongTail DEF QueuesInv

\* One that is not answered yet can be, once.
LEMMA ReplyPosted ==
    ASSUME QueuesInv, NEW id \in Requests, at[id] \in Open
    PROVE  /\ Append(outbox, id) \in Seq(Requests) /\ Apart(Append(outbox, id))
           /\ \A x : Among(x, Append(outbox, id)) <=> Among(x, outbox) \/ x = id
<1>1. ~Among(id, outbox)
  BY DEF QueuesInv, Open
<1> QED
  BY <1>1, AmongAppend DEF QueuesInv

\* One that has no transaction can open one.
LEMMA TxOpened ==
    ASSUME QueuesInv, NEW id \in Requests, at[id] # "tx"
    PROVE  /\ Append(txs, id) \in Seq(Requests) /\ Apart(Append(txs, id))
           /\ \A x : Among(x, Append(txs, id)) <=> Among(x, txs) \/ x = id
<1>1. ~Among(id, txs)
  BY DEF QueuesInv
<1> QED
  BY <1>1, AmongAppend DEF QueuesInv

LEMMA TxEnded ==
    ASSUME QueuesInv, NEW id \in Requests, at[id] = "tx"
    PROVE  /\ Without(id) \in Seq(Requests) /\ Apart(Without(id))
           /\ \A x : Among(x, Without(id)) <=> Among(x, txs) /\ x # id
BY AmongWithout DEF QueuesInv

LEMMA AmongNone == Apart(<<>>) /\ \A x : ~Among(x, <<>>)
BY DEF Apart, Among

LEMMA QueuesInit == Init => QueuesInv
<1> SUFFICES ASSUME Init PROVE QueuesInv
  OBVIOUS
<1>1. <<>> \in Seq(Requests)
  OBVIOUS
<1> QED
  BY <1>1, AmongNone DEF Init, QueuesInv, Places, Open

\* A request moves on: from its turn, or from where it waits in the worker, to
\* its transaction, to a reply or to the next place it waits at.
Turn(id) == inbox # <<>> /\ id = Head(inbox) /\ inbox' = Tail(inbox)
Moved(id) ==
    /\ pending' = pending
    /\ \/ at[id] = "posted" /\ Turn(id)
       \/ at[id] \in {"init", "open", "event", "aborted"} /\ inbox' = inbox
    /\ \/ /\ \E p \in {"init", "open"} : at' = [at EXCEPT ![id] = p]
          /\ UNCHANGED <<txs, outbox>>
       \/ /\ at' = [at EXCEPT ![id] = "tx"]
          /\ txs' = Append(txs, id) /\ outbox' = outbox
       \/ /\ \E p \in {"ok", "error"} : at' = [at EXCEPT ![id] = p]
          /\ outbox' = Append(outbox, id) /\ txs' = txs

LEMMA MovedKeeps ==
    ASSUME QueuesInv, NEW id \in Requests, Moved(id)
    PROVE  QueuesInv'
<1>1. /\ at \in [Requests -> Places] /\ pending \subseteq Requests
      /\ inbox \in Seq(Requests) /\ Apart(inbox)
      /\ txs \in Seq(Requests) /\ Apart(txs)
      /\ outbox \in Seq(Requests) /\ Apart(outbox)
  BY DEF QueuesInv
<1>2. \A x \in Requests :
          /\ Among(x, inbox) <=> at[x] = "posted"
          /\ Among(x, txs) <=> at[x] = "tx"
          /\ Among(x, outbox) => at[x] \in {"ok", "error"}
          /\ x \in pending <=> at[x] \in Open \/ Among(x, outbox)
  BY DEF QueuesInv
<1>3. at[id] \in Open /\ at[id] # "tx" /\ pending' = pending
  BY DEF Moved, Open
<1>4. /\ inbox' \in Seq(Requests) /\ Apart(inbox')
      /\ \A x : Among(x, inbox') <=> Among(x, inbox) /\ x # id
  <2>1. CASE at[id] = "posted" /\ Turn(id)
    BY <2>1, TurnTaken DEF Turn
  <2>2. CASE at[id] \in {"init", "open", "event", "aborted"} /\ inbox' = inbox
    <3>1. ~Among(id, inbox)
      BY <1>2, <2>2
    <3> QED
      BY <1>1, <2>2, <3>1
  <2> QED
    BY <2>1, <2>2 DEF Moved
<1>5. CASE (\E p \in {"init", "open"} : at' = [at EXCEPT ![id] = p]) /\ UNCHANGED <<txs, outbox>>
  <2>1. at' \in [Requests -> Places] /\ at'[id] \in {"init", "open"}
        /\ \A x \in Requests : x # id => at'[x] = at[x]
    BY <1>1, <1>5 DEF Places
  <2>2. ~Among(id, txs) /\ ~Among(id, outbox) /\ id \in pending
    BY <1>2, <1>3 DEF Open
  <2>3. ASSUME NEW x \in Requests
        PROVE  /\ Among(x, inbox') <=> at'[x] = "posted"
               /\ Among(x, txs') <=> at'[x] = "tx"
               /\ Among(x, outbox') => at'[x] \in {"ok", "error"}
               /\ x \in pending' <=> at'[x] \in Open \/ Among(x, outbox')
    <3>1. CASE x = id
      BY <1>3, <1>4, <1>5, <2>1, <2>2, <3>1 DEF Open
    <3>2. CASE x # id
      BY <1>2, <1>3, <1>4, <1>5, <2>1, <3>2
    <3> QED
      BY <3>1, <3>2
  <2> QED
    BY <1>1, <1>3, <1>4, <1>5, <2>1, <2>3 DEF QueuesInv
<1>6. CASE at' = [at EXCEPT ![id] = "tx"] /\ txs' = Append(txs, id) /\ outbox' = outbox
  <2>1. at' \in [Requests -> Places] /\ at'[id] = "tx"
        /\ \A x \in Requests : x # id => at'[x] = at[x]
    BY <1>1, <1>6 DEF Places
  <2>2. ~Among(id, outbox) /\ id \in pending
    BY <1>2, <1>3 DEF Open
  <2>3. /\ txs' \in Seq(Requests) /\ Apart(txs')
        /\ \A x : Among(x, txs') <=> Among(x, txs) \/ x = id
    BY <1>3, <1>6, TxOpened
  <2>4. ASSUME NEW x \in Requests
        PROVE  /\ Among(x, inbox') <=> at'[x] = "posted"
               /\ Among(x, txs') <=> at'[x] = "tx"
               /\ Among(x, outbox') => at'[x] \in {"ok", "error"}
               /\ x \in pending' <=> at'[x] \in Open \/ Among(x, outbox')
    <3>1. CASE x = id
      BY <1>3, <1>4, <1>6, <2>1, <2>2, <2>3, <3>1 DEF Open
    <3>2. CASE x # id
      BY <1>2, <1>3, <1>4, <1>6, <2>1, <2>3, <3>2
    <3> QED
      BY <3>1, <3>2
  <2> QED
    BY <1>1, <1>3, <1>4, <1>6, <2>1, <2>3, <2>4 DEF QueuesInv
<1>7. CASE /\ \E p \in {"ok", "error"} : at' = [at EXCEPT ![id] = p]
           /\ outbox' = Append(outbox, id) /\ txs' = txs
  <2>1. at' \in [Requests -> Places] /\ at'[id] \in {"ok", "error"}
        /\ \A x \in Requests : x # id => at'[x] = at[x]
    BY <1>1, <1>7 DEF Places
  <2>2. ~Among(id, txs) /\ id \in pending
    BY <1>2, <1>3
  <2>3. /\ outbox' \in Seq(Requests) /\ Apart(outbox')
        /\ \A x : Among(x, outbox') <=> Among(x, outbox) \/ x = id
    BY <1>3, <1>7, ReplyPosted
  <2>4. ASSUME NEW x \in Requests
        PROVE  /\ Among(x, inbox') <=> at'[x] = "posted"
               /\ Among(x, txs') <=> at'[x] = "tx"
               /\ Among(x, outbox') => at'[x] \in {"ok", "error"}
               /\ x \in pending' <=> at'[x] \in Open \/ Among(x, outbox')
    <3>1. CASE x = id
      BY <1>3, <1>4, <1>7, <2>1, <2>2, <2>3, <3>1 DEF Open
    <3>2. CASE x # id
      BY <1>2, <1>3, <1>4, <1>7, <2>1, <2>3, <3>2
    <3> QED
      BY <3>1, <3>2
  <2> QED
    BY <1>1, <1>3, <1>4, <1>7, <2>1, <2>3, <2>4 DEF QueuesInv
<1> QED
  BY <1>5, <1>6, <1>7 DEF Moved

\* A transaction commits or aborts.
Ended(id) ==
    /\ at[id] = "tx" /\ txs' = Without(id)
    /\ \E p \in {"event", "aborted"} : at' = [at EXCEPT ![id] = p]
    /\ UNCHANGED <<inbox, outbox, pending>>

LEMMA EndedKeeps ==
    ASSUME QueuesInv, NEW id \in Requests, Ended(id)
    PROVE  QueuesInv'
<1>1. /\ at \in [Requests -> Places] /\ pending \subseteq Requests
      /\ inbox \in Seq(Requests) /\ Apart(inbox)
      /\ outbox \in Seq(Requests) /\ Apart(outbox)
      /\ \A x \in Requests :
            /\ Among(x, inbox) <=> at[x] = "posted"
            /\ Among(x, txs) <=> at[x] = "tx"
            /\ Among(x, outbox) => at[x] \in {"ok", "error"}
            /\ x \in pending <=> at[x] \in Open \/ Among(x, outbox)
  BY DEF QueuesInv
<1>2. at[id] = "tx" /\ UNCHANGED <<inbox, outbox, pending>>
  BY DEF Ended
<1>3. at' \in [Requests -> Places] /\ at'[id] \in {"event", "aborted"}
      /\ \A x \in Requests : x # id => at'[x] = at[x]
  BY <1>1 DEF Ended, Places
<1>4. /\ txs' \in Seq(Requests) /\ Apart(txs')
      /\ \A x : Among(x, txs') <=> Among(x, txs) /\ x # id
  BY <1>2, TxEnded DEF Ended
<1>5. ASSUME NEW x \in Requests
      PROVE  /\ Among(x, inbox') <=> at'[x] = "posted"
             /\ Among(x, txs') <=> at'[x] = "tx"
             /\ Among(x, outbox') => at'[x] \in {"ok", "error"}
             /\ x \in pending' <=> at'[x] \in Open \/ Among(x, outbox')
  <2>1. CASE x = id
    BY <1>1, <1>2, <1>3, <1>4, <2>1 DEF Open
  <2>2. CASE x # id
    BY <1>1, <1>2, <1>3, <1>4, <2>2
  <2> QED
    BY <2>1, <2>2
<1> QED
  BY <1>1, <1>2, <1>3, <1>4, <1>5 DEF QueuesInv

LEMMA PostKeeps ==
    ASSUME QueuesInv, NEW id \in Requests, Post(id)
    PROVE  QueuesInv'
<1>1. /\ at \in [Requests -> Places] /\ pending \subseteq Requests
      /\ inbox \in Seq(Requests) /\ Apart(inbox)
      /\ txs \in Seq(Requests) /\ Apart(txs)
      /\ outbox \in Seq(Requests) /\ Apart(outbox)
      /\ \A x \in Requests :
            /\ Among(x, inbox) <=> at[x] = "posted"
            /\ Among(x, txs) <=> at[x] = "tx"
            /\ Among(x, outbox) => at[x] \in {"ok", "error"}
            /\ x \in pending <=> at[x] \in Open \/ Among(x, outbox)
  BY DEF QueuesInv
<1>2. /\ at[id] = "unposted" /\ UNCHANGED <<txs, outbox>>
      /\ inbox' = Append(inbox, id) /\ pending' = pending \union {id}
  BY DEF Post
<1>3. at' \in [Requests -> Places] /\ at'[id] = "posted"
      /\ \A x \in Requests : x # id => at'[x] = at[x]
  BY <1>1 DEF Post, Places
<1>4. ~Among(id, inbox) /\ ~Among(id, txs) /\ ~Among(id, outbox)
  BY <1>1, <1>2
<1>5. /\ inbox' \in Seq(Requests) /\ Apart(inbox')
      /\ \A x : Among(x, inbox') <=> Among(x, inbox) \/ x = id
  BY <1>1, <1>2, <1>4, AmongAppend
<1>6. ASSUME NEW x \in Requests
      PROVE  /\ Among(x, inbox') <=> at'[x] = "posted"
             /\ Among(x, txs') <=> at'[x] = "tx"
             /\ Among(x, outbox') => at'[x] \in {"ok", "error"}
             /\ x \in pending' <=> at'[x] \in Open \/ Among(x, outbox')
  <2>1. CASE x = id
    BY <1>2, <1>3, <1>4, <1>5, <2>1 DEF Open
  <2>2. CASE x # id
    BY <1>1, <1>2, <1>3, <1>5, <2>2
  <2> QED
    BY <2>1, <2>2
<1> QED
  BY <1>1, <1>2, <1>3, <1>5, <1>6 DEF QueuesInv

LEMMA ReceiveKeeps == QueuesInv /\ Receive => QueuesInv'
<1> SUFFICES ASSUME QueuesInv, Receive PROVE QueuesInv'
  OBVIOUS
<1>1. /\ at \in [Requests -> Places] /\ pending \subseteq Requests
      /\ inbox \in Seq(Requests) /\ Apart(inbox)
      /\ txs \in Seq(Requests) /\ Apart(txs)
      /\ outbox \in Seq(Requests) /\ Apart(outbox)
      /\ \A x \in Requests :
            /\ Among(x, inbox) <=> at[x] = "posted"
            /\ Among(x, txs) <=> at[x] = "tx"
            /\ Among(x, outbox) => at[x] \in {"ok", "error"}
            /\ x \in pending <=> at[x] \in Open \/ Among(x, outbox)
  BY DEF QueuesInv
<1>2. /\ outbox # <<>> /\ outbox' = Tail(outbox)
      /\ pending' = pending \ {Head(outbox)} /\ UNCHANGED <<at, inbox, txs>>
  BY DEF Receive
<1>3. /\ Head(outbox) \in Requests /\ Among(Head(outbox), outbox)
      /\ outbox' \in Seq(Requests) /\ Apart(outbox')
      /\ \A x : Among(x, outbox') <=> Among(x, outbox) /\ x # Head(outbox)
  BY <1>1, <1>2, AmongTail
<1>4. at[Head(outbox)] \in {"ok", "error"}
  BY <1>1, <1>3
<1>5. ASSUME NEW x \in Requests
      PROVE  /\ Among(x, outbox') => at'[x] \in {"ok", "error"}
             /\ x \in pending' <=> at'[x] \in Open \/ Among(x, outbox')
  BY <1>1, <1>2, <1>3, <1>4 DEF Open
<1> QED
  BY <1>1, <1>2, <1>3, <1>5 DEF QueuesInv

LEMMA ReloadKeeps == QueuesInv /\ Reload => QueuesInv'
<1> SUFFICES ASSUME QueuesInv, Reload PROVE QueuesInv'
  OBVIOUS
<1>1. /\ at \in [Requests -> Places]
      /\ \A x \in Requests : x \in pending <=> at[x] \in Open \/ Among(x, outbox)
  BY DEF QueuesInv
<1>2. /\ inbox' = <<>> /\ txs' = <<>> /\ outbox' = <<>> /\ pending' = {}
      /\ at' = [x \in Requests |-> IF x \in pending THEN "lost" ELSE at[x]]
  BY DEF Reload
<1>3. at' \in [Requests -> Places] /\ \A x \in Requests : at'[x] \notin Open
  BY <1>1, <1>2 DEF Places, Open
<1>4. <<>> \in Seq(Requests)
  OBVIOUS
<1>5. \A x \in Requests : at'[x] # "posted" /\ at'[x] # "tx"
  BY <1>3 DEF Open
<1> QED
  BY <1>2, <1>3, <1>4, <1>5, AmongNone DEF QueuesInv

\* The steps of a request: its state changes are those above.
LEMMA EventMoves ==
    ASSUME QueuesInv, NEW id \in Requests, Event(id)
    PROVE  Moved(id) \/ Ended(id)
<1>1. CASE Handle(id)
  <2>1. at[id] = "posted" /\ Turn(id) /\ pending' = pending
    BY <1>1, TurnTaken DEF Handle, Turn
  <2>2. CASE Configure(id)
    BY <2>1, <2>2 DEF Configure, Reply, Moved
  <2>3. CASE OpenTx(id)
    BY <2>1, <2>3 DEF OpenTx, Moved
  <2>4. CASE Throw(id)
    BY <2>1, <2>4 DEF Throw, Reply, Moved
  <2> QED
    BY <1>1, <2>2, <2>3, <2>4 DEF Handle
<1>2. CASE Instantiate(id)
  <2>1. at[id] = "posted" /\ Turn(id)
    BY <1>2, TurnTaken DEF Instantiate, Turn
  <2>2. /\ at' = [at EXCEPT ![id] = "init"]
        /\ UNCHANGED <<txs, outbox, pending>>
    BY <1>2 DEF Instantiate
  <2> QED
    BY <2>1, <2>2 DEF Moved
<1>3. CASE InitDone(id)
  BY <1>3 DEF InitDone, Moved
<1>4. CASE OpenDone(id)
  <2>1. at[id] = "open" /\ inbox' = inbox /\ pending' = pending
    BY <1>4 DEF OpenDone
  <2>2. CASE Configure(id)
    BY <2>1, <2>2 DEF Configure, Reply, Moved
  <2>3. CASE OpenTx(id)
    BY <2>1, <2>3 DEF OpenTx, Moved
  <2> QED
    BY <1>4, <2>2, <2>3 DEF OpenDone
<1>5. CASE ReadyFails(id)
  BY <1>5 DEF ReadyFails, Reply, Moved
<1>6. CASE PutBatch(id)
  BY <1>6 DEF PutBatch, MayRun, Ended
<1>7. CASE ClearAll(id)
  BY <1>7 DEF ClearAll, MayRun, Ended
<1>8. CASE ScanRanges(id)
  BY <1>8 DEF ScanRanges, MayRun, Ended
<1>9. CASE CountAll(id)
  BY <1>9 DEF CountAll, MayRun, Ended
<1>10. CASE Abort(id)
  BY <1>10 DEF Abort, Ended
<1>11. CASE Finish(id)
  BY <1>11 DEF Finish, Reply, Moved
<1>12. CASE Aborted(id)
  BY <1>12 DEF Aborted, Reply, Moved
<1> QED
  BY <1>1, <1>2, <1>3, <1>4, <1>5, <1>6, <1>7, <1>8, <1>9, <1>10, <1>11, <1>12 DEF Event

LEMMA QueuesStep == QueuesInv /\ [Next]_vars => QueuesInv'
<1> SUFFICES ASSUME QueuesInv, [Next]_vars PROVE QueuesInv'
  OBVIOUS
<1>1. ASSUME NEW id \in Requests, Post(id) \/ Event(id) PROVE QueuesInv'
  BY <1>1, PostKeeps, EventMoves, MovedKeeps, EndedKeeps
<1>2. CASE UNCHANGED vars
  BY <1>2 DEF vars, QueuesInv
<1> QED
  BY <1>1, <1>2, ReceiveKeeps, ReloadKeeps DEF Next

-----------------------------------------------------------------------------
(* What is held *)

LEMMA NoneIsNoConfig == NoIndexer \notin Configs
<1>1. NoIndexer.scale = 0
  BY DEF NoIndexer
<1>2. \A g \in Configs : g.scale # 0
  BY ConfigsAssumption
<1> QED
  BY <1>1, <1>2

LEMMA RowIsPair == \A row \in Rows : \E k, o : row = <<k, o>>
BY DEF Rows

LEMMA UnreadIsNone ==
    /\ Unread \notin SUBSET Rows
    /\ \A S \in SUBSET Rows : S \intersect Unread = {}
<1>1. <<>> \notin Rows
  <2>1. \A k, o : <<k, o>> # <<>>
    OBVIOUS
  <2> QED
    BY <2>1, RowIsPair
<1> QED
  BY <1>1 DEF Unread

LEMMA OperationOf ==
    ASSUME request \in Sessions, NEW id \in Requests
    PROVE  /\ request[id] \in Operations
           /\ request[id].op = "config" => request[id].config \in Configs
<1>1. request[id] \in Operations
  BY DEF Operations
<1> QED
  BY <1>1, SessionsAssumption

\* What a store puts is rows.
LEMMA EntriesAreRows ==
    ASSUME NEW g \in Configs, NEW o \in Operations, o.op = "store"
    PROVE  \A n \in DOMAIN Entries(g, o) : Entries(g, o)[n] \in Rows
<1>1. DOMAIN Entries(g, o) = DOMAIN o.records
  BY DEF Entries
<1>2. ASSUME NEW n \in DOMAIN o.records PROVE Entries(g, o)[n] \in Rows
  <2> DEFINE c == o.records[n]
  <2>1. c \in Records
    BY DEF Records
  <2>2. Entries(g, o)[n] = <<GenerateKey(g, c), c>>
    BY <1>2 DEF Entries
  <2> HIDE DEF c
  <2> QED
    BY <2>1, <2>2 DEF Rows
<1> QED
  BY <1>1, <1>2

LEMMA ValuesInit == Init => ValuesInv
<1> SUFFICES ASSUME Init PROVE ValuesInv
  OBVIOUS
<1>1. obs = {} /\ indexer = NoIndexer /\ params = Default /\ db = FALSE /\ request \in Sessions
  BY DEF Init
<1>2. /\ used = [id \in Requests |-> NoIndexer]
      /\ found = [id \in Requests |-> Unread] /\ answer = [id \in Requests |-> {}]
      /\ at = [id \in Requests |-> "unposted"]
  BY DEF Init
<1>3. ASSUME NEW id \in Requests PROVE at[id] = "unposted"
  BY <1>2
<1>4. used \in [Requests -> Configs \union {NoIndexer}]
  BY <1>2
<1>5. found \in [Requests -> (SUBSET Rows) \union {Unread}]
  BY <1>2
<1>6. answer \in [Requests -> SUBSET Rows]
  BY <1>2
<1>7. \A id \in Requests : at[id] \notin {"open", "tx", "event", "aborted"}
  BY <1>3
<1>8. obs \subseteq Rows /\ indexer \in Configs \union {NoIndexer} /\ params \in Configs
      /\ db \in BOOLEAN /\ request \in Sessions
  BY <1>1, ConfigsAssumption
<1> QED
  BY <1>4, <1>5, <1>6, <1>7, <1>8 DEF ValuesInv

\* Steps that change no more than where requests are, and make none of them
\* wait for more than it has.
LEMMA ValuesKept ==
    ASSUME ValuesInv, UNCHANGED <<disk, request, used, found, answer>>,
           indexer' \in Configs \/ indexer' = indexer,
           params' \in Configs, db' \in BOOLEAN,
           \A id \in Requests :
              at'[id] = at[id] \/ at'[id] \in {"posted", "init", "ok", "error", "lost"}
              \/ (at'[id] = "open" /\ indexer' \in Configs)
              \/ (at'[id] = "aborted" /\ at[id] = "tx")
    PROVE  ValuesInv'
<1>1. UNCHANGED <<obs, request, used, found, answer>>
  BY DEF disk
<1>2. ASSUME NEW id \in Requests
      PROVE  /\ at'[id] \in {"open", "tx", "event", "aborted"} => indexer' \in Configs
             /\ at'[id] \in {"tx", "event", "aborted"} => used'[id] \in Configs
             /\ at'[id] = "event" /\ IsRead(id)' => found'[id] # Unread
  <2>1. IsRead(id)' = IsRead(id)
    BY <1>1 DEF IsRead, IsQuery
  <2>2. /\ at[id] \in {"open", "tx", "event", "aborted"} => indexer \in Configs
        /\ at[id] \in {"tx", "event", "aborted"} => used[id] \in Configs
        /\ at[id] = "event" /\ IsRead(id) => found[id] # Unread
    BY DEF ValuesInv
  <2> QED
    BY <1>1, <2>1, <2>2
<1> QED
  BY <1>1, <1>2 DEF ValuesInv

\* A transaction is opened with the indexer there is.
LEMMA OpenTxValues ==
    ASSUME QueuesInv, ValuesInv, NEW id \in Requests, OpenTx(id), indexer \in Configs,
           UNCHANGED <<disk, request, found, answer>>, db' \in BOOLEAN
    PROVE  ValuesInv'
<1>1. UNCHANGED <<obs, indexer, params, request, found, answer>>
      /\ used' = [used EXCEPT ![id] = indexer] /\ at' = [at EXCEPT ![id] = "tx"]
  BY DEF OpenTx, disk
<1>2. used \in [Requests -> Configs \union {NoIndexer}] /\ at \in [Requests -> Places]
  BY DEF ValuesInv, QueuesInv
<1>3. ASSUME NEW x \in Requests
      PROVE  /\ at'[x] \in {"open", "tx", "event", "aborted"} => indexer' \in Configs
             /\ at'[x] \in {"tx", "event", "aborted"} => used'[x] \in Configs
             /\ at'[x] = "event" /\ IsRead(x)' => found'[x] # Unread
  <2>1. IsRead(x)' = IsRead(x)
    BY <1>1 DEF IsRead, IsQuery
  <2>2. /\ at[x] \in {"tx", "event", "aborted"} => used[x] \in Configs
        /\ at[x] = "event" /\ IsRead(x) => found[x] # Unread
    BY DEF ValuesInv
  <2>3. x = id => at'[x] = "tx" /\ used'[x] = indexer
    BY <1>1, <1>2
  <2>4. x # id => at'[x] = at[x] /\ used'[x] = used[x]
    BY <1>1, <1>2
  <2> QED
    BY <1>1, <2>1, <2>2, <2>3, <2>4
<1>4. used' \in [Requests -> Configs \union {NoIndexer}]
  BY <1>1, <1>2
<1> QED
  BY <1>1, <1>3, <1>4 DEF ValuesInv

LEMMA ConfigureValues ==
    ASSUME QueuesInv, ValuesInv, NEW id \in Requests, Configure(id),
           UNCHANGED <<disk, request, found, answer>>, db' \in BOOLEAN
    PROVE  ValuesInv'
<1>1. /\ at' = [at EXCEPT ![id] = "ok"] /\ used' = used
      /\ params' = request[id].config /\ indexer' = params'
      /\ request[id].op = "config"
  BY DEF Configure, Reply
<1>2. request[id].config \in Configs
  BY <1>1, OperationOf DEF ValuesInv
<1>3. \A x \in Requests : at'[x] = at[x] \/ at'[x] = "ok"
  BY <1>1 DEF QueuesInv
<1> QED
  BY <1>1, <1>2, <1>3, ValuesKept

\* A transaction that commits takes effect as a whole.
LEMMA EndedValues ==
    ASSUME QueuesInv, ValuesInv, NEW id \in Requests, at[id] = "tx",
           at' = [at EXCEPT ![id] = "event"],
           UNCHANGED <<worker, request, used, answer>>,
           obs' \in SUBSET Rows,
           found' \in [Requests -> (SUBSET Rows) \union {Unread}],
           \A x \in Requests : x # id => found'[x] = found[x],
           IsRead(id) => found'[id] # Unread
    PROVE  ValuesInv'
<1>1. UNCHANGED <<indexer, params, db, request, used, answer>>
  BY DEF worker
<1>2. ASSUME NEW x \in Requests
      PROVE  /\ at'[x] \in {"open", "tx", "event", "aborted"} => indexer' \in Configs
             /\ at'[x] \in {"tx", "event", "aborted"} => used'[x] \in Configs
             /\ at'[x] = "event" /\ IsRead(x)' => found'[x] # Unread
  <2>1. IsRead(x)' = IsRead(x)
    BY <1>1 DEF IsRead, IsQuery
  <2>2. /\ at[x] \in {"open", "tx", "event", "aborted"} => indexer \in Configs
        /\ at[x] \in {"tx", "event", "aborted"} => used[x] \in Configs
        /\ at[x] = "event" /\ IsRead(x) => found[x] # Unread
    BY DEF ValuesInv
  <2>3. x # id => at'[x] = at[x] /\ found'[x] = found[x]
    BY DEF QueuesInv
  <2> QED
    BY <1>1, <2>1, <2>2, <2>3
<1> QED
  BY <1>1, <1>2 DEF ValuesInv

LEMMA PutValues ==
    ASSUME QueuesInv, ValuesInv, NEW id \in Requests, PutBatch(id)
    PROVE  ValuesInv'
<1> DEFINE entries == Entries(used[id], request[id])
<1>1. /\ at[id] = "tx" /\ at' = [at EXCEPT ![id] = "event"]
      /\ UNCHANGED <<worker, request, used, found, answer>>
      /\ request[id].op = "store" /\ obs' = PutAll(obs, entries)
  BY DEF PutBatch, MayRun, calls
<1>2. ~IsRead(id)
  BY <1>1 DEF IsRead, IsQuery
<1>3. \A n \in DOMAIN entries : entries[n] \in Rows
  BY <1>1, OperationOf, EntriesAreRows DEF ValuesInv
<1> HIDE DEF entries
<1>4. obs' \in SUBSET Rows
  BY <1>1, <1>3 DEF PutAll, ValuesInv
<1>5. found' \in [Requests -> (SUBSET Rows) \union {Unread}]
  BY <1>1 DEF ValuesInv
<1> QED
  BY <1>1, <1>2, <1>4, <1>5, EndedValues

LEMMA ClearValues ==
    ASSUME QueuesInv, ValuesInv, NEW id \in Requests, ClearAll(id)
    PROVE  ValuesInv'
<1>1. /\ at[id] = "tx" /\ at' = [at EXCEPT ![id] = "event"]
      /\ UNCHANGED <<worker, request, used, found, answer>>
      /\ request[id].op = "clear" /\ obs' = {}
  BY DEF ClearAll, MayRun, calls
<1>2. ~IsRead(id)
  BY <1>1 DEF IsRead, IsQuery
<1>3. found' \in [Requests -> (SUBSET Rows) \union {Unread}]
  BY <1>1 DEF ValuesInv
<1>4. obs' \in SUBSET Rows
  BY <1>1
<1> QED
  BY <1>1, <1>2, <1>3, <1>4, EndedValues

LEMMA ReadValues ==
    ASSUME QueuesInv, ValuesInv, NEW id \in Requests, NEW S \in SUBSET obs,
           at[id] = "tx", at' = [at EXCEPT ![id] = "event"],
           found' = [found EXCEPT ![id] = S],
           UNCHANGED <<disk, worker, request, used, answer>>
    PROVE  ValuesInv'
<1>1. S \in SUBSET Rows /\ obs' \in SUBSET Rows
  BY DEF ValuesInv, disk
<1>2. found \in [Requests -> (SUBSET Rows) \union {Unread}]
  BY DEF ValuesInv
<1>3. found' \in [Requests -> (SUBSET Rows) \union {Unread}] /\ found'[id] = S
      /\ \A x \in Requests : x # id => found'[x] = found[x]
  BY <1>1, <1>2
<1>4. S # Unread
  BY <1>1, UnreadIsNone
<1> QED
  BY <1>1, <1>3, <1>4, EndedValues

LEMMA FinishValues ==
    ASSUME QueuesInv, ValuesInv, NEW id \in Requests, Finish(id)
    PROVE  ValuesInv'
<1> DEFINE value == CASE request[id].op = "count" -> found[id]
                      [] IsQuery(id) ->
                           {row \in found[id] : Passes(indexer, request[id], row[1])}
                      [] OTHER -> {}
<1>1. /\ at[id] = "event" /\ at' = [at EXCEPT ![id] = "ok"]
      /\ UNCHANGED <<disk, worker, request, used, found>>
      /\ answer' = [answer EXCEPT ![id] = value]
  BY DEF Finish, Reply
<1>2. IsRead(id) => found[id] \in SUBSET Rows
  BY <1>1 DEF ValuesInv
<1>3. value \in SUBSET Rows
  <2>1. CASE request[id].op = "count"
    <3>1. value = found[id]
      <4>1. ~IsQuery(id)
        BY <2>1 DEF IsQuery
      <4> QED
        BY <2>1, <4>1, Zenon
    <3> HIDE DEF value
    <3> QED
      BY <1>2, <2>1, <3>1 DEF IsRead
  <2>2. CASE IsQuery(id)
    <3>1. value = {row \in found[id] : Passes(indexer, request[id], row[1])}
      <4>1. request[id].op # "count"
        BY <2>2 DEF IsQuery
      <4> QED
        BY <2>2, <4>1, Zenon
    <3> HIDE DEF value
    <3>2. value \subseteq found[id]
      BY <3>1
    <3> QED
      BY <1>2, <2>2, <3>2 DEF IsRead
  <2>3. CASE ~IsQuery(id) /\ request[id].op # "count"
    <3>1. value = {}
      BY <2>3, Zenon
    <3> HIDE DEF value
    <3> QED
      BY <3>1
  <2> QED
    BY <2>1, <2>2, <2>3
<1> HIDE DEF value
<1>4. UNCHANGED <<obs, indexer, params, db, request, used, found>>
  BY <1>1 DEF disk, worker
<1>5. answer' \in [Requests -> SUBSET Rows]
  BY <1>1, <1>3 DEF ValuesInv
<1>6. ASSUME NEW x \in Requests
      PROVE  /\ at'[x] \in {"open", "tx", "event", "aborted"} => indexer' \in Configs
             /\ at'[x] \in {"tx", "event", "aborted"} => used'[x] \in Configs
             /\ at'[x] = "event" /\ IsRead(x)' => found'[x] # Unread
  <2>1. IsRead(x)' = IsRead(x)
    BY <1>4 DEF IsRead, IsQuery
  <2>2. /\ at[x] \in {"open", "tx", "event", "aborted"} => indexer \in Configs
        /\ at[x] \in {"tx", "event", "aborted"} => used[x] \in Configs
        /\ at[x] = "event" /\ IsRead(x) => found[x] # Unread
    BY DEF ValuesInv
  <2>3. at'[x] = at[x] \/ at'[x] = "ok"
    BY <1>1 DEF QueuesInv
  <2> QED
    BY <1>4, <2>1, <2>2, <2>3
<1> QED
  BY <1>4, <1>5, <1>6 DEF ValuesInv

LEMMA EventValues ==
    ASSUME QueuesInv, ValuesInv, NEW id \in Requests, Event(id)
    PROVE  ValuesInv'
<1> USE DEF QueuesInv
<1>a. /\ indexer \in Configs \union {NoIndexer} /\ params \in Configs /\ db \in BOOLEAN
      /\ at[id] \in {"open", "tx", "event", "aborted"} => indexer \in Configs
  BY DEF ValuesInv
<1>1. CASE Handle(id)
  <2>1. indexer \in Configs /\ UNCHANGED <<disk, request, found, answer>>
        /\ db' = db
    BY <1>1, <1>a DEF Handle
  <2>2. CASE Configure(id)
    BY <1>a, <2>1, <2>2, ConfigureValues
  <2>3. CASE OpenTx(id)
    BY <1>a, <2>1, <2>3, OpenTxValues
  <2>4. CASE Throw(id)
    <3>1. UNCHANGED <<indexer, params, used>> /\ at' = [at EXCEPT ![id] = "error"]
      BY <2>4 DEF Throw, Reply
    <3>2. \A x \in Requests : at'[x] = at[x] \/ at'[x] = "error"
      BY <3>1
    <3> QED
      BY <1>a, <2>1, <3>1, <3>2, ValuesKept
  <2> QED
    BY <1>1, <2>2, <2>3, <2>4 DEF Handle
<1>2. CASE Instantiate(id)
  <2>1. UNCHANGED <<disk, indexer, params, db, request, used, found, answer>>
        /\ at' = [at EXCEPT ![id] = "init"]
    BY <1>2 DEF Instantiate, worker, calls
  <2>2. \A x \in Requests : at'[x] = at[x] \/ at'[x] = "init"
    BY <2>1
  <2> QED
    BY <1>a, <2>1, <2>2, ValuesKept
<1>3. CASE InitDone(id)
  <2>1. UNCHANGED <<disk, params, db, request, used, found, answer>>
        /\ at' = [at EXCEPT ![id] = "open"] /\ indexer' = params
    BY <1>3 DEF InitDone, calls
  <2>2. \A x \in Requests : at'[x] = at[x] \/ at'[x] = "open"
    BY <2>1
  <2> QED
    BY <1>a, <2>1, <2>2, ValuesKept
<1>4. CASE OpenDone(id)
  <2>1. indexer \in Configs /\ UNCHANGED <<disk, request, found, answer>>
        /\ db' \in BOOLEAN
    BY <1>4, <1>a DEF OpenDone
  <2>2. Configure(id) \/ OpenTx(id)
    BY <1>4 DEF OpenDone
  <2> QED
    BY <2>1, <2>2, ConfigureValues, OpenTxValues
<1>5. CASE ReadyFails(id) \/ Aborted(id)
  <2>1. UNCHANGED <<disk, indexer, params, db, request, used, found, answer>>
        /\ at' = [at EXCEPT ![id] = "error"]
    BY <1>5 DEF ReadyFails, Aborted, Reply, worker, calls
  <2>2. \A x \in Requests : at'[x] = at[x] \/ at'[x] = "error"
    BY <2>1
  <2> QED
    BY <1>a, <2>1, <2>2, ValuesKept
<1>6. CASE Abort(id)
  <2>1. UNCHANGED <<disk, indexer, params, db, request, used, found, answer>>
        /\ at[id] = "tx" /\ at' = [at EXCEPT ![id] = "aborted"]
    BY <1>6 DEF Abort, worker, calls
  <2>2. \A x \in Requests : at'[x] = at[x] \/ (at'[x] = "aborted" /\ at[x] = "tx")
    BY <2>1
  <2> QED
    BY <1>a, <2>1, <2>2, ValuesKept
<1>7. CASE ScanRanges(id) \/ CountAll(id)
  <2>1. /\ at[id] = "tx" /\ at' = [at EXCEPT ![id] = "event"]
        /\ UNCHANGED <<disk, worker, request, used, answer>>
    BY <1>7 DEF ScanRanges, CountAll, MayRun
  <2>2. PICK S \in SUBSET obs : found' = [found EXCEPT ![id] = S]
    <3>1. CASE ScanRanges(id)
      <4>1. {row \in obs : Scans(used[id], request[id], row[1])} \in SUBSET obs
        OBVIOUS
      <4> QED
        BY <3>1, <4>1 DEF ScanRanges
    <3>2. CASE CountAll(id)
      <4>1. obs \in SUBSET obs
        OBVIOUS
      <4> QED
        BY <3>2, <4>1 DEF CountAll
    <3> QED
      BY <1>7, <3>1, <3>2
  <2> QED
    BY <2>1, <2>2, ReadValues
<1> QED
  BY <1>1, <1>2, <1>3, <1>4, <1>5, <1>6, <1>7, PutValues, ClearValues, FinishValues DEF Event

LEMMA ValuesStep == BrowserInv /\ [Next]_vars => ValuesInv'
<1> SUFFICES ASSUME QueuesInv, ValuesInv, [Next]_vars PROVE ValuesInv'
  BY DEF BrowserInv
<1>a. params \in Configs /\ db \in BOOLEAN
  BY DEF ValuesInv
<1>1. ASSUME NEW id \in Requests, Post(id) PROVE ValuesInv'
  <2>1. UNCHANGED <<disk, indexer, params, db, request, used, found, answer>>
        /\ at' = [at EXCEPT ![id] = "posted"]
    BY <1>1 DEF Post, worker, calls
  <2>2. \A x \in Requests : at'[x] = at[x] \/ at'[x] = "posted"
    BY <2>1 DEF QueuesInv
  <2> QED
    BY <1>a, <2>1, <2>2, ValuesKept
<1>2. CASE Receive \/ UNCHANGED vars
  <2>1. UNCHANGED <<disk, indexer, params, db, request, used, found, answer, at>>
    BY <1>2 DEF Receive, vars, worker, calls
  <2> QED
    BY <1>a, <2>1, ValuesKept
<1>3. CASE Reload
  <2>1. /\ indexer' = NoIndexer /\ params' = Default /\ db' = FALSE
        /\ UNCHANGED <<obs, request, used, found, answer>>
    BY <1>3 DEF Reload, disk, calls
  <2>2. \A id \in Requests : at'[id] \notin {"open", "tx", "event", "aborted"}
    BY <1>3 DEF Reload, QueuesInv, Open
  <2> QED
    BY <2>1, <2>2, ConfigsAssumption DEF ValuesInv
<1> QED
  BY <1>1, <1>2, <1>3, EventValues DEF Next

LEMMA BrowserInvariant == Spec => []BrowserInv
<1>1. Init => BrowserInv
  BY QueuesInit, ValuesInit DEF BrowserInv
<1>2. BrowserInv /\ [Next]_vars => BrowserInv'
  BY QueuesStep, ValuesStep DEF BrowserInv
<1> QED
  BY <1>1, <1>2, PTL DEF Spec

\* The type of every variable: a request the page waits for is with the worker
\* or its reply is under way, and none is forgotten or answered twice
\* (worker.js:80-91, index.html:126-150).
THEOREM TypeCorrect == Spec => []TypeOK
<1>1. BrowserInv => TypeOK
  <2> SUFFICES ASSUME QueuesInv, ValuesInv PROVE TypeOK
    BY DEF BrowserInv
  <2>1. ASSUME NEW id \in Requests
        PROVE  /\ used[id] \in Configs \union {NoIndexer}
               /\ found[id] \in (SUBSET Rows) \union {Unread} /\ answer[id] \subseteq Rows
    BY DEF ValuesInv
  <2>2. ASSUME NEW id \in Requests
        PROVE  /\ id \in pending <=>
                     \/ at[id] \in {"posted", "init", "open", "tx", "event", "aborted"}
                     \/ \E n \in DOMAIN outbox : outbox[n] = id
               /\ at[id] = "tx" <=> \E n \in DOMAIN txs : txs[n] = id
    BY DEF QueuesInv, Open, Among
  <2>3. /\ obs \subseteq Rows
        /\ indexer \in Configs \union {NoIndexer} /\ params \in Configs
        /\ db \in BOOLEAN /\ request \in Sessions
    BY DEF ValuesInv
  <2> QED
    BY <2>1, <2>2, <2>3 DEF TypeOK
<1> QED
  BY <1>1, BrowserInvariant, PTL

-----------------------------------------------------------------------------
(* What reads find *)

\* What a read asks for, and what it does before it is planned.
LEMMA AskedOf ==
    ASSUME ValuesInv, NEW id \in Requests
    PROVE  /\ IsRead(id) /\ used[id] \in Configs =>
                 Asked(id) = {row \in Rows :
                                \/ request[id].op = "count"
                                \/ /\ Scans(used[id], request[id], row[1])
                                   /\ Passes(used[id], request[id], row[1])}
           /\ ~IsRead(id) \/ used[id] = NoIndexer => Asked(id) = {}
<1>1. request[id] \in Operations
  BY OperationOf DEF ValuesInv
<1>2. ASSUME IsRead(id), used[id] \in Configs
      PROVE  Asked(id) = {row \in Rows :
                            \/ request[id].op = "count"
                            \/ /\ Scans(used[id], request[id], row[1])
                               /\ Passes(used[id], request[id], row[1])}
  <2> DEFINE p == <<used[id], request[id]>>
  <2>1. request[id].op \in {"epoch", "window", "count"}
    BY <1>2 DEF IsRead, IsQuery
  <2>2. p \in Plans
    BY <1>1, <1>2, <2>1 DEF Plans
  <2>3. p[1] = used[id] /\ p[2] = request[id]
    OBVIOUS
  <2>4. Asked(id) = Matches[p]
    BY <1>2, NoneIsNoConfig DEF Asked
  <2> HIDE DEF p
  <2>5. Matches[p] = {row \in Rows :
                        \/ p[2].op = "count"
                        \/ Scans(p[1], p[2], row[1]) /\ Passes(p[1], p[2], row[1])}
    BY <2>2 DEF Matches
  <2> QED
    BY <2>3, <2>4, <2>5
<1>3. ~IsRead(id) \/ used[id] = NoIndexer => Asked(id) = {}
  BY DEF Asked
<1> QED
  BY <1>2, <1>3

LEMMA AskedTyped == ASSUME ValuesInv, NEW id \in Requests PROVE Asked(id) \in SUBSET Rows
<1>1. used[id] \in Configs \/ used[id] = NoIndexer
  BY DEF ValuesInv
<1> QED
  BY <1>1, AskedOf

LEMMA AskedKept ==
    ASSUME UNCHANGED <<request, used>>
    PROVE  \A id : Asked(id)' = Asked(id) /\ IsRead(id)' = IsRead(id)
                   /\ IsQuery(id)' = IsQuery(id)
BY DEF Asked, IsRead, IsQuery

LEMMA KeptInit == Init => KeptInv
BY DEF Init, KeptInv

LEMMA KeptStep ==
    ASSUME SameConfig
    PROVE  KeptInv /\ BrowserInv /\ [Next]_vars => KeptInv'
<1> SUFFICES ASSUME KeptInv, QueuesInv, ValuesInv, [Next]_vars PROVE KeptInv'
  BY DEF BrowserInv
<1>a. used \in [Requests -> Configs \union {NoIndexer}]
  BY DEF ValuesInv
<1>1. CASE UNCHANGED <<indexer, params, used>>
  BY <1>1 DEF KeptInv
<1>2. ASSUME NEW id \in Requests, Configure(id) PROVE KeptInv'
  <2>1. params' = Default /\ indexer' = Default /\ used' = used
    BY <1>2, OperationOf DEF Configure, SameConfig, ValuesInv
  <2> QED
    BY <2>1 DEF KeptInv
<1>3. ASSUME NEW id \in Requests, OpenTx(id) PROVE KeptInv'
  <2>1. /\ used' = [used EXCEPT ![id] = indexer]
        /\ UNCHANGED <<indexer, params>>
    BY <1>3 DEF OpenTx
  <2>2. \A x \in Requests : used'[x] = indexer \/ used'[x] = used[x]
    BY <1>a, <2>1
  <2> QED
    BY <2>1, <2>2 DEF KeptInv
<1>4. ASSUME NEW id \in Requests, InitDone(id) PROVE KeptInv'
  BY <1>4 DEF InitDone, KeptInv, calls
<1>5. CASE Reload
  BY <1>5 DEF Reload, KeptInv, calls
<1>6. CASE Receive \/ UNCHANGED vars
  BY <1>1, <1>6 DEF Receive, vars, calls, worker
<1>7. ASSUME NEW id \in Requests, Handle(id) \/ OpenDone(id) PROVE KeptInv'
  BY <1>1, <1>2, <1>3, <1>7 DEF Handle, OpenDone, Throw
<1>8. ASSUME NEW id \in Requests,
             \/ Post(id) \/ Instantiate(id) \/ ReadyFails(id) \/ Abort(id) \/ Aborted(id)
             \/ PutBatch(id) \/ ClearAll(id) \/ ScanRanges(id) \/ CountAll(id) \/ Finish(id)
      PROVE  KeptInv'
  BY <1>1, <1>8 DEF Post, Instantiate, ReadyFails, Abort, Aborted, PutBatch, ClearAll,
        ScanRanges, CountAll, Finish, calls, worker
<1> QED
  BY <1>4, <1>5, <1>6, <1>7, <1>8 DEF Next, Event

\* The reply of a read has what it asks for of what it has found, as long as
\* the indexer it decodes with is the one that made its ranges.
LEMMA FinishAnswer ==
    ASSUME QueuesInv, ValuesInv, ReadsInv, KeptInv, NEW id \in Requests, Finish(id)
    PROVE  answer'[id] = IF IsRead(id) THEN Asked(id) \intersect found[id] ELSE {}
<1> DEFINE value == CASE request[id].op = "count" -> found[id]
                      [] IsQuery(id) ->
                           {row \in found[id] : Passes(indexer, request[id], row[1])}
                      [] OTHER -> {}
<1>1. at[id] = "event" /\ answer' = [answer EXCEPT ![id] = value]
  BY DEF Finish
<1>2. answer'[id] = value
  BY <1>1 DEF ValuesInv
<1>3. used[id] \in Configs /\ indexer \in Configs /\ used[id] = indexer
  BY <1>1, NoneIsNoConfig DEF ValuesInv, KeptInv
<1>4. CASE request[id].op = "count"
  <2>1. value = found[id]
    <3>1. ~IsQuery(id)
      BY <1>4 DEF IsQuery
    <3> QED
      BY <1>4, <3>1, Zenon
  <2> HIDE DEF value
  <2>2. IsRead(id) /\ found[id] \subseteq Rows
    BY <1>1, <1>4 DEF IsRead, ValuesInv
  <2>3. Asked(id) = Rows
    BY <1>3, <1>4, <2>2, AskedOf
  <2> QED
    BY <1>2, <2>1, <2>2, <2>3
<1>5. CASE IsQuery(id)
  <2>1. value = {row \in found[id] : Passes(indexer, request[id], row[1])}
    <3>1. request[id].op # "count"
      BY <1>5 DEF IsQuery
    <3> QED
      BY <1>5, <3>1, Zenon
  <2> HIDE DEF value
  <2>2. IsRead(id) /\ request[id].op # "count"
    BY <1>5 DEF IsRead, IsQuery
  <2>3. found[id] # Unread /\ found[id] \subseteq Rows
    BY <1>1, <2>2 DEF ValuesInv
  <2>4. \A row \in found[id] : Scans(used[id], request[id], row[1])
    BY <1>5, <2>2, <2>3 DEF ReadsInv
  <2>5. Asked(id) = {row \in Rows : /\ Scans(used[id], request[id], row[1])
                                    /\ Passes(used[id], request[id], row[1])}
    BY <1>3, <2>2, AskedOf
  <2> QED
    BY <1>2, <1>3, <2>1, <2>2, <2>3, <2>4, <2>5
<1>6. CASE ~IsQuery(id) /\ request[id].op # "count"
  <2>1. value = {}
    BY <1>6, Zenon
  <2> HIDE DEF value
  <2> QED
    BY <1>2, <1>6, <2>1 DEF IsRead
<1> QED
  BY <1>4, <1>5, <1>6

LEMMA ReadsInit == Init => ReadsInv
<1> SUFFICES ASSUME Init PROVE ReadsInv
  OBVIOUS
<1>1. ASSUME NEW id \in Requests
      PROVE  /\ at[id] = "unposted" /\ used[id] = NoIndexer
             /\ found[id] = Unread /\ answer[id] = {}
  BY DEF Init
<1> QED
  BY <1>1 DEF ReadsInv

\* Steps that change no more than where requests are, and answer no read.
LEMMA ReadsKept ==
    ASSUME ReadsInv, UNCHANGED <<request, used, found, answer>>,
           \A x \in Requests :
              \/ at'[x] = at[x] \/ at'[x] = "lost"
              \/ /\ at'[x] \in {"posted", "init", "open"}
                 /\ at[x] \in {"unposted", "posted", "init", "open"}
              \/ at'[x] = "error" /\ at[x] \in Open
              \/ at'[x] \in {"aborted", "event"} /\ at[x] = "tx"
              \/ at'[x] = "ok" /\ ~IsRead(x)
    PROVE  ReadsInv'
<1> SUFFICES ASSUME NEW id \in Requests
             PROVE  /\ at'[id] \in {"unposted", "posted", "init", "open"}
                          => used[id] = NoIndexer
                    /\ at'[id] \in {"unposted", "posted", "init", "open", "tx"}
                          => found[id] = Unread
                    /\ at'[id] \notin {"ok", "lost"} => answer[id] = {}
                    /\ IsRead(id) /\ found[id] # Unread =>
                          /\ used[id] \in Configs
                          /\ IsQuery(id) =>
                                \A row \in found[id] : Scans(used[id], request[id], row[1])
                    /\ IsRead(id) /\ at'[id] = "ok" =>
                          found[id] # Unread /\ answer[id] = Asked(id) \intersect found[id]
  BY AskedKept DEF ReadsInv
<1> QED
  BY DEF ReadsInv, Open

LEMMA ReadsStep == BrowserInv /\ ReadsInv /\ KeptInv /\ [Next]_vars => ReadsInv'
<1> SUFFICES ASSUME QueuesInv, ValuesInv, ReadsInv, KeptInv, [Next]_vars
             PROVE  ReadsInv'
  BY DEF BrowserInv
<1>a. /\ at \in [Requests -> Places]
      /\ used \in [Requests -> Configs \union {NoIndexer}]
      /\ found \in [Requests -> (SUBSET Rows) \union {Unread}]
      /\ answer \in [Requests -> SUBSET Rows]
  BY DEF QueuesInv, ValuesInv
<1>1. ASSUME NEW id \in Requests, Post(id) PROVE ReadsInv'
  <2>1. UNCHANGED <<request, used, found, answer>>
        /\ at[id] = "unposted" /\ at' = [at EXCEPT ![id] = "posted"]
    BY <1>1 DEF Post, calls
  <2>2. \A x \in Requests : at'[x] = at[x] \/ (at'[x] = "posted" /\ at[x] = "unposted")
    BY <1>a, <2>1
  <2> QED
    BY <2>1, <2>2, ReadsKept
<1>2. CASE Receive \/ UNCHANGED vars
  <2>1. UNCHANGED <<request, used, found, answer, at>>
    BY <1>2 DEF Receive, vars, calls
  <2> QED
    BY <2>1, ReadsKept
<1>3. CASE Reload
  <2>1. UNCHANGED <<request, used, found, answer>>
    BY <1>3 DEF Reload, calls
  <2>2. \A x \in Requests : at'[x] = at[x] \/ at'[x] = "lost"
    BY <1>3 DEF Reload
  <2> QED
    BY <2>1, <2>2, ReadsKept
<1>4. ASSUME NEW id \in Requests, at[id] \in {"posted", "open"}, Configure(id),
             UNCHANGED <<request, found, answer>>
      PROVE  ReadsInv'
  <2>1. UNCHANGED used /\ at' = [at EXCEPT ![id] = "ok"] /\ request[id].op = "config"
    BY <1>4 DEF Configure, Reply
  <2>2. ~IsRead(id)
    BY <2>1 DEF IsRead, IsQuery
  <2>3. \A x \in Requests : at'[x] = at[x] \/ (at'[x] = "ok" /\ ~IsRead(x))
    BY <1>a, <2>1, <2>2
  <2> QED
    BY <1>4, <2>1, <2>3, ReadsKept
<1>5. ASSUME NEW id \in Requests, at[id] \in {"posted", "open"}, OpenTx(id),
             UNCHANGED <<request, found, answer>>
      PROVE  ReadsInv'
  <2>1. used' = [used EXCEPT ![id] = indexer] /\ at' = [at EXCEPT ![id] = "tx"]
    BY <1>5 DEF OpenTx
  <2>2. ASSUME NEW x \in Requests
        PROVE  /\ at'[x] \in {"unposted", "posted", "init", "open"} => used'[x] = NoIndexer
               /\ at'[x] \in {"unposted", "posted", "init", "open", "tx"} => found'[x] = Unread
               /\ at'[x] \notin {"ok", "lost"} => answer'[x] = {}
               /\ IsRead(x)' /\ found'[x] # Unread =>
                     /\ used'[x] \in Configs
                     /\ IsQuery(x)' =>
                           \A row \in found'[x] : Scans(used'[x], request'[x], row[1])
               /\ IsRead(x)' /\ at'[x] = "ok" =>
                     found'[x] # Unread /\ answer'[x] = Asked(x)' \intersect found'[x]
    <3>1. CASE x = id
      BY <1>5, <1>a, <2>1, <3>1 DEF ReadsInv
    <3>2. CASE x # id
      <4>1. at'[x] = at[x] /\ used'[x] = used[x] /\ found'[x] = found[x]
            /\ answer'[x] = answer[x] /\ request'[x] = request[x]
        BY <1>5, <1>a, <2>1, <3>2
      <4>2. IsRead(x)' = IsRead(x) /\ IsQuery(x)' = IsQuery(x)
        BY <4>1 DEF IsRead, IsQuery
      <4>3. Asked(x)' = Asked(x)
        BY <4>1, <4>2 DEF Asked
      <4> QED
        BY <4>1, <4>2, <4>3 DEF ReadsInv
    <3> QED
      BY <3>1, <3>2
  <2> QED
    BY <2>2 DEF ReadsInv
<1>6. ASSUME NEW id \in Requests, Handle(id) PROVE ReadsInv'
  <2>1. at[id] = "posted" /\ UNCHANGED <<request, found, answer>>
    BY <1>6, TurnTaken DEF Handle
  <2>2. CASE Throw(id)
    <3>1. UNCHANGED used /\ at' = [at EXCEPT ![id] = "error"]
      BY <2>2 DEF Throw, Reply
    <3>2. \A x \in Requests : at'[x] = at[x] \/ (at'[x] = "error" /\ at[x] \in Open)
      BY <1>a, <2>1, <3>1 DEF Open
    <3> QED
      BY <2>1, <3>1, <3>2, ReadsKept
  <2> QED
    BY <1>4, <1>5, <1>6, <2>1, <2>2 DEF Handle
<1>7. ASSUME NEW id \in Requests, Instantiate(id) \/ InitDone(id) PROVE ReadsInv'
  <2>1. UNCHANGED <<request, used, found, answer>> /\ at[id] \in {"posted", "init"}
        /\ (at' = [at EXCEPT ![id] = "init"] \/ at' = [at EXCEPT ![id] = "open"])
    BY <1>7, TurnTaken DEF Instantiate, InitDone, calls
  <2>2. \A x \in Requests : \/ at'[x] = at[x]
                            \/ at'[x] \in {"init", "open"} /\ at[x] \in {"posted", "init"}
    BY <1>a, <2>1
  <2> QED
    BY <2>1, <2>2, ReadsKept
<1>8. ASSUME NEW id \in Requests, OpenDone(id) PROVE ReadsInv'
  <2>1. at[id] = "open" /\ UNCHANGED <<request, found, answer>>
    BY <1>8 DEF OpenDone
  <2> QED
    BY <1>4, <1>5, <1>8, <2>1 DEF OpenDone
<1>9. ASSUME NEW id \in Requests, ReadyFails(id) \/ Aborted(id) PROVE ReadsInv'
  <2>1. UNCHANGED <<request, used, found, answer>>
        /\ at[id] \in Open /\ at' = [at EXCEPT ![id] = "error"]
    BY <1>9 DEF ReadyFails, Aborted, Reply, calls, Open
  <2>2. \A x \in Requests : at'[x] = at[x] \/ (at'[x] = "error" /\ at[x] \in Open)
    BY <1>a, <2>1
  <2> QED
    BY <2>1, <2>2, ReadsKept
<1>10. ASSUME NEW id \in Requests, PutBatch(id) \/ ClearAll(id) \/ Abort(id) PROVE ReadsInv'
  <2>1. UNCHANGED <<request, used, found, answer>> /\ at[id] = "tx"
        /\ (at' = [at EXCEPT ![id] = "event"] \/ at' = [at EXCEPT ![id] = "aborted"])
    BY <1>10 DEF PutBatch, ClearAll, Abort, MayRun, calls
  <2>2. \A x \in Requests : \/ at'[x] = at[x]
                            \/ at'[x] \in {"aborted", "event"} /\ at[x] = "tx"
    BY <1>a, <2>1
  <2> QED
    BY <2>1, <2>2, ReadsKept
<1>11. ASSUME NEW id \in Requests, ScanRanges(id) \/ CountAll(id) PROVE ReadsInv'
  <2>1. /\ at[id] = "tx" /\ at' = [at EXCEPT ![id] = "event"]
        /\ UNCHANGED <<request, used, answer>>
    BY <1>11 DEF ScanRanges, CountAll, MayRun
  <2>2. used[id] \in Configs /\ answer[id] = {}
    BY <2>1 DEF ValuesInv, ReadsInv
  <2>3. IsQuery(id) => \A row \in found'[id] : Scans(used[id], request[id], row[1])
    <3>1. CASE ScanRanges(id)
      BY <1>a, <3>1 DEF ScanRanges
    <3>2. CASE CountAll(id)
      BY <3>2 DEF CountAll, IsQuery
    <3> QED
      BY <1>11, <3>1, <3>2
  <2>4. \A x \in Requests : x # id => at'[x] = at[x] /\ found'[x] = found[x]
    BY <1>11, <1>a, <2>1 DEF ScanRanges, CountAll
  <2>5. at'[id] = "event"
    BY <1>a, <2>1
  <2>6. ASSUME NEW x \in Requests
        PROVE  /\ at'[x] \in {"unposted", "posted", "init", "open"} => used'[x] = NoIndexer
               /\ at'[x] \in {"unposted", "posted", "init", "open", "tx"} => found'[x] = Unread
               /\ at'[x] \notin {"ok", "lost"} => answer'[x] = {}
               /\ IsRead(x)' /\ found'[x] # Unread =>
                     /\ used'[x] \in Configs
                     /\ IsQuery(x)' =>
                           \A row \in found'[x] : Scans(used'[x], request'[x], row[1])
               /\ IsRead(x)' /\ at'[x] = "ok" =>
                     found'[x] # Unread /\ answer'[x] = Asked(x)' \intersect found'[x]
    <3>1. IsRead(x)' = IsRead(x) /\ IsQuery(x)' = IsQuery(x) /\ Asked(x)' = Asked(x)
      BY <2>1, AskedKept
    <3>2. CASE x = id
      BY <2>1, <2>2, <2>3, <2>5, <3>1, <3>2
    <3>3. CASE x # id
      BY <2>1, <2>4, <3>1, <3>3 DEF ReadsInv
    <3> QED
      BY <3>2, <3>3
  <2> QED
    BY <2>6 DEF ReadsInv
<1>12. ASSUME NEW id \in Requests, Finish(id) PROVE ReadsInv'
  <2>1. /\ at[id] = "event" /\ at' = [at EXCEPT ![id] = "ok"]
        /\ UNCHANGED <<request, used, found>>
    BY <1>12 DEF Finish, Reply
  <2>2. answer'[id] = IF IsRead(id) THEN Asked(id) \intersect found[id] ELSE {}
    BY <1>12, FinishAnswer
  <2>3. \A x \in Requests : x # id => at'[x] = at[x] /\ answer'[x] = answer[x]
    BY <1>12, <1>a, <2>1 DEF Finish
  <2>4. at'[id] = "ok" /\ (IsRead(id) => found[id] # Unread)
    BY <1>a, <2>1 DEF ValuesInv
  <2>5. ASSUME NEW x \in Requests
        PROVE  /\ at'[x] \in {"unposted", "posted", "init", "open"} => used'[x] = NoIndexer
               /\ at'[x] \in {"unposted", "posted", "init", "open", "tx"} => found'[x] = Unread
               /\ at'[x] \notin {"ok", "lost"} => answer'[x] = {}
               /\ IsRead(x)' /\ found'[x] # Unread =>
                     /\ used'[x] \in Configs
                     /\ IsQuery(x)' =>
                           \A row \in found'[x] : Scans(used'[x], request'[x], row[1])
               /\ IsRead(x)' /\ at'[x] = "ok" =>
                     found'[x] # Unread /\ answer'[x] = Asked(x)' \intersect found'[x]
    <3>1. IsRead(x)' = IsRead(x) /\ IsQuery(x)' = IsQuery(x) /\ Asked(x)' = Asked(x)
      BY <2>1, AskedKept
    <3>2. CASE x = id
      BY <2>1, <2>2, <2>4, <3>1, <3>2 DEF ReadsInv
    <3>3. CASE x # id
      BY <2>1, <2>3, <3>1, <3>3 DEF ReadsInv
    <3> QED
      BY <3>2, <3>3
  <2> QED
    BY <2>5 DEF ReadsInv
<1> QED
  BY <1>1, <1>2, <1>3, <1>6, <1>7, <1>8, <1>9, <1>10, <1>11, <1>12 DEF Next, Event

-----------------------------------------------------------------------------
(* What the snapshot sees of a request *)

Waits(x) == ~IsRead(x) \/ x \in pending \/ at[x] = "unposted"
Steps(x) == Snapshot(x)!Next \/ UNCHANGED Snapshot(x)!queryVars

LEMMA OutcomeIs ==
    ASSUME NEW x
    PROVE  /\ Waits(x) => Outcome(x) = "open"
           /\ ~Waits(x) /\ at[x] = "ok" => Outcome(x) = "complete"
           /\ ~Waits(x) /\ at[x] # "ok" => Outcome(x) = "failed"
           /\ Waits(x)' => Outcome(x)' = "open"
           /\ ~Waits(x)' /\ at'[x] = "ok" => Outcome(x)' = "complete"
           /\ ~Waits(x)' /\ at'[x] # "ok" => Outcome(x)' = "failed"
BY DEF Waits, Outcome

\* Steps that leave what is read alone, and end no read.
LEMMA ReadKept ==
    ASSUME NEW x \in Requests, UNCHANGED <<request, used>>,
           \/ Waits(x) /\ Waits(x)'
           \/ (Waits(x)' <=> Waits(x)) /\ at'[x] = at[x]
    PROVE  Asked(x)' = Asked(x) /\ Outcome(x)' = Outcome(x)
<1>1. Asked(x)' = Asked(x)
  BY AskedKept
<1>2. CASE Waits(x) /\ Waits(x)'
  BY <1>1, <1>2, OutcomeIs
<1>3. CASE (Waits(x)' <=> Waits(x)) /\ at'[x] = at[x]
  BY <1>1, <1>3, OutcomeIs
<1> QED
  BY <1>2, <1>3

LEMMA ViewKept ==
    ASSUME NEW x \in Requests, UNCHANGED <<obs, request, used, found, answer>>,
           \/ Waits(x) /\ Waits(x)'
           \/ (Waits(x)' <=> Waits(x)) /\ at'[x] = at[x]
    PROVE  UNCHANGED Snapshot(x)!queryVars
BY ReadKept DEF Snapshot!queryVars

LEMMA SnapshotInit == Init => \A id \in Requests : Snapshot(id)!Init
<1> SUFFICES ASSUME Init, NEW id \in Requests PROVE Snapshot(id)!Init
  OBVIOUS
<1>1. /\ obs = {} /\ at[id] = "unposted" /\ used[id] = NoIndexer
      /\ found[id] = Unread /\ answer[id] = {}
  BY DEF Init
<1>2. Asked(id) = {}
  BY <1>1 DEF Asked
<1>3. Outcome(id) = "open"
  BY <1>1, OutcomeIs DEF Waits
<1> QED
  BY <1>1, <1>2, <1>3 DEF Snapshot!Init

\* The page's steps: a reply that arrives ends its read, and a page that goes
\* ends every read it waits for.
LEMMA PostSteps ==
    ASSUME QueuesInv, NEW x \in Requests, NEW id \in Requests, Post(id)
    PROVE  Steps(x)
<1>1. /\ at[id] = "unposted" /\ at' = [at EXCEPT ![id] = "posted"]
      /\ pending' = pending \union {id}
      /\ UNCHANGED <<obs, request, used, found, answer>>
  BY DEF Post, disk, calls
<1>2. IsRead(x)' = IsRead(x)
  BY <1>1, AskedKept
<1>3. CASE x = id
  BY <1>1, <1>3, ViewKept DEF Waits, Steps
<1>4. CASE x # id
  <2>1. at'[x] = at[x]
    BY <1>1, <1>4 DEF QueuesInv
  <2> QED
    BY <1>1, <1>2, <1>4, <2>1, ViewKept DEF Waits, Steps
<1> QED
  BY <1>3, <1>4

\* A read that ends.
LEMMA Ends ==
    ASSUME NEW x \in Requests, UNCHANGED <<obs, request, used, found, answer>>,
           Waits(x), ~Waits(x)',
           at'[x] = "ok" => found[x] # Unread /\ answer[x] = Asked(x) \intersect found[x]
    PROVE  Steps(x)
<1>1. Asked(x)' = Asked(x)
  BY AskedKept
<1>2. Outcome(x) = "open"
  BY OutcomeIs
<1>3. CASE at'[x] = "ok"
  <2>1. Outcome(x)' = "complete"
    BY <1>3, OutcomeIs
  <2>2. Snapshot(x)!Complete
    BY <1>1, <1>2, <1>3, <2>1 DEF Snapshot!Complete
  <2> QED
    BY <2>2 DEF Steps, Snapshot!Next
<1>4. CASE at'[x] # "ok"
  <2>1. Outcome(x)' = "failed"
    BY <1>4, OutcomeIs
  <2>2. Snapshot(x)!Fail
    BY <1>1, <1>2, <2>1 DEF Snapshot!Fail
  <2> QED
    BY <2>2 DEF Steps, Snapshot!Next
<1> QED
  BY <1>3, <1>4

LEMMA ReceiveSteps ==
    ASSUME QueuesInv, ReadsInv, NEW x \in Requests, Receive
    PROVE  Steps(x)
<1>1. /\ outbox # <<>> /\ pending' = pending \ {Head(outbox)} /\ at' = at
      /\ UNCHANGED <<obs, request, used, found, answer>>
  BY DEF Receive, disk, calls
<1>2. Head(outbox) \in Requests /\ at[Head(outbox)] \in {"ok", "error"}
  BY <1>1, AmongTail DEF QueuesInv
<1>3. IsRead(x)' = IsRead(x)
  BY <1>1, AskedKept
<1>4. CASE IsRead(x) /\ x = Head(outbox)
  <2>1. Waits(x) /\ ~Waits(x)'
    <3>1. x \in pending
      BY <1>1, <1>4, AmongTail DEF QueuesInv
    <3> QED
      BY <1>1, <1>2, <1>3, <1>4, <3>1 DEF Waits
  <2>2. at'[x] = "ok" => found[x] # Unread /\ answer[x] = Asked(x) \intersect found[x]
    BY <1>1, <1>4 DEF ReadsInv
  <2> QED
    BY <1>1, <2>1, <2>2, Ends
<1>5. CASE ~IsRead(x) \/ x # Head(outbox)
  BY <1>1, <1>3, <1>5, ViewKept DEF Waits, Steps
<1> QED
  BY <1>4, <1>5

LEMMA ReloadSteps ==
    ASSUME QueuesInv, NEW x \in Requests, Reload
    PROVE  Steps(x)
<1>1. /\ at'[x] = IF x \in pending THEN "lost" ELSE at[x]
      /\ pending' = {} /\ UNCHANGED <<obs, request, used, found, answer>>
  BY DEF Reload, disk, calls
<1>2. IsRead(x)' = IsRead(x)
  BY <1>1, AskedKept
<1>3. CASE IsRead(x) /\ x \in pending
  <2>1. Waits(x) /\ ~Waits(x)' /\ at'[x] # "ok"
    BY <1>1, <1>2, <1>3 DEF Waits
  <2> QED
    BY <1>1, <2>1, Ends
<1>4. CASE ~IsRead(x) \/ x \notin pending
  BY <1>1, <1>2, <1>4, ViewKept DEF Waits, Steps
<1> QED
  BY <1>3, <1>4

\* The worker's steps.
LEMMA MovesKeepWaits ==
    ASSUME QueuesInv, NEW x \in Requests, NEW id \in Requests, at[id] \in Open,
           UNCHANGED <<request, pending>>, NEW p, at' = [at EXCEPT ![id] = p]
    PROVE  \/ Waits(x) /\ Waits(x)'
           \/ (Waits(x)' <=> Waits(x)) /\ at'[x] = at[x]
<1>1. IsRead(x)' = IsRead(x)
  BY DEF IsRead, IsQuery
<1>2. id \in pending
  BY DEF QueuesInv
<1>3. x # id => at'[x] = at[x]
  BY DEF QueuesInv
<1> QED
  BY <1>1, <1>2, <1>3 DEF Waits

LEMMA QuietSteps ==
    ASSUME QueuesInv, NEW x \in Requests, NEW id \in Requests, at[id] \in Open,
           UNCHANGED <<obs, request, used, found, answer, pending>>,
           \E p : at' = [at EXCEPT ![id] = p]
    PROVE  Steps(x)
<1>1. PICK p : at' = [at EXCEPT ![id] = p]
  OBVIOUS
<1>2. \/ Waits(x) /\ Waits(x)'
      \/ (Waits(x)' <=> Waits(x)) /\ at'[x] = at[x]
  BY <1>1, MovesKeepWaits
<1> QED
  BY <1>2, ViewKept DEF Steps

\* A transaction is where the question is put.
LEMMA OpenTxSteps ==
    ASSUME QueuesInv, ValuesInv, ReadsInv, NEW x \in Requests, NEW id \in Requests,
           OpenTx(id), at[id] \in {"posted", "open"}, indexer \in Configs,
           UNCHANGED <<obs, request, found, answer, pending>>
    PROVE  Steps(x)
<1>1. used' = [used EXCEPT ![id] = indexer] /\ at' = [at EXCEPT ![id] = "tx"]
  BY DEF OpenTx
<1>2. \/ Waits(x) /\ Waits(x)'
      \/ (Waits(x)' <=> Waits(x)) /\ at'[x] = at[x]
  BY <1>1, MovesKeepWaits DEF Open
<1>3. Outcome(x)' = Outcome(x) /\ IsRead(x)' = IsRead(x)
  BY <1>2, OutcomeIs DEF IsRead, IsQuery
<1>4. CASE x = id
  <2>1. /\ used'[x] = indexer /\ used[x] = NoIndexer
        /\ found[x] = Unread
    BY <1>1, <1>4 DEF ReadsInv, ValuesInv
  <2>2. Asked(x) = {}
    BY <2>1 DEF Asked
  <2>3. Asked(x)' \in SUBSET Rows
    <3>1. CASE ~IsRead(x)
      BY <1>3, <3>1 DEF Asked
    <3>2. CASE IsRead(x)
      <4> DEFINE p == <<indexer, request[x]>>
      <4>1. p \in Plans
        BY <3>2, OperationOf DEF Plans, IsRead, IsQuery, ValuesInv
      <4>2. Asked(x)' = Matches[p]
        BY <1>3, <2>1, <3>2, NoneIsNoConfig DEF Asked
      <4> HIDE DEF p
      <4>3. Matches[p] \subseteq Rows
        BY <4>1 DEF Matches
      <4> QED
        BY <4>2, <4>3
    <3> QED
      BY <3>1, <3>2
  <2>4. Asked(x) \intersect found[x] = {} /\ Asked(x)' \intersect found'[x] = {}
    BY <2>1, <2>2, <2>3, UnreadIsNone
  <2>5. Snapshot(x)!Ask
    BY <1>3, <2>1, <2>2, <2>3, <2>4 DEF Snapshot!Ask
  <2> QED
    BY <2>5 DEF Steps, Snapshot!Next
<1>5. CASE x # id
  <2>1. used'[x] = used[x]
    BY <1>1, <1>5 DEF ValuesInv
  <2>2. Asked(x)' = Asked(x)
    BY <1>3, <2>1 DEF Asked
  <2> QED
    BY <1>3, <2>2 DEF Steps, Snapshot!queryVars
<1> QED
  BY <1>4, <1>5

LEMMA TakeSteps ==
    ASSUME QueuesInv, ValuesInv, ReadsInv, NEW x \in Requests, NEW id \in Requests,
           ScanRanges(id) \/ CountAll(id)
    PROVE  Steps(x)
<1>1. /\ at[id] = "tx" /\ at' = [at EXCEPT ![id] = "event"]
      /\ UNCHANGED <<obs, request, used, answer, pending>>
  BY DEF ScanRanges, CountAll, MayRun, disk
<1>2. \/ Waits(x) /\ Waits(x)'
      \/ (Waits(x)' <=> Waits(x)) /\ at'[x] = at[x]
  BY <1>1, MovesKeepWaits DEF Open
<1>3. Asked(x)' = Asked(x) /\ Outcome(x)' = Outcome(x)
  BY <1>1, <1>2, ReadKept
<1>4. CASE x = id
  <2>1. used[x] \in Configs /\ found[x] = Unread
    BY <1>1, <1>4 DEF ValuesInv, ReadsInv
  <2>2. found'[x] \in SUBSET Rows /\ Asked(x) \intersect found'[x] = Asked(x) \intersect obs
    <3>1. CASE ScanRanges(id)
      <4>1. found'[x] = {row \in obs : Scans(used[x], request[x], row[1])}
        BY <1>4, <3>1 DEF ScanRanges, ValuesInv
      <4>2. IsRead(x) /\ request[x].op # "count"
        BY <1>4, <3>1 DEF ScanRanges, IsRead, IsQuery
      <4>3. Asked(x) = {row \in Rows : /\ Scans(used[x], request[x], row[1])
                                       /\ Passes(used[x], request[x], row[1])}
        BY <2>1, <4>2, AskedOf
      <4> QED
        BY <4>1, <4>3 DEF ValuesInv
    <3>2. CASE CountAll(id)
      BY <1>4, <3>2 DEF CountAll, ValuesInv
    <3> QED
      BY <3>1, <3>2
  <2>3. found'[x] # Unread
    BY <2>2, UnreadIsNone
  <2>4. Snapshot(x)!Take
    BY <1>1, <1>3, <2>1, <2>2, <2>3 DEF Snapshot!Take
  <2> QED
    BY <2>4 DEF Steps, Snapshot!Next
<1>5. CASE x # id
  <2>1. found'[x] = found[x]
    BY <1>5 DEF ScanRanges, CountAll, ValuesInv
  <2> QED
    BY <1>1, <1>3, <2>1 DEF Steps, Snapshot!queryVars
<1> QED
  BY <1>4, <1>5

LEMMA FinishSteps ==
    ASSUME QueuesInv, ValuesInv, ReadsInv, KeptInv,
           NEW x \in Requests, NEW id \in Requests, Finish(id)
    PROVE  Steps(x)
<1>1. /\ at[id] = "event" /\ at' = [at EXCEPT ![id] = "ok"]
      /\ UNCHANGED <<obs, request, used, found, pending>>
  BY DEF Finish, Reply, disk
<1>2. \/ Waits(x) /\ Waits(x)'
      \/ (Waits(x)' <=> Waits(x)) /\ at'[x] = at[x]
  BY <1>1, MovesKeepWaits DEF Open
<1>3. Asked(x)' = Asked(x) /\ Outcome(x)' = Outcome(x)
  BY <1>1, <1>2, ReadKept
<1>4. x = id => answer[x] = {}
               /\ answer'[x] = IF IsRead(x) THEN Asked(x) \intersect found[x] ELSE {}
  BY <1>1, FinishAnswer DEF ReadsInv
<1>5. x # id => answer'[x] = answer[x]
  BY DEF Finish, ValuesInv
<1>6. CASE x = id /\ IsRead(x)
  <2>1. found[x] # Unread /\ x \in pending
    BY <1>1, <1>6 DEF ValuesInv, QueuesInv, Open
  <2>2. Outcome(x) = "open"
    BY <2>1, OutcomeIs DEF Waits
  <2>3. Snapshot(x)!Show
    BY <1>1, <1>3, <1>4, <1>6, <2>1, <2>2 DEF Snapshot!Show
  <2> QED
    BY <2>3 DEF Steps, Snapshot!Next
<1>7. CASE ~(x = id /\ IsRead(x))
  <2>1. answer'[x] = answer[x]
    BY <1>4, <1>5, <1>7
  <2> QED
    BY <1>1, <1>3, <2>1 DEF Steps, Snapshot!queryVars
<1> QED
  BY <1>6, <1>7

\* What is committed is seen by every read in flight.
LEMMA ClearSteps ==
    ASSUME QueuesInv, NEW x \in Requests, NEW id \in Requests, ClearAll(id)
    PROVE  Steps(x)
<1>1. /\ at[id] = "tx" /\ at' = [at EXCEPT ![id] = "event"] /\ obs' = {}
      /\ UNCHANGED <<request, used, found, answer, pending>>
  BY DEF ClearAll, MayRun, calls
<1>2. \/ Waits(x) /\ Waits(x)'
      \/ (Waits(x)' <=> Waits(x)) /\ at'[x] = at[x]
  BY <1>1, MovesKeepWaits DEF Open
<1>3. Asked(x)' = Asked(x) /\ Outcome(x)' = Outcome(x)
  BY <1>1, <1>2, ReadKept
<1>4. Snapshot(x)!Clear
  BY <1>1, <1>3 DEF Snapshot!Clear
<1> QED
  BY <1>4 DEF Steps, Snapshot!Next

\* A set of numbers under a bound has a greatest.
LEMMA GreatestNumber ==
    ASSUME NEW L \in Nat, NEW T \in SUBSET (1..L), T # {}
    PROVE  \E m \in T : \A n \in T : n <= m
<1> DEFINE Before == OpToRel(<, Nat)
           U == {n \in Nat : L - n \in T}
<1>1. IsWellFoundedOn(Before, Nat)
  BY NatLessThanWellFounded
<1>2. ASSUME NEW m \in Nat, NEW n \in Nat, n < m PROVE <<n, m>> \in Before
  BY <1>2 DEF OpToRel
<1> HIDE DEF Before
<1>3. \A n \in T : L - n \in U
  OBVIOUS
<1>4. U \subseteq Nat /\ U # {}
  BY <1>3
<1>5. PICK m \in U : \A n \in U : ~(<<n, m>> \in Before)
  <2> HIDE DEF U
  <2> QED
    BY <1>1, <1>4, WFMin
<1>6. L - m \in T /\ m \in Nat
  BY <1>5
<1>7. ASSUME NEW n \in T PROVE n <= L - m
  <2>1. L - n \in Nat /\ ~(L - n < m)
    BY <1>2, <1>3, <1>4, <1>5, <1>6
  <2> QED
    BY <1>6, <2>1
<1> QED
  BY <1>6, <1>7

\* Putting a batch is putting what is left of it, one row a key, over the rest.
LEMMA PutIsOver ==
    ASSUME NEW held, NEW L \in Nat, NEW e, DOMAIN e = 1..L
    PROVE  PutAll(held, e) =
              PutAll({}, e) \union
              {row \in held : \A left \in PutAll({}, e) : row[1] # left[1]}
<1> DEFINE last == {m \in 1..L : \A k \in 1..L : k > m => e[k][1] # e[m][1]}
           left == {e[n] : n \in last}
<1>1. /\ PutAll({}, e) = left
      /\ PutAll(held, e) = left \union {row \in held : \A n \in 1..L : e[n][1] # row[1]}
  BY DEF PutAll
<1>2. ASSUME NEW key, NEW n \in 1..L, e[n][1] = key
      PROVE  \E m \in last : e[m][1] = key
  <2> DEFINE T == {m \in 1..L : e[m][1] = key}
  <2>1. T \in SUBSET (1..L) /\ T # {}
    BY <1>2
  <2>2. PICK m \in T : \A k \in T : k <= m
    <3> HIDE DEF T
    <3> QED
      BY <2>1, GreatestNumber
  <2>3. ASSUME NEW k \in 1..L, k > m PROVE e[k][1] # e[m][1]
    BY <2>2, <2>3
  <2> QED
    BY <2>2, <2>3
<1>3. ASSUME NEW row
      PROVE  (\A n \in 1..L : e[n][1] # row[1]) <=> (\A l \in left : row[1] # l[1])
  BY <1>2
<1> HIDE DEF left
<1> QED
  BY <1>1, <1>3

LEMMA PutSteps ==
    ASSUME QueuesInv, ValuesInv, NEW x \in Requests, NEW id \in Requests, PutBatch(id)
    PROVE  Steps(x)
<1> DEFINE e == Entries(used[id], request[id])
           batch == PutAll({}, e)
<1>1. /\ at[id] = "tx" /\ at' = [at EXCEPT ![id] = "event"]
      /\ request[id].op = "store" /\ obs' = PutAll(obs, e)
      /\ UNCHANGED <<request, used, found, answer, pending>>
  BY DEF PutBatch, MayRun, calls
<1>2. \/ Waits(x) /\ Waits(x)'
      \/ (Waits(x)' <=> Waits(x)) /\ at'[x] = at[x]
  BY <1>1, MovesKeepWaits DEF Open
<1>3. Asked(x)' = Asked(x) /\ Outcome(x)' = Outcome(x)
  BY <1>1, <1>2, ReadKept
<1>4. used[id] \in Configs /\ request[id] \in Operations
  BY <1>1, OperationOf DEF ValuesInv
<1>5. batch \in WriteBatches
  BY <1>1, <1>4 DEF WriteBatches
<1>6. Len(request[id].records) \in Nat /\ DOMAIN e = 1..Len(request[id].records)
  BY <1>1, <1>4, SessionsAssumption DEF Entries
<1> HIDE DEF e
<1>7. obs' = batch \union {row \in obs : \A left \in batch : row[1] # left[1]}
  BY <1>1, <1>6, PutIsOver
<1> HIDE DEF batch
<1>8. Snapshot(x)!Write(batch)
  BY <1>1, <1>3, <1>7 DEF Snapshot!Write, Snapshot!Over
<1> QED
  BY <1>5, <1>8 DEF Steps, Snapshot!Next

LEMMA EventSteps ==
    ASSUME QueuesInv, ValuesInv, ReadsInv, KeptInv,
           NEW x \in Requests, NEW id \in Requests, Event(id)
    PROVE  Steps(x)
<1>1. ASSUME at[id] \in {"posted", "open"}, Configure(id),
             UNCHANGED <<obs, request, found, answer, pending>>
      PROVE  Steps(x)
  <2>1. UNCHANGED used /\ at' = [at EXCEPT ![id] = "ok"]
    BY <1>1 DEF Configure, Reply
  <2> QED
    BY <1>1, <2>1, QuietSteps DEF Open
<1>2. CASE Handle(id)
  <2>1. /\ at[id] = "posted" /\ indexer # NoIndexer
        /\ UNCHANGED <<obs, request, found, answer, pending>>
    BY <1>2, TurnTaken DEF Handle, disk
  <2>2. CASE OpenTx(id)
    BY <2>1, <2>2, OpenTxSteps DEF ValuesInv
  <2>3. CASE Throw(id)
    <3>1. UNCHANGED used /\ at' = [at EXCEPT ![id] = "error"]
      BY <2>3 DEF Throw, Reply
    <3> QED
      BY <2>1, <3>1, QuietSteps DEF Open
  <2> QED
    BY <1>1, <1>2, <2>1, <2>2, <2>3 DEF Handle
<1>3. CASE OpenDone(id)
  <2>1. /\ at[id] = "open" /\ indexer \in Configs
        /\ UNCHANGED <<obs, request, found, answer, pending>>
    BY <1>3 DEF OpenDone, disk, ValuesInv
  <2> QED
    BY <1>1, <1>3, <2>1, OpenTxSteps DEF OpenDone
<1>4. CASE Instantiate(id) \/ InitDone(id) \/ ReadyFails(id) \/ Abort(id) \/ Aborted(id)
  <2>1. at[id] \in Open /\ UNCHANGED <<obs, request, used, found, answer, pending>>
    BY <1>4, TurnTaken DEF Instantiate, InitDone, ReadyFails, Abort, Aborted, Reply,
          disk, calls, Open
  <2>2. \E p : at' = [at EXCEPT ![id] = p]
    BY <1>4 DEF Instantiate, InitDone, ReadyFails, Abort, Aborted, Reply
  <2> QED
    BY <2>1, <2>2, QuietSteps
<1> QED
  BY <1>2, <1>3, <1>4, PutSteps, ClearSteps, TakeSteps, FinishSteps DEF Event

LEMMA SnapshotStep ==
    BrowserInv /\ ReadsInv /\ KeptInv /\ [Next]_vars => \A id \in Requests : Steps(id)
<1> SUFFICES ASSUME QueuesInv, ValuesInv, ReadsInv, KeptInv, [Next]_vars,
                    NEW id \in Requests
             PROVE  Steps(id)
  BY DEF BrowserInv
<1>1. CASE UNCHANGED vars
  <2>1. UNCHANGED <<obs, request, used, found, answer, at, pending>>
    BY <1>1 DEF vars, disk, calls
  <2>2. Waits(id)' <=> Waits(id)
    BY <2>1 DEF Waits, IsRead, IsQuery
  <2> QED
    BY <2>1, <2>2, ViewKept DEF Steps
<1> QED
  BY <1>1, PostSteps, EventSteps, ReceiveSteps, ReloadSteps DEF Next

\* Sessions that change no parameters: whatever requests, failures and reloads
\* come between a read's transaction, its reply and the page, the read is
\* answered with what the object store held at one moment of the rows it asks
\* for (transactions of web/idb.js, handlers of web/worker.js).
THEOREM ReadsAreSnapshots == ASSUME SameConfig PROVE Spec => ClientSnapshot
<1>1. Spec => []KeptInv
  <2>1. KeptInv /\ BrowserInv /\ [Next]_vars => KeptInv'
    BY KeptStep
  <2> QED
    BY <2>1, BrowserInvariant, KeptInit, PTL DEF Spec
<1>2. Spec => []ReadsInv
  BY <1>1, BrowserInvariant, ReadsInit, ReadsStep, PTL DEF Spec
<1>3. BrowserInv /\ ReadsInv /\ KeptInv /\ [Next]_vars =>
         [\A id \in Requests :
            Snapshot(id)!Next \/ UNCHANGED Snapshot(id)!queryVars]_vars
  BY SnapshotStep DEF Steps
<1> QED
  BY <1>1, <1>2, <1>3, BrowserInvariant, SnapshotInit, PTL DEF Spec, ClientSnapshot
=============================================================================
