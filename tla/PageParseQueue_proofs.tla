------------------------ MODULE PageParseQueue_proofs ------------------------
(* Proofs about PageParseQueue, for any dump, any number of dequeuers, any *)
(* sizes of batches, chunks and the queue, and any number of faults: no    *)
(* page is imported twice, pages come in the order of the dump, and what   *)
(* is lost is bounded by the faults.                                       *)
(*                                                                         *)
(* The invariant PipeInv compares the places a page passes through.  What  *)
(* is further on its way comes earlier in the dump (Along), so that places *)
(* are disjoint and joining two of them keeps their order.  It needs to    *)
(* know that the enqueuer has at most one call that can still be answered  *)
(* (OneCall): the batch it holds is then either in the server's hands or   *)
(* behind everything the server has (BatchIsNext).                         *)
(*                                                                         *)
(* The invariant LossInv counts.  A call that a dequeuer has forsaken is a *)
(* debt (Owed): the chunk it will cost is still the server's.  So what is  *)
(* lost already is paid for by the time-outs and kills less the debts      *)
(* (Spent), and every step that loses a chunk also settles a debt.         *)
EXTENDS PageParseQueue, FiniteSetTheorems, TLAPS

USE PipelineAssumption

Below(S, T) == \A x \in S, y \in T : x < y

-----------------------------------------------------------------------------
(* What the operators on sequences do to their elements and their order.   *)

LEMMA AppendOrder ==
  ASSUME NEW s \in Seq(Nat), NEW x \in Nat
  PROVE  /\ Append(s, x) \in Seq(Nat)
         /\ ToSet(Append(s, x)) = ToSet(s) \cup {x}
         /\ Increasing(s) /\ Below(ToSet(s), {x}) => Increasing(Append(s, x))
<1>1. Append(s, x) \in Seq(Nat) /\ Len(Append(s, x)) = Len(s) + 1
  OBVIOUS
<1>2. \A i \in 1..Len(s) : Append(s, x)[i] = s[i]
  OBVIOUS
<1>3. Append(s, x)[Len(s) + 1] = x
  OBVIOUS
<1>4. DOMAIN s = 1..Len(s) /\ DOMAIN Append(s, x) = 1..Len(s) + 1
  OBVIOUS
<1>5. ToSet(Append(s, x)) = ToSet(s) \cup {x}
  BY <1>1, <1>2, <1>3, <1>4 DEF ToSet
<1>6. ASSUME Increasing(s), Below(ToSet(s), {x})
      PROVE  Increasing(Append(s, x))
  <2>1. \A i \in 1..Len(s) : s[i] < x
    BY <1>4, <1>6 DEF Below, ToSet
  <2> SUFFICES ASSUME NEW i \in 1..Len(s) + 1, NEW j \in 1..Len(s) + 1, i < j
               PROVE  Append(s, x)[i] < Append(s, x)[j]
    BY <1>4 DEF Increasing
  <2>2. CASE j = Len(s) + 1
    BY <2>1, <2>2, <1>2, <1>3
  <2>3. CASE j # Len(s) + 1
    <3> DEFINE n == Len(s)
    <3>0. n \in Nat
      OBVIOUS
    <3>1. i \in 1..n /\ j \in 1..n
      <4> HIDE DEF n
      <4>1. i \in 1..n + 1 /\ j \in 1..n + 1 /\ i < j /\ j # n + 1
        BY <2>3 DEF n
      <4>2. QED
        BY <3>0, <4>1
    <3>2. QED
      BY <3>1, <1>2, <1>4, <1>6 DEF Increasing
  <2>4. QED
    BY <2>2, <2>3
<1>7. QED
  BY <1>1, <1>5, <1>6

LEMMA ConcatOrder ==
  ASSUME NEW s \in Seq(Nat), NEW t \in Seq(Nat)
  PROVE  /\ s \o t \in Seq(Nat)
         /\ ToSet(s \o t) = ToSet(s) \cup ToSet(t)
         /\ Increasing(s) /\ Increasing(t) /\ Below(ToSet(s), ToSet(t)) => Increasing(s \o t)
<1>1. s \o t \in Seq(Nat) /\ Len(s \o t) = Len(s) + Len(t)
  OBVIOUS
<1>2. \A i \in 1..Len(s) : (s \o t)[i] = s[i]
  OBVIOUS
<1>3. \A i \in 1..Len(t) : (s \o t)[Len(s) + i] = t[i]
  OBVIOUS
<1>4. /\ DOMAIN s = 1..Len(s) /\ DOMAIN t = 1..Len(t)
      /\ DOMAIN (s \o t) = 1..Len(s) + Len(t)
  BY <1>1
<1>5. ASSUME NEW i \in 1..Len(s) + Len(t), i \notin 1..Len(s)
      PROVE  i - Len(s) \in 1..Len(t) /\ (s \o t)[i] = t[i - Len(s)]
  <2>1. i - Len(s) \in 1..Len(t) /\ i = Len(s) + (i - Len(s))
    BY <1>5
  <2>2. QED
    BY <2>1, <1>3
<1>6. ToSet(s \o t) = ToSet(s) \cup ToSet(t)
  <2>1. ToSet(s \o t) \subseteq ToSet(s) \cup ToSet(t)
    BY <1>2, <1>4, <1>5 DEF ToSet
  <2>2. ToSet(s) \subseteq ToSet(s \o t)
    BY <1>2, <1>4 DEF ToSet
  <2>3. ToSet(t) \subseteq ToSet(s \o t)
    <3> SUFFICES ASSUME NEW i \in 1..Len(t)
                 PROVE  t[i] \in ToSet(s \o t)
      BY <1>4 DEF ToSet
    <3>1. Len(s) + i \in 1..Len(s) + Len(t)
      OBVIOUS
    <3>2. QED
      BY <3>1, <1>3, <1>4 DEF ToSet
  <2>4. QED
    BY <2>1, <2>2, <2>3
<1>7. ASSUME Increasing(s), Increasing(t), Below(ToSet(s), ToSet(t))
      PROVE  Increasing(s \o t)
  <2>1. \A i \in 1..Len(s), j \in 1..Len(t) : s[i] < t[j]
    BY <1>4, <1>7 DEF Below, ToSet
  <2> SUFFICES ASSUME NEW i \in 1..Len(s) + Len(t), NEW j \in 1..Len(s) + Len(t), i < j
               PROVE  (s \o t)[i] < (s \o t)[j]
    BY <1>4 DEF Increasing
  <2>2. CASE j \in 1..Len(s)
    <3>1. i \in 1..Len(s)
      BY <2>2
    <3>2. QED
      BY <3>1, <2>2, <1>2, <1>4, <1>7 DEF Increasing
  <2>3. CASE i \in 1..Len(s) /\ j \notin 1..Len(s)
    BY <2>3, <2>1, <1>2, <1>5
  <2>4. CASE i \notin 1..Len(s)
    <3>1. j \notin 1..Len(s)
      BY <2>4
    <3>2. i - Len(s) < j - Len(s)
      OBVIOUS
    <3>3. t[i - Len(s)] < t[j - Len(s)]
      BY <3>1, <3>2, <2>4, <1>4, <1>5, <1>7 DEF Increasing
    <3>4. QED
      BY <3>1, <3>3, <2>4, <1>5
  <2>5. QED
    BY <2>2, <2>3, <2>4
<1>8. QED
  BY <1>1, <1>6, <1>7

LEMMA SplitOrder ==
  ASSUME NEW s \in Seq(Nat), NEW n \in 0..Len(s), Increasing(s)
  PROVE  LET p == SubSeq(s, 1, n)
             q == SubSeq(s, n + 1, Len(s))
         IN  /\ p \in Seq(Nat) /\ q \in Seq(Nat)
             /\ Increasing(p) /\ Increasing(q)
             /\ ToSet(p) \subseteq ToSet(s) /\ ToSet(q) \subseteq ToSet(s)
             /\ Below(ToSet(p), ToSet(q))
<1> DEFINE p == SubSeq(s, 1, n)
           q == SubSeq(s, n + 1, Len(s))
<1>1. p \in Seq(Nat) /\ Len(p) = n /\ \A i \in 1..n : p[i] = s[i]
  <2>1. n \in Nat /\ n <= Len(s)
    OBVIOUS
  <2>2. \A i \in 1..n : i \in 1..Len(s) /\ s[i] \in Nat
    OBVIOUS
  <2>3. p \in Seq(Nat)
    BY <2>2, SMTT(30)
  <2>4. Len(p) = n
    BY <2>1
  <2>5. ASSUME NEW i \in 1..n PROVE p[i] = s[i]
    BY <2>1
  <2>6. QED
    BY <2>3, <2>4, <2>5
<1>2. q \in Seq(Nat) /\ Len(q) = Len(s) - n /\ \A i \in 1..Len(s) - n : q[i] = s[n + i]
  OBVIOUS
<1>3. DOMAIN s = 1..Len(s) /\ DOMAIN p = 1..n /\ DOMAIN q = 1..Len(s) - n
  BY <1>1, <1>2
<1>4. \A i \in 1..n : i \in 1..Len(s)
  OBVIOUS
<1>5. \A i \in 1..Len(s) - n : n + i \in 1..Len(s)
  OBVIOUS
<1> HIDE DEF p, q
<1>6. Increasing(p)
  BY <1>1, <1>3, <1>4 DEF Increasing
<1>7. Increasing(q)
  <2> SUFFICES ASSUME NEW i \in 1..Len(s) - n, NEW j \in 1..Len(s) - n, i < j
               PROVE  q[i] < q[j]
    BY <1>3 DEF Increasing
  <2>1. n + i < n + j
    OBVIOUS
  <2>2. QED
    BY <2>1, <1>2, <1>3, <1>5 DEF Increasing
<1>8. ToSet(p) \subseteq ToSet(s)
  BY <1>1, <1>3, <1>4 DEF ToSet
<1>9. ToSet(q) \subseteq ToSet(s)
  BY <1>2, <1>3, <1>5 DEF ToSet
<1>10. Below(ToSet(p), ToSet(q))
  <2> SUFFICES ASSUME NEW i \in 1..n, NEW j \in 1..Len(s) - n
               PROVE  p[i] < q[j]
    BY <1>3 DEF Below, ToSet
  <2>1. i < n + j
    OBVIOUS
  <2>2. QED
    BY <2>1, <1>1, <1>2, <1>3, <1>4, <1>5 DEF Increasing
<1>11. QED
  BY <1>1, <1>2, <1>6, <1>7, <1>8, <1>9, <1>10 DEF p, q

LEMMA HeadTailOrder ==
  ASSUME NEW s \in Seq(Nat), s # <<>>, Increasing(s)
  PROVE  /\ Head(s) \in Nat /\ Tail(s) \in Seq(Nat)
         /\ ToSet(s) = {Head(s)} \cup ToSet(Tail(s))
         /\ Increasing(Tail(s)) /\ Below({Head(s)}, ToSet(Tail(s)))
         /\ Len(Tail(s)) = Len(s) - 1
<1>1. Head(s) = s[1] /\ Len(s) \in Nat /\ Len(s) >= 1
  OBVIOUS
<1>2. Tail(s) \in Seq(Nat) /\ Len(Tail(s)) = Len(s) - 1 /\ \A i \in 1..Len(s) - 1 : Tail(s)[i] = s[i + 1]
  OBVIOUS
<1>3. DOMAIN s = 1..Len(s) /\ DOMAIN Tail(s) = 1..Len(s) - 1
  BY <1>2
<1>4. \A i \in 1..Len(s) - 1 : i + 1 \in 1..Len(s) /\ 1 < i + 1
  BY <1>1
<1>5. \A i \in 1..Len(s) : i = 1 \/ (i - 1 \in 1..Len(s) - 1 /\ Tail(s)[i - 1] = s[i])
  BY <1>1, <1>2
<1>6. ToSet(s) = {Head(s)} \cup ToSet(Tail(s))
  <2>1. ASSUME NEW x \in ToSet(s) PROVE x \in {Head(s)} \cup ToSet(Tail(s))
    <3>1. PICK i \in 1..Len(s) : x = s[i]
      BY <1>3 DEF ToSet
    <3>2. CASE i = 1
      BY <1>1, <3>1, <3>2
    <3>3. CASE i # 1
      <4>1. i - 1 \in DOMAIN Tail(s) /\ Tail(s)[i - 1] = x
        BY <1>3, <1>5, <3>1, <3>3
      <4>2. QED
        BY <4>1 DEF ToSet
    <3>4. QED
      BY <3>2, <3>3
  <2>2. ASSUME NEW x \in {Head(s)} \cup ToSet(Tail(s)) PROVE x \in ToSet(s)
    <3>1. CASE x = Head(s)
      <4>1. 1 \in DOMAIN s /\ x = s[1]
        BY <1>1, <1>3, <3>1
      <4>2. QED
        BY <4>1 DEF ToSet
    <3>2. CASE x \in ToSet(Tail(s))
      <4>1. PICK i \in 1..Len(s) - 1 : x = Tail(s)[i]
        BY <1>3, <3>2 DEF ToSet
      <4>2. i + 1 \in DOMAIN s /\ x = s[i + 1]
        BY <1>2, <1>3, <1>4, <4>1
      <4>3. QED
        BY <4>2 DEF ToSet
    <3>3. QED
      BY <3>1, <3>2
  <2>3. QED
    BY <2>1, <2>2
<1>7. Increasing(Tail(s))
  <2> SUFFICES ASSUME NEW i \in 1..Len(s) - 1, NEW j \in 1..Len(s) - 1, i < j
               PROVE  Tail(s)[i] < Tail(s)[j]
    BY <1>3 DEF Increasing
  <2>1. i + 1 < j + 1
    OBVIOUS
  <2>2. QED
    BY <2>1, <1>2, <1>3, <1>4 DEF Increasing
<1>8. Below({Head(s)}, ToSet(Tail(s)))
  <2> SUFFICES ASSUME NEW i \in 1..Len(s) - 1
               PROVE  s[1] < Tail(s)[i]
    BY <1>1, <1>3 DEF Below, ToSet
  <2>1. 1 \in 1..Len(s) /\ i + 1 \in 1..Len(s) /\ 1 < i + 1
    BY <1>1, <1>4
  <2>2. s[1] < s[i + 1]
    BY <2>1, <1>3 DEF Increasing
  <2>3. QED
    BY <2>2, <1>2
<1>9. QED
  BY <1>1, <1>2, <1>6, <1>7, <1>8

LEMMA EmptyOrder == <<>> \in Seq(Nat) /\ ToSet(<<>>) = {} /\ Increasing(<<>>)
BY DEF ToSet, Increasing

-----------------------------------------------------------------------------
(* The inductive invariant.                                                *)

Connection == [client : Client, body : Seq(Nat), live : BOOLEAN, answered : BOOLEAN]
Reply == [full : BOOLEAN, body : Seq(Nat)]
PipeTypes ==
  /\ rawPages \in Seq(Nat)
  /\ backlog \in Seq(Connection)
  /\ serving \in Connection \cup {Nothing}
  /\ reply \in [Client -> Reply \cup {Nothing}]
  /\ phase \in [Client -> Phase]
  /\ pages \in [Client -> Seq(Nat)]
  /\ nextPage \in Nat
  /\ imported \in [Dequeuer -> Seq(Nat)]
  /\ \A d \in Dequeuer : phase[d] = "handle" => pages[d] # <<>>

(* The places a page passes through: the line of connections, the one that *)
(* is served, the queue, and a dequeuer.                                   *)
InLine(i) == ToSet(backlog[i].body)
InService == IF serving # Nothing /\ ~serving.answered THEN ToSet(serving.body) ELSE {}
Queued == ToSet(rawPages)
Out(d) == ToSet(imported[d]) \cup ToSet(pages[d]) \cup ToSet(OnItsWay(d))
Batch == ToSet(pages[Enqueuer])

(* Each place holds its pages in order,                                    *)
OrderAt(d) ==
  /\ Increasing(imported[d]) /\ Increasing(pages[d]) /\ Increasing(OnItsWay(d))
  /\ Below(ToSet(imported[d]), ToSet(pages[d]))
  /\ Below(ToSet(imported[d]), ToSet(OnItsWay(d)))
  /\ Below(ToSet(pages[d]), ToSet(OnItsWay(d)))
InOrder ==
  /\ Increasing(rawPages) /\ Increasing(pages[Enqueuer])
  /\ serving # Nothing => Increasing(serving.body)
  /\ \A i \in DOMAIN backlog : Increasing(backlog[i].body)
  /\ \A d \in Dequeuer : OrderAt(d)
(* no two dequeuers have the same page,                                    *)
Apart == \A d, e \in Dequeuer : d # e => Out(d) \cap Out(e) = {}
(* and what is further on its way comes earlier in the dump.               *)
Along ==
  /\ \A d \in Dequeuer :
       /\ Below(Out(d), Queued) /\ Below(Out(d), InService) /\ Below(Out(d), {nextPage})
       /\ \A i \in DOMAIN backlog : Below(Out(d), InLine(i))
  /\ Below(Queued, InService) /\ Below(Queued, {nextPage})
  /\ Below(InService, {nextPage})
  /\ \A i \in DOMAIN backlog :
       Below(Queued, InLine(i)) /\ Below(InService, InLine(i)) /\ Below(InLine(i), {nextPage})
  /\ \A i, j \in DOMAIN backlog : i < j => Below(InLine(i), InLine(j))
  /\ Below(Batch, {nextPage})

(* A batch that is not in the server's hands is behind all others:         *)
Unsent ==
  \/ phase[Enqueuer] \in {"run", "connect"}
  \/ reply[Enqueuer] # Nothing /\ reply[Enqueuer].full
BatchIsNext ==
  Unsent =>
    /\ \A d \in Dequeuer : Below(Out(d), Batch)
    /\ Below(Queued, Batch) /\ Below(InService, Batch)
    /\ \A i \in DOMAIN backlog : Below(InLine(i), Batch)

(* the enqueuer has one call at most that is not answered, and it is the   *)
(* last that brings pages.                                                 *)
Calling(conn) == conn.live /\ conn.client = Enqueuer
Waiting == phase[Enqueuer] = "wait" /\ reply[Enqueuer] = Nothing
OneCall ==
  /\ reply[Enqueuer] # Nothing => phase[Enqueuer] = "wait"
  /\ serving # Nothing /\ ~serving.answered /\ Calling(serving) =>
       /\ Waiting /\ serving.body = pages[Enqueuer]
       /\ \A i \in DOMAIN backlog : ~Calling(backlog[i]) /\ InLine(i) = {}
  /\ \A i \in DOMAIN backlog : Calling(backlog[i]) =>
       /\ Waiting /\ backlog[i].body = pages[Enqueuer]
       /\ \A j \in DOMAIN backlog :
            /\ j # i => ~Calling(backlog[j])
            /\ i < j => InLine(j) = {}

Rest == InOrder /\ Apart /\ Along /\ BatchIsNext /\ OneCall
PipeInv == PipeTypes /\ Rest

-----------------------------------------------------------------------------
(* What the steps do to the places.                                        *)

LEMMA PlacesHoldPages ==
  ASSUME PipeTypes
  PROVE  /\ \A d \in Dequeuer : Out(d) \subseteq Nat
         /\ Queued \subseteq Nat /\ InService \subseteq Nat /\ Batch \subseteq Nat
         /\ \A i \in DOMAIN backlog : InLine(i) \subseteq Nat
<1>1. \A s \in Seq(Nat) : ToSet(s) \subseteq Nat
  BY DEF ToSet
<1>2. Enqueuer \in Client /\ Dequeuer \subseteq Client
  BY DEF Client
<1>3. \A d \in Dequeuer : OnItsWay(d) \in Seq(Nat)
  BY <1>2, EmptyOrder DEF PipeTypes, OnItsWay, Reply
<1>4. \A d \in Dequeuer : Out(d) \subseteq Nat
  BY <1>1, <1>2, <1>3 DEF PipeTypes, Out
<1>5. Queued \subseteq Nat /\ Batch \subseteq Nat
  BY <1>1, <1>2 DEF PipeTypes, Queued, Batch
<1>6. InService \subseteq Nat
  BY <1>1 DEF PipeTypes, InService, Connection
<1>7. \A i \in DOMAIN backlog : backlog[i] \in Connection
  BY DEF PipeTypes
<1>8. \A i \in DOMAIN backlog : InLine(i) \subseteq Nat
  BY <1>1, <1>7 DEF InLine, Connection
<1>9. QED
  BY <1>4, <1>5, <1>6, <1>8

(* The connections stay in their places, though clients may leave them.    *)
ConnsStay ==
  /\ backlog' \in Seq(Connection) /\ Len(backlog') = Len(backlog)
  /\ serving' \in Connection \cup {Nothing}
  /\ \A i \in DOMAIN backlog :
       /\ backlog'[i].body = backlog[i].body
       /\ Calling(backlog'[i]) => Calling(backlog[i])
  /\ serving' # Nothing =>
       /\ serving # Nothing /\ serving'.body = serving.body
       /\ serving'.answered = serving.answered
       /\ Calling(serving') => Calling(serving)

LEMMA NoCallStays ==
  ASSUME PipeTypes, NoCall
  PROVE  ConnsStay
BY DEF PipeTypes, NoCall, server, ConnsStay

NoneCalling ==
  /\ serving # Nothing /\ ~serving.answered => ~Calling(serving)
  /\ \A i \in DOMAIN backlog : ~Calling(backlog[i])

LEMMA DisconnectStays ==
  ASSUME PipeTypes, NEW c \in Client, Disconnect(c)
  PROVE  /\ ConnsStay
         /\ reply' \in [Client -> Reply \cup {Nothing}]
         /\ reply'[c] = Nothing
         /\ \A e \in Client \ {c} : reply'[e] = reply[e]
         /\ rawPages' = rawPages
         /\ c = Enqueuer => NoneCalling'
<1> DEFINE D(conn) == Dead(conn, c)
<1>1. ASSUME NEW conn \in Connection
      PROVE  /\ D(conn) \in Connection /\ D(conn).body = conn.body
             /\ D(conn).answered = conn.answered
             /\ Calling(D(conn)) => Calling(conn)
             /\ c = Enqueuer => ~Calling(D(conn))
  BY DEF Dead, Connection, Calling
<1>2. DOMAIN backlog = 1..Len(backlog) /\ \A i \in DOMAIN backlog : backlog[i] \in Connection
  BY DEF PipeTypes
<1>3. /\ backlog' = [i \in DOMAIN backlog |-> D(backlog[i])]
      /\ serving' = IF serving = Nothing THEN Nothing ELSE D(serving)
      /\ reply' = [reply EXCEPT ![c] = Nothing]
      /\ rawPages' = rawPages
  BY DEF Disconnect
<1> HIDE DEF D
<1>4. backlog' \in Seq(Connection) /\ Len(backlog') = Len(backlog) /\ DOMAIN backlog' = DOMAIN backlog
  BY <1>1, <1>2, <1>3 DEF PipeTypes
<1>5. \A i \in DOMAIN backlog : backlog'[i] = D(backlog[i])
  BY <1>3
<1>6. serving' \in Connection \cup {Nothing} /\ (serving' # Nothing => serving' = D(serving) /\ serving \in Connection /\ serving # Nothing)
  BY <1>1, <1>3 DEF PipeTypes
<1>7. ConnsStay
  BY <1>1, <1>2, <1>4, <1>5, <1>6 DEF ConnsStay
<1>8. c = Enqueuer => NoneCalling'
  BY <1>1, <1>2, <1>4, <1>5, <1>6 DEF NoneCalling
<1>9. /\ reply' \in [Client -> Reply \cup {Nothing}]
      /\ reply'[c] = Nothing
      /\ \A e \in Client \ {c} : reply'[e] = reply[e]
  BY <1>3 DEF PipeTypes
<1>10. QED
  BY <1>3, <1>7, <1>8, <1>9

(* Pages that stay where they are, or leave, disturb none of it.           *)
Stay ==
  /\ ConnsStay
  /\ UNCHANGED <<rawPages, nextPage>>
  /\ \A d \in Dequeuer : Out(d)' \subseteq Out(d)

LEMMA StayPlaces ==
  ASSUME PipeTypes, Stay
  PROVE  /\ DOMAIN backlog' = DOMAIN backlog
         /\ \A i \in DOMAIN backlog : InLine(i)' = InLine(i)
         /\ InService' \subseteq InService
         /\ Queued' = Queued
BY DEF PipeTypes, Stay, ConnsStay, InLine, InService, Queued

LEMMA StayApart ==
  ASSUME PipeTypes, Apart, Stay
  PROVE  Apart'
BY DEF Apart, Stay

LEMMA StayAlong ==
  ASSUME PipeTypes, Along, Stay, Batch' \subseteq Batch
  PROVE  Along'
BY StayPlaces DEF Along, Below, Stay

LEMMA StayBatch ==
  ASSUME PipeTypes, BatchIsNext, Stay, Batch' \subseteq Batch, Batch' = {} \/ (Unsent' => Unsent)
  PROVE  BatchIsNext'
BY StayPlaces DEF BatchIsNext, Below, Stay

LEMMA StayInOrder ==
  ASSUME PipeTypes, InOrder, Stay, Increasing(pages[Enqueuer])',
         \A d \in Dequeuer : OrderAt(d)'
  PROVE  InOrder'
<1>1. DOMAIN backlog' = DOMAIN backlog
  BY StayPlaces
<1>2. rawPages' = rawPages /\ Increasing(rawPages')
  BY DEF Stay, InOrder
<1>3. \A i \in DOMAIN backlog : Increasing(backlog'[i].body)
  BY DEF Stay, ConnsStay, InOrder
<1>4. serving' # Nothing => Increasing(serving'.body)
  BY DEF Stay, ConnsStay, InOrder
<1>5. QED
  BY <1>1, <1>2, <1>3, <1>4 DEF InOrder

LEMMA StayOneCall ==
  ASSUME PipeTypes, OneCall, Stay,
         \/ pages'[Enqueuer] = pages[Enqueuer] /\ phase'[Enqueuer] = phase[Enqueuer] /\ reply'[Enqueuer] = reply[Enqueuer]
         \/ NoneCalling' /\ reply'[Enqueuer] = Nothing
  PROVE  OneCall'
<1>1. DOMAIN backlog' = DOMAIN backlog /\ \A i \in DOMAIN backlog : InLine(i)' = InLine(i)
  BY StayPlaces
<1>2. CASE pages'[Enqueuer] = pages[Enqueuer] /\ phase'[Enqueuer] = phase[Enqueuer] /\ reply'[Enqueuer] = reply[Enqueuer]
  BY <1>1, <1>2 DEF OneCall, Waiting, Stay, ConnsStay
<1>3. CASE NoneCalling' /\ reply'[Enqueuer] = Nothing
  BY <1>1, <1>3 DEF OneCall, NoneCalling
<1>4. QED
  BY <1>2, <1>3

-----------------------------------------------------------------------------
(* The steps of one client that calls nobody.                              *)

(* What a dequeuer has is decided by these.                                *)
LEMMA UntouchedDequeuer ==
  ASSUME PipeTypes, NEW e \in Dequeuer, OrderAt(e),
         imported'[e] = imported[e], pages'[e] = pages[e], reply'[e] = reply[e]
  PROVE  Out(e)' = Out(e) /\ OrderAt(e)'
BY DEF Out, OnItsWay, OrderAt

LEMMA DequeuerMoves ==
  ASSUME PipeTypes, Rest, NEW d \in Dequeuer, ConnsStay, UNCHANGED <<rawPages, nextPage>>,
         \A e \in Client \ {d} : /\ pages'[e] = pages[e] /\ phase'[e] = phase[e]
                                 /\ reply'[e] = reply[e],
         \A e \in Dequeuer \ {d} : imported'[e] = imported[e],
         Out(d)' \subseteq Out(d), OrderAt(d)'
  PROVE  Rest'
<1>1. Enqueuer \in Client \ {d} /\ Dequeuer \subseteq Client
  BY PipelineAssumption DEF Client
<1>2. \A e \in Dequeuer : Out(e)' \subseteq Out(e) /\ OrderAt(e)'
  BY <1>1, UntouchedDequeuer DEF Rest, InOrder
<1>3. Stay
  BY <1>2 DEF Stay
<1>4. pages'[Enqueuer] = pages[Enqueuer] /\ phase'[Enqueuer] = phase[Enqueuer] /\ reply'[Enqueuer] = reply[Enqueuer]
  BY <1>1
<1>5. Batch' = Batch /\ (Unsent' => Unsent)
  BY <1>4 DEF Batch, Unsent
<1>6. Increasing(pages[Enqueuer])'
  BY <1>4 DEF Rest, InOrder, Increasing
<1>7. InOrder'
  BY <1>2, <1>3, <1>6, StayInOrder DEF Rest
<1>8. Apart' /\ Along'
  BY <1>3, <1>5, StayApart, StayAlong DEF Rest
<1>9. BatchIsNext'
  BY <1>3, <1>5, StayBatch DEF Rest
<1>10. OneCall'
  BY <1>3, <1>4, StayOneCall DEF Rest
<1>11. QED
  BY <1>7, <1>8, <1>9, <1>10 DEF Rest

(* The enqueuer ends its call, and keeps its batch only if it may send it. *)
LEMMA EnqueuerMoves ==
  ASSUME PipeTypes, Rest, ConnsStay, UNCHANGED <<rawPages, nextPage, imported>>,
         \A d \in Dequeuer : pages'[d] = pages[d] /\ reply'[d] = reply[d],
         pages'[Enqueuer] \in {pages[Enqueuer], <<>>},
         pages'[Enqueuer] = <<>> \/ (Unsent' => Unsent),
         NoneCalling', reply'[Enqueuer] = Nothing
  PROVE  Rest'
<1>1. \A e \in Dequeuer : Out(e)' \subseteq Out(e) /\ OrderAt(e)'
  BY UntouchedDequeuer DEF Rest, InOrder
<1>2. Stay
  BY <1>1 DEF Stay
<1>3. ToSet(<<>>) = {} /\ Increasing(<<>>)
  BY EmptyOrder
<1>4. Batch' \subseteq Batch /\ (Batch' = {} \/ (Unsent' => Unsent))
  BY <1>3 DEF Batch
<1>5. Increasing(pages[Enqueuer])'
  <2>1. Increasing(pages'[Enqueuer])
    BY <1>3 DEF Rest, InOrder
  <2>2. QED
    BY <2>1 DEF Increasing
<1>6. InOrder'
  BY <1>1, <1>2, <1>5, StayInOrder DEF Rest
<1>7. Apart' /\ Along'
  BY <1>2, <1>4, StayApart, StayAlong DEF Rest
<1>8. BatchIsNext'
  BY <1>2, <1>4, StayBatch DEF Rest
<1>9. OneCall'
  BY <1>2, StayOneCall DEF Rest
<1>10. QED
  BY <1>6, <1>7, <1>8, <1>9 DEF Rest

-----------------------------------------------------------------------------
(* page_parse_enqueuer                                                     *)

LEMMA AppendPageKeeps ==
  ASSUME PipeInv, NEW useful \in BOOLEAN, AppendPage(useful)
  PROVE  PipeInv'
<1> DEFINE batch == IF useful THEN Append(pages[Enqueuer], nextPage) ELSE pages[Enqueuer]
<1>1. Enqueuer \in Client /\ Dequeuer \subseteq Client /\ \A d \in Dequeuer : d # Enqueuer
  BY PipelineAssumption DEF Client
<1>2. PipeTypes /\ InOrder /\ Apart /\ Along /\ BatchIsNext /\ OneCall
  BY DEF PipeInv, Rest
<1>3. /\ pages[Enqueuer] \in Seq(Nat) /\ Increasing(pages[Enqueuer])
      /\ nextPage \in Nat /\ Below(Batch, {nextPage})
  BY <1>1, <1>2 DEF PipeTypes, InOrder, Along
<1>4. batch \in Seq(Nat) /\ Increasing(batch) /\ ToSet(batch) \subseteq Batch \cup {nextPage}
  BY <1>3, AppendOrder DEF Batch
<1> HIDE DEF batch
<1>5. /\ pages' = [pages EXCEPT ![Enqueuer] = batch] /\ nextPage' = nextPage + 1
      /\ phase[Enqueuer] = "run" /\ phase' \in [Client -> Phase]
      /\ \A d \in Dequeuer : phase'[d] = phase[d]
      /\ NoCall /\ UNCHANGED imported
      /\ phase'[Enqueuer] \in {"run", "connect"}
  BY <1>1, <1>2 DEF AppendPage, batch, PipeTypes, Phase
<1>6. pages' \in [Client -> Seq(Nat)] /\ pages'[Enqueuer] = batch /\ \A d \in Dequeuer : pages'[d] = pages[d]
  BY <1>1, <1>2, <1>4, <1>5 DEF PipeTypes
<1>7. UNCHANGED <<rawPages, backlog, serving, reply, imported>>
  BY <1>5 DEF NoCall, server
<1>8. PipeTypes'
  BY <1>2, <1>3, <1>5, <1>6, <1>7 DEF PipeTypes
<1>9. \A d \in Dequeuer : Out(d)' = Out(d) /\ OrderAt(d)'
  BY <1>1, <1>2, <1>6, <1>7, UntouchedDequeuer DEF InOrder
<1>10. /\ Queued' = Queued /\ InService' = InService /\ DOMAIN backlog' = DOMAIN backlog
       /\ \A i \in DOMAIN backlog : InLine(i)' = InLine(i)
  BY <1>7 DEF Queued, InService, InLine
<1>11. Batch' \subseteq Batch \cup {nextPage}
  BY <1>4, <1>6 DEF Batch
<1>12. /\ \A d \in Dequeuer : Out(d) \subseteq Nat
       /\ Queued \subseteq Nat /\ InService \subseteq Nat /\ Batch \subseteq Nat
       /\ \A i \in DOMAIN backlog : InLine(i) \subseteq Nat
  BY <1>2, PlacesHoldPages
<1>13. InOrder'
  <2>1. Increasing(pages[Enqueuer])'
    BY <1>4, <1>6 DEF Increasing
  <2>2. QED
    BY <2>1, <1>2, <1>7, <1>9 DEF InOrder
<1>14. Apart'
  BY <1>2, <1>9 DEF Apart
<1>15. Along'
  BY <1>2, <1>3, <1>5, <1>9, <1>10, <1>11, <1>12 DEF Along, Below
<1>16. BatchIsNext'
  <2>1. Unsent
    BY <1>5 DEF Unsent
  <2>2. QED
    BY <2>1, <1>2, <1>9, <1>10, <1>11 DEF BatchIsNext, Along, Below
<1>17. OneCall'
  BY <1>2, <1>5, <1>7, <1>10 DEF OneCall, Waiting
<1>18. QED
  BY <1>8, <1>13, <1>14, <1>15, <1>16, <1>17 DEF PipeInv, Rest

LEMMA LastBatchKeeps ==
  ASSUME PipeInv, LastBatch
  PROVE  PipeInv'
<1>1. Enqueuer \in Client /\ Dequeuer \subseteq Client /\ \A d \in Dequeuer : d # Enqueuer
  BY PipelineAssumption DEF Client
<1>2. PipeTypes /\ Rest
  BY DEF PipeInv
<1>3. /\ UNCHANGED <<rawPages, backlog, serving, reply, pages, nextPage, imported>>
      /\ phase' \in [Client -> Phase] /\ phase[Enqueuer] = "run" /\ phase'[Enqueuer] = "connect"
      /\ \A d \in Dequeuer : phase'[d] = phase[d]
  BY <1>1, <1>2 DEF LastBatch, NoCall, server, PipeTypes, Phase
<1>4. PipeTypes'
  BY <1>2, <1>3 DEF PipeTypes
<1>5. ConnsStay
  BY <1>2, <1>3 DEF ConnsStay, PipeTypes
<1>6. Unsent
  BY <1>3 DEF Unsent
<1>7. NoneCalling' /\ reply'[Enqueuer] = Nothing
  BY <1>2, <1>3 DEF Rest, OneCall, Waiting, NoneCalling
<1>8. Rest'
  BY <1>1, <1>2, <1>3, <1>5, <1>6, <1>7, EnqueuerMoves
<1>9. QED
  BY <1>4, <1>8 DEF PipeInv

LEMMA EnqueuerReturnsKeeps ==
  ASSUME PipeInv, EnqueuerReturns
  PROVE  PipeInv'
<1>1. Enqueuer \in Client /\ Dequeuer \subseteq Client /\ \A d \in Dequeuer : d # Enqueuer
  BY PipelineAssumption DEF Client
<1>2. PipeTypes /\ Rest
  BY DEF PipeInv
<1>3. /\ ConnsStay /\ UNCHANGED rawPages
      /\ reply' \in [Client -> Reply \cup {Nothing}] /\ reply'[Enqueuer] = Nothing
      /\ \A d \in Dequeuer : reply'[d] = reply[d]
      /\ NoneCalling'
  BY <1>1, <1>2, DisconnectStays DEF EnqueuerReturns
<1>4. UNCHANGED <<nextPage, imported>>
  BY DEF EnqueuerReturns, BatchDone
<1>5. /\ phase' \in [Client -> Phase] /\ pages' \in [Client -> Seq(Nat)]
      /\ \A d \in Dequeuer : phase'[d] = phase[d] /\ pages'[d] = pages[d]
      /\ pages'[Enqueuer] \in {pages[Enqueuer], <<>>}
  <2>1. CASE reply[Enqueuer].full
    BY <1>1, <1>2, <2>1 DEF EnqueuerReturns, PipeTypes, Phase
  <2>2. CASE ~reply[Enqueuer].full
    <3>1. BatchDone
      BY <2>2 DEF EnqueuerReturns
    <3>2. QED
      BY <1>1, <1>2, <3>1, EmptyOrder DEF BatchDone, PipeTypes, Phase
  <2>3. QED
    BY <2>1, <2>2
<1>6. pages'[Enqueuer] = <<>> \/ Unsent
  <2>1. CASE reply[Enqueuer].full
    BY <2>1 DEF EnqueuerReturns, Unsent
  <2>2. CASE ~reply[Enqueuer].full
    <3>1. pages' = [pages EXCEPT ![Enqueuer] = <<>>]
      BY <2>2 DEF EnqueuerReturns, BatchDone
    <3>2. QED
      BY <1>1, <1>2, <3>1 DEF PipeTypes
  <2>3. QED
    BY <2>1, <2>2
<1>7. PipeTypes'
  BY <1>2, <1>3, <1>4, <1>5 DEF PipeTypes, ConnsStay
<1>8. Rest'
  BY <1>1, <1>2, <1>3, <1>4, <1>5, <1>6, EnqueuerMoves
<1>9. QED
  BY <1>7, <1>8 DEF PipeInv

LEMMA EnqueuerFailsKeeps ==
  ASSUME PipeInv, EnqueuerFails
  PROVE  PipeInv'
<1>1. Enqueuer \in Client /\ Dequeuer \subseteq Client /\ \A d \in Dequeuer : d # Enqueuer
  BY PipelineAssumption DEF Client
<1>2. PipeTypes /\ Rest
  BY DEF PipeInv
<1>3. /\ ConnsStay /\ UNCHANGED rawPages
      /\ reply' \in [Client -> Reply \cup {Nothing}] /\ reply'[Enqueuer] = Nothing
      /\ \A d \in Dequeuer : reply'[d] = reply[d]
      /\ NoneCalling'
  <2>1. CASE phase[Enqueuer] = "connect" /\ NoCall
    <3>1. ConnsStay /\ UNCHANGED <<rawPages, backlog, serving, reply>>
      BY <1>2, <2>1, NoCallStays DEF NoCall, server
    <3>2. NoneCalling /\ reply[Enqueuer] = Nothing
      BY <1>2, <2>1 DEF Rest, OneCall, Waiting, NoneCalling
    <3>3. NoneCalling'
      BY <3>1, <3>2 DEF NoneCalling
    <3>4. QED
      BY <1>2, <3>1, <3>2, <3>3 DEF PipeTypes
  <2>2. CASE phase[Enqueuer] = "wait" /\ Disconnect(Enqueuer)
    BY <1>1, <1>2, <2>2, DisconnectStays
  <2>3. QED
    BY <2>1, <2>2 DEF EnqueuerFails
<1>4. UNCHANGED <<nextPage, imported>>
  BY DEF EnqueuerFails, BatchDone
<1>5. /\ phase' \in [Client -> Phase] /\ pages' \in [Client -> Seq(Nat)]
      /\ \A d \in Dequeuer : phase'[d] = phase[d] /\ pages'[d] = pages[d]
      /\ pages'[Enqueuer] = <<>>
  BY <1>1, <1>2, EmptyOrder DEF EnqueuerFails, BatchDone, PipeTypes, Phase
<1>6. PipeTypes'
  BY <1>2, <1>3, <1>4, <1>5 DEF PipeTypes, ConnsStay
<1>7. Rest'
  BY <1>1, <1>2, <1>3, <1>4, <1>5, EnqueuerMoves
<1>8. QED
  BY <1>6, <1>7 DEF PipeInv

LEMMA EnqueuerCallsKeeps ==
  ASSUME PipeInv, EnqueuerCalls
  PROVE  PipeInv'
<1> DEFINE conn == [client |-> Enqueuer, live |-> TRUE, answered |-> FALSE, body |-> pages[Enqueuer]]
<1>1. Enqueuer \in Client /\ Dequeuer \subseteq Client /\ \A d \in Dequeuer : d # Enqueuer
  BY PipelineAssumption DEF Client
<1>2. PipeTypes /\ InOrder /\ Apart /\ Along /\ BatchIsNext /\ OneCall
  BY DEF PipeInv, Rest
<1>3. conn \in Connection
  BY <1>1, <1>2 DEF Connection, PipeTypes
<1>4. /\ backlog' = Append(backlog, conn) /\ phase[Enqueuer] = "connect"
      /\ phase' = [phase EXCEPT ![Enqueuer] = "wait"]
      /\ UNCHANGED <<rawPages, serving, reply, pages, nextPage, imported>>
  BY DEF EnqueuerCalls, Connect
<1> HIDE DEF conn
<1>0. PICK n \in Nat : n = Len(backlog) + 1
  BY <1>2 DEF PipeTypes
<1>5. /\ backlog' \in Seq(Connection) /\ DOMAIN backlog = 1..Len(backlog) /\ Len(backlog) \in Nat
      /\ DOMAIN backlog' = 1..n /\ n \in DOMAIN backlog'
      /\ backlog'[n] = conn /\ \A i \in DOMAIN backlog : backlog'[i] = backlog[i]
  BY <1>0, <1>2, <1>3, <1>4 DEF PipeTypes
<1>6. \A i \in DOMAIN backlog' : i \in DOMAIN backlog \/ i = n
  BY <1>0, <1>5
<1>7. \A i \in DOMAIN backlog : i < n /\ i # n
  BY <1>0, <1>5
<1>8. phase' \in [Client -> Phase] /\ phase'[Enqueuer] = "wait" /\ \A d \in Dequeuer : phase'[d] = phase[d]
  BY <1>1, <1>2, <1>4 DEF PipeTypes, Phase
<1>9. PipeTypes'
  BY <1>2, <1>4, <1>5, <1>8 DEF PipeTypes
<1>10. /\ \A d \in Dequeuer : Out(d)' = Out(d) /\ OrderAt(d)'
       /\ Queued' = Queued /\ InService' = InService /\ Batch' = Batch
       /\ InLine(n)' = Batch /\ \A i \in DOMAIN backlog : InLine(i)' = InLine(i)
  <2>1. \A d \in Dequeuer : Out(d)' = Out(d) /\ OrderAt(d)'
    BY <1>1, <1>2, <1>4, UntouchedDequeuer DEF InOrder
  <2>2. Queued' = Queued /\ InService' = InService /\ Batch' = Batch
    BY <1>4 DEF Queued, InService, Batch
  <2>3. InLine(n)' = Batch /\ \A i \in DOMAIN backlog : InLine(i)' = InLine(i)
    BY <1>5 DEF InLine, Batch, conn
  <2>4. QED
    BY <2>1, <2>2, <2>3
<1>11. Unsent /\ ~Unsent' /\ reply[Enqueuer] = Nothing /\ NoneCalling
  BY <1>2, <1>4, <1>8 DEF Unsent, OneCall, Waiting, NoneCalling
<1>12. InOrder'
  <2>1. \A i \in DOMAIN backlog' : Increasing(backlog'[i].body)
    BY <1>2, <1>5, <1>6 DEF InOrder, conn
  <2>2. Increasing(pages[Enqueuer])'
    BY <1>2, <1>4 DEF InOrder
  <2>3. QED
    BY <2>1, <2>2, <1>2, <1>4, <1>10 DEF InOrder
<1>13. Apart'
  BY <1>2, <1>10 DEF Apart
<1>14. Along'
  <2>1. /\ \A d \in Dequeuer : Below(Out(d), Batch)
        /\ Below(Queued, Batch) /\ Below(InService, Batch)
        /\ \A i \in DOMAIN backlog : Below(InLine(i), Batch)
    BY <1>2, <1>11 DEF BatchIsNext
  <2>2. \A i \in DOMAIN backlog' :
          /\ \A d \in Dequeuer : Below(Out(d), InLine(i)')
          /\ Below(Queued, InLine(i)') /\ Below(InService, InLine(i)') /\ Below(InLine(i)', {nextPage})
    BY <2>1, <1>2, <1>6, <1>10 DEF Along
  <2>3. \A i, j \in DOMAIN backlog' : i < j => Below(InLine(i)', InLine(j)')
    <3> SUFFICES ASSUME NEW i \in DOMAIN backlog', NEW j \in DOMAIN backlog', i < j
                 PROVE  Below(InLine(i)', InLine(j)')
      OBVIOUS
    <3>1. i \in DOMAIN backlog
      BY <1>0, <1>5
    <3>2. CASE j \in DOMAIN backlog
      BY <3>1, <3>2, <1>2, <1>10 DEF Along
    <3>3. CASE j = n
      BY <3>1, <3>3, <2>1, <1>10
    <3>4. QED
      BY <3>2, <3>3, <1>6
  <2>4. QED
    BY <2>2, <2>3, <1>2, <1>4, <1>10 DEF Along
<1>15. BatchIsNext'
  BY <1>11 DEF BatchIsNext
<1>16. OneCall'
  <2>1. serving' # Nothing /\ ~serving'.answered => ~Calling(serving')
    BY <1>4, <1>11 DEF NoneCalling
  <2>2. \A i \in DOMAIN backlog : ~Calling(backlog'[i])
    BY <1>5, <1>11 DEF NoneCalling
  <2>3. Waiting'
    BY <1>4, <1>8, <1>11 DEF Waiting
  <2>4. backlog'[n].body = pages'[Enqueuer]
    BY <1>4, <1>5 DEF conn
  <2>5. \A j \in DOMAIN backlog' : (j # n => ~Calling(backlog'[j])) /\ ~(n < j)
    <3>1. \A j \in DOMAIN backlog' : ~(n < j)
      BY <1>0, <1>5
    <3>2. QED
      BY <3>1, <2>2, <1>6
  <2>6. QED
    BY <2>1, <2>2, <2>3, <2>4, <2>5, <1>4, <1>6, <1>8 DEF OneCall
<1>17. QED
  BY <1>9, <1>12, <1>13, <1>14, <1>15, <1>16 DEF PipeInv, Rest

-----------------------------------------------------------------------------
(* page_parse_dequeuer                                                     *)

LEMMA DequeuerConnects ==
  ASSUME PipeInv, NEW d \in Dequeuer, Connect(d), UNCHANGED <<pages, nextPage, imported>>
  PROVE  PipeInv'
<1> DEFINE conn == [client |-> d, live |-> TRUE, answered |-> FALSE, body |-> <<>>]
<1>1. Enqueuer \in Client /\ Dequeuer \subseteq Client /\ d # Enqueuer
  BY PipelineAssumption DEF Client
<1>2. PipeTypes /\ InOrder /\ Apart /\ Along /\ BatchIsNext /\ OneCall
  BY DEF PipeInv, Rest
<1>3. conn \in Connection /\ ~Calling(conn) /\ Increasing(conn.body) /\ ToSet(conn.body) = {}
  BY <1>1, EmptyOrder DEF Connection, Calling
<1>4. /\ backlog' = Append(backlog, conn) /\ phase' = [phase EXCEPT ![d] = "wait"]
      /\ UNCHANGED <<rawPages, serving, reply, pages, nextPage, imported>>
  BY <1>1 DEF Connect
<1> HIDE DEF conn
<1>5. PICK n \in Nat : n = Len(backlog) + 1
  BY <1>2 DEF PipeTypes
<1>6. /\ backlog' \in Seq(Connection) /\ DOMAIN backlog = 1..Len(backlog) /\ Len(backlog) \in Nat
      /\ DOMAIN backlog' = 1..n /\ n \in DOMAIN backlog'
      /\ backlog'[n] = conn /\ \A i \in DOMAIN backlog : backlog'[i] = backlog[i]
  BY <1>2, <1>3, <1>4, <1>5 DEF PipeTypes
<1>7. \A i \in DOMAIN backlog' : i \in DOMAIN backlog \/ i = n
  BY <1>5, <1>6
<1>8. phase' \in [Client -> Phase] /\ \A e \in Client \ {d} : phase'[e] = phase[e]
  BY <1>1, <1>2, <1>4 DEF PipeTypes, Phase
<1>9. phase'[d] = "wait"
  BY <1>1, <1>2, <1>4 DEF PipeTypes
<1>10. PipeTypes'
  BY <1>1, <1>2, <1>4, <1>6, <1>8, <1>9 DEF PipeTypes
<1>11. /\ \A e \in Dequeuer : Out(e)' = Out(e) /\ OrderAt(e)'
       /\ Queued' = Queued /\ InService' = InService /\ Batch' = Batch
       /\ InLine(n)' = {} /\ \A i \in DOMAIN backlog : InLine(i)' = InLine(i)
  <2>1. \A e \in Dequeuer : Out(e)' = Out(e) /\ OrderAt(e)'
    BY <1>1, <1>2, <1>4, UntouchedDequeuer DEF InOrder
  <2>2. Queued' = Queued /\ InService' = InService /\ Batch' = Batch
    BY <1>4 DEF Queued, InService, Batch
  <2>3. InLine(n)' = {} /\ \A i \in DOMAIN backlog : InLine(i)' = InLine(i)
    BY <1>3, <1>6 DEF InLine
  <2>4. QED
    BY <2>1, <2>2, <2>3
<1>12. phase'[Enqueuer] = phase[Enqueuer]
  BY <1>1, <1>8
<1>13. Unsent' = Unsent /\ Waiting' = Waiting
  BY <1>4, <1>12 DEF Unsent, Waiting
<1>14. InOrder'
  <2>1. \A i \in DOMAIN backlog' : Increasing(backlog'[i].body)
    BY <1>2, <1>3, <1>6, <1>7 DEF InOrder
  <2>2. Increasing(pages[Enqueuer])'
    BY <1>2, <1>4 DEF InOrder
  <2>3. QED
    BY <2>1, <2>2, <1>2, <1>4, <1>11 DEF InOrder
<1>15. Apart'
  BY <1>2, <1>11 DEF Apart
<1>16. Along'
  <2>1. \A i \in DOMAIN backlog' :
          /\ \A e \in Dequeuer : Below(Out(e), InLine(i)')
          /\ Below(Queued, InLine(i)') /\ Below(InService, InLine(i)') /\ Below(InLine(i)', {nextPage})
    BY <1>2, <1>7, <1>11 DEF Along, Below
  <2>2. \A i, j \in DOMAIN backlog' : i < j => Below(InLine(i)', InLine(j)')
    BY <1>2, <1>7, <1>11 DEF Along, Below
  <2>3. QED
    BY <2>1, <2>2, <1>2, <1>4, <1>11 DEF Along
<1>17. BatchIsNext'
  BY <1>2, <1>7, <1>11, <1>13 DEF BatchIsNext, Below
<1>18. OneCall'
  BY <1>2, <1>3, <1>4, <1>6, <1>7, <1>11, <1>12, <1>13 DEF OneCall
<1>19. QED
  BY <1>10, <1>14, <1>15, <1>16, <1>17, <1>18 DEF PipeInv, Rest

(* A dequeuer that gives up its call and otherwise keeps what it has.      *)
LEMMA DequeuerLeaves ==
  ASSUME PipeInv, NEW d \in Dequeuer, Disconnect(d) \/ NoCall,
         UNCHANGED <<pages, nextPage, imported>>,
         NEW p \in {"connect", "exit"}, phase' = [phase EXCEPT ![d] = p]
  PROVE  PipeInv'
<1>1. Enqueuer \in Client /\ Dequeuer \subseteq Client /\ d \in Client
  BY PipelineAssumption DEF Client
<1>2. PipeTypes /\ Rest
  BY DEF PipeInv
<1>3. /\ ConnsStay /\ UNCHANGED rawPages
      /\ reply' \in [Client -> Reply \cup {Nothing}]
      /\ \A e \in Client \ {d} : reply'[e] = reply[e]
      /\ reply'[d] \in {reply[d], Nothing}
  <2>1. CASE Disconnect(d)
    BY <1>1, <1>2, <2>1, DisconnectStays
  <2>2. CASE NoCall
    <3>1. ConnsStay
      BY <1>2, <2>2, NoCallStays
    <3>2. UNCHANGED <<rawPages, reply>>
      BY <2>2 DEF NoCall, server
    <3>3. QED
      BY <1>2, <3>1, <3>2 DEF PipeTypes
  <2>3. QED
    BY <2>1, <2>2
<1>4. /\ phase' \in [Client -> Phase] /\ phase'[d] = p
      /\ \A e \in Client \ {d} : phase'[e] = phase[e]
  BY <1>1, <1>2 DEF PipeTypes, Phase
<1>5. PipeTypes'
  BY <1>1, <1>2, <1>3, <1>4 DEF PipeTypes, ConnsStay
<1>6. OrderAt(d) /\ OnItsWay(d)' \in {OnItsWay(d), <<>>}
  BY <1>2, <1>3 DEF Rest, InOrder, OnItsWay
<1>7. Out(d)' \subseteq Out(d) /\ OrderAt(d)'
  BY <1>6, EmptyOrder DEF Out, OrderAt, Below
<1>8. Rest'
  BY <1>2, <1>3, <1>4, <1>7, DequeuerMoves
<1>9. QED
  BY <1>5, <1>8 DEF PipeInv

LEMMA DequeuerCallsKeeps ==
  ASSUME PipeInv, NEW d \in Dequeuer, DequeuerCalls(d)
  PROVE  PipeInv'
<1>1. UNCHANGED <<pages, nextPage, imported>>
  BY DEF DequeuerCalls
<1>2. CASE phase' = [phase EXCEPT ![d] = "exit"] /\ NoCall
  BY <1>1, <1>2, DequeuerLeaves
<1>3. CASE Connect(d)
  BY <1>1, <1>3, DequeuerConnects
<1>4. QED
  BY <1>2, <1>3 DEF DequeuerCalls

LEMMA DequeuerFailsKeeps ==
  ASSUME PipeInv, NEW d \in Dequeuer, DequeuerFails(d)
  PROVE  PipeInv'
<1>1. /\ UNCHANGED <<pages, nextPage, imported>>
      /\ phase' = [phase EXCEPT ![d] = "connect"]
      /\ Disconnect(d) \/ NoCall
  BY DEF DequeuerFails
<1>2. QED
  BY <1>1, DequeuerLeaves

LEMMA DequeuerReceivesKeeps ==
  ASSUME PipeInv, NEW d \in Dequeuer, DequeuerReceives(d)
  PROVE  PipeInv'
<1>1. Enqueuer \in Client /\ Dequeuer \subseteq Client /\ d \in Client
  BY PipelineAssumption DEF Client
<1>2. PipeTypes /\ Rest
  BY DEF PipeInv
<1>3. /\ ConnsStay /\ UNCHANGED rawPages
      /\ reply' \in [Client -> Reply \cup {Nothing}] /\ reply'[d] = Nothing
      /\ \A e \in Client \ {d} : reply'[e] = reply[e]
  BY <1>1, <1>2, DisconnectStays DEF DequeuerReceives
<1>4. /\ UNCHANGED <<nextPage, imported>> /\ reply[d] # Nothing
      /\ pages' = [pages EXCEPT ![d] = reply[d].body]
      /\ phase' = [phase EXCEPT ![d] = IF reply[d].body = <<>> THEN "connect" ELSE "handle"]
  BY DEF DequeuerReceives
<1>5. reply[d].body \in Seq(Nat) /\ OnItsWay(d) = reply[d].body
  BY <1>1, <1>2, <1>4 DEF PipeTypes, Reply, OnItsWay
<1>6. /\ pages' \in [Client -> Seq(Nat)] /\ pages'[d] = OnItsWay(d)
      /\ \A e \in Client \ {d} : pages'[e] = pages[e]
  BY <1>1, <1>2, <1>4, <1>5 DEF PipeTypes
<1>7. /\ phase' \in [Client -> Phase] /\ (phase'[d] = "handle" => reply[d].body # <<>>)
      /\ \A e \in Client \ {d} : phase'[e] = phase[e]
  BY <1>1, <1>2, <1>4 DEF PipeTypes, Phase
<1>8. PipeTypes'
  <2>1. \A e \in Dequeuer : phase'[e] = "handle" => pages'[e] # <<>>
    BY <1>1, <1>2, <1>5, <1>6, <1>7 DEF PipeTypes
  <2>2. QED
    BY <2>1, <1>2, <1>3, <1>4, <1>6, <1>7 DEF PipeTypes, ConnsStay
<1>9. OrderAt(d) /\ OnItsWay(d)' = <<>>
  BY <1>2, <1>3 DEF Rest, InOrder, OnItsWay
<1>10. Out(d)' \subseteq Out(d) /\ OrderAt(d)'
  BY <1>4, <1>6, <1>9, EmptyOrder DEF Out, OrderAt, Below
<1>11. Rest'
  BY <1>2, <1>3, <1>4, <1>6, <1>7, <1>10, DequeuerMoves
<1>12. QED
  BY <1>8, <1>11 DEF PipeInv

LEMMA HandlePageKeeps ==
  ASSUME PipeInv, NEW d \in Dequeuer, HandlePage(d)
  PROVE  PipeInv'
<1> DEFINE p == pages[d]
           more == Append(imported[d], Head(p))
<1>1. Enqueuer \in Client /\ Dequeuer \subseteq Client /\ d \in Client
  BY PipelineAssumption DEF Client
<1>2. PipeTypes /\ Rest
  BY DEF PipeInv
<1>3. /\ UNCHANGED <<rawPages, backlog, serving, reply, nextPage>> /\ NoCall
      /\ phase[d] = "handle"
      /\ imported' = [imported EXCEPT ![d] = more]
      /\ pages' = [pages EXCEPT ![d] = Tail(p)]
      /\ phase' = [phase EXCEPT ![d] = IF Len(p) = 1 THEN "connect" ELSE "handle"]
  BY DEF HandlePage, NoCall, server
<1>4. ConnsStay
  BY <1>2, <1>3, NoCallStays
<1>5. p \in Seq(Nat) /\ p # <<>> /\ imported[d] \in Seq(Nat) /\ OrderAt(d)
  BY <1>1, <1>2, <1>3 DEF PipeTypes, Rest, InOrder
<1>6. /\ Head(p) \in Nat /\ Tail(p) \in Seq(Nat)
      /\ ToSet(p) = {Head(p)} \cup ToSet(Tail(p))
      /\ Increasing(Tail(p)) /\ Below({Head(p)}, ToSet(Tail(p)))
      /\ Len(Tail(p)) = Len(p) - 1
  BY <1>5, HeadTailOrder DEF OrderAt
<1>7. /\ more \in Seq(Nat) /\ ToSet(more) = ToSet(imported[d]) \cup {Head(p)} /\ Increasing(more)
  <2>1. Below(ToSet(imported[d]), {Head(p)})
    BY <1>5, <1>6 DEF OrderAt, Below
  <2>2. QED
    BY <2>1, <1>5, <1>6, AppendOrder DEF OrderAt
<1>8. Len(p) # 1 => Tail(p) # <<>>
  <2>1. Len(p) \in Nat /\ Len(<<>>) = 0
    BY <1>5
  <2>2. Len(p) # 1 => Len(Tail(p)) # 0
    BY <2>1, <1>6
  <2>3. QED
    BY <2>1, <2>2
<1> HIDE DEF p, more
<1>9. /\ imported' \in [Dequeuer -> Seq(Nat)] /\ imported'[d] = more
      /\ \A e \in Dequeuer \ {d} : imported'[e] = imported[e]
  BY <1>2, <1>3, <1>7 DEF PipeTypes
<1>10. /\ pages' \in [Client -> Seq(Nat)] /\ pages'[d] = Tail(p)
       /\ \A e \in Client \ {d} : pages'[e] = pages[e]
  BY <1>1, <1>2, <1>3, <1>6 DEF PipeTypes
<1>11. /\ phase' \in [Client -> Phase] /\ (phase'[d] = "handle" => Tail(p) # <<>>)
       /\ \A e \in Client \ {d} : phase'[e] = phase[e]
  BY <1>1, <1>2, <1>3, <1>8 DEF PipeTypes, Phase
<1>12. PipeTypes'
  BY <1>1, <1>2, <1>3, <1>9, <1>10, <1>11 DEF PipeTypes
<1>13. OnItsWay(d)' = OnItsWay(d)
  BY <1>3 DEF OnItsWay
<1>14. Out(d)' \subseteq Out(d)
  BY <1>6, <1>7, <1>9, <1>10, <1>13 DEF Out, p
<1>15. OrderAt(d)'
  <2>1. /\ Increasing(more) /\ Increasing(Tail(p)) /\ Increasing(OnItsWay(d))
        /\ Below(ToSet(more), ToSet(Tail(p)))
        /\ Below(ToSet(more), ToSet(OnItsWay(d)))
        /\ Below(ToSet(Tail(p)), ToSet(OnItsWay(d)))
    BY <1>5, <1>6, <1>7 DEF OrderAt, Below, p
  <2>2. QED
    BY <2>1, <1>9, <1>10, <1>13 DEF OrderAt
<1>16. Rest'
  BY <1>2, <1>3, <1>4, <1>9, <1>10, <1>11, <1>14, <1>15, DequeuerMoves
<1>17. QED
  BY <1>12, <1>16 DEF PipeInv

-----------------------------------------------------------------------------
(* SIGINT, and steps that touch none of this.                              *)

places == <<rawPages, backlog, serving, reply, phase, pages, nextPage, imported>>

LEMMA UnchangedKeeps ==
  ASSUME PipeInv, UNCHANGED places
  PROVE  PipeInv'
<1>1. PipeTypes'
  BY DEF PipeInv, PipeTypes, places
<1>2. /\ \A d \in Dequeuer : Out(d)' = Out(d) /\ OrderAt(d)' = OrderAt(d)
      /\ Queued' = Queued /\ InService' = InService /\ Batch' = Batch
      /\ DOMAIN backlog' = DOMAIN backlog /\ \A i \in DOMAIN backlog : InLine(i)' = InLine(i)
      /\ Unsent' = Unsent /\ Waiting' = Waiting
  BY DEF places, Out, OrderAt, OnItsWay, Queued, InService, Batch, InLine, Unsent, Waiting
<1>3. InOrder'
  BY <1>2 DEF PipeInv, Rest, InOrder, places
<1>4. Apart' /\ Along' /\ BatchIsNext'
  BY <1>2 DEF PipeInv, Rest, Apart, Along, BatchIsNext, places
<1>5. OneCall'
  BY <1>2 DEF PipeInv, Rest, OneCall, places
<1>6. QED
  BY <1>1, <1>3, <1>4, <1>5 DEF PipeInv, Rest

LEMMA SigintKeeps ==
  ASSUME PipeInv, NEW c \in Client, Sigint(c)
  PROVE  PipeInv'
<1>1. Enqueuer \in Client /\ Dequeuer \subseteq Client /\ \A d \in Dequeuer : d # Enqueuer
  BY PipelineAssumption DEF Client
<1>2. PipeTypes /\ Rest
  BY DEF PipeInv
<1>3. UNCHANGED <<pages, nextPage, imported>>
  BY DEF Sigint
<1>4. CASE NoCall /\ UNCHANGED phase
  BY <1>3, <1>4, UnchangedKeeps DEF NoCall, server, places
<1>5. CASE Disconnect(c) /\ phase' = [phase EXCEPT ![c] = "exit"]
  <2>1. CASE c \in Dequeuer
    BY <2>1, <1>3, <1>5, DequeuerLeaves
  <2>2. CASE c = Enqueuer
    <3>1. /\ ConnsStay /\ UNCHANGED rawPages
          /\ reply' \in [Client -> Reply \cup {Nothing}] /\ reply'[Enqueuer] = Nothing
          /\ \A d \in Dequeuer : reply'[d] = reply[d]
          /\ NoneCalling'
      BY <1>1, <1>2, <1>5, <2>2, DisconnectStays
    <3>2. /\ phase' \in [Client -> Phase] /\ phase'[Enqueuer] = "exit"
          /\ \A d \in Dequeuer : phase'[d] = phase[d]
      BY <1>1, <1>2, <1>5, <2>2 DEF PipeTypes, Phase
    <3>3. ~Unsent'
      BY <3>1, <3>2 DEF Unsent
    <3>4. PipeTypes'
      BY <1>2, <1>3, <3>1, <3>2 DEF PipeTypes, ConnsStay
    <3>5. Rest'
      BY <1>1, <1>2, <1>3, <3>1, <3>3, EnqueuerMoves
    <3>6. QED
      BY <3>4, <3>5 DEF PipeInv
  <2>3. QED
    BY <2>1, <2>2 DEF Client
<1>6. QED
  BY <1>4, <1>5 DEF Sigint

-----------------------------------------------------------------------------
(* page_parse_queue_server                                                 *)

LEMMA HangupKeeps ==
  ASSUME PipeInv, Hangup
  PROVE  PipeInv'
<1>1. PipeTypes /\ InOrder /\ Apart /\ Along /\ BatchIsNext /\ OneCall
  BY DEF PipeInv, Rest
<1>2. /\ UNCHANGED <<rawPages, backlog, reply, phase, pages, nextPage, imported>>
      /\ serving # Nothing /\ serving.answered /\ serving' = Nothing
  BY DEF Hangup, batches
<1>3. PipeTypes'
  BY <1>1, <1>2 DEF PipeTypes
<1>4. /\ \A d \in Dequeuer : Out(d)' = Out(d) /\ OrderAt(d)' = OrderAt(d)
      /\ Queued' = Queued /\ InService' = InService /\ Batch' = Batch
      /\ DOMAIN backlog' = DOMAIN backlog /\ \A i \in DOMAIN backlog : InLine(i)' = InLine(i)
      /\ Unsent' = Unsent /\ Waiting' = Waiting
  BY <1>2 DEF Out, OrderAt, OnItsWay, Queued, InService, Batch, InLine, Unsent, Waiting
<1>5. InOrder'
  BY <1>1, <1>2, <1>4 DEF InOrder
<1>6. Apart' /\ Along' /\ BatchIsNext'
  BY <1>1, <1>2, <1>4 DEF Apart, Along, BatchIsNext
<1>7. OneCall'
  BY <1>1, <1>2, <1>4 DEF OneCall
<1>8. QED
  BY <1>3, <1>5, <1>6, <1>7 DEF PipeInv, Rest

LEMMA AcceptKeeps ==
  ASSUME PipeInv, Accept
  PROVE  PipeInv'
<1>1. PipeTypes /\ InOrder /\ Apart /\ Along /\ BatchIsNext /\ OneCall
  BY DEF PipeInv, Rest
<1>2. /\ UNCHANGED <<rawPages, reply, phase, pages, nextPage, imported>>
      /\ serving = Nothing /\ backlog # <<>>
      /\ serving' = backlog[1] /\ backlog' = Tail(backlog)
  BY <1>1 DEF Accept, batches, PipeTypes
<1>3. /\ 1 \in DOMAIN backlog /\ backlog[1] \in Connection
      /\ backlog' \in Seq(Connection)
      /\ \A i \in DOMAIN backlog' : i + 1 \in DOMAIN backlog /\ 1 < i + 1 /\ i + 1 # 1 /\ backlog'[i] = backlog[i + 1]
      /\ \A i, j \in DOMAIN backlog' : (i < j => i + 1 < j + 1) /\ (i # j => i + 1 # j + 1)
  BY <1>1, <1>2 DEF PipeTypes
<1>4. PipeTypes'
  BY <1>1, <1>2, <1>3 DEF PipeTypes
<1>5. /\ \A d \in Dequeuer : Out(d)' = Out(d) /\ OrderAt(d)' = OrderAt(d)
      /\ Queued' = Queued /\ Batch' = Batch /\ Unsent' = Unsent /\ Waiting' = Waiting
  BY <1>2 DEF Out, OrderAt, OnItsWay, Queued, Batch, Unsent, Waiting
<1>6. InService' \subseteq InLine(1) /\ InService = {}
  BY <1>2 DEF InService, InLine
<1>7. \A i \in DOMAIN backlog' : InLine(i)' = InLine(i + 1)
  BY <1>3 DEF InLine
<1>8. InOrder'
  BY <1>1, <1>2, <1>3, <1>5 DEF InOrder
<1>9. Apart'
  BY <1>1, <1>5 DEF Apart
<1>10. Along'
  <2>1. \A i \in DOMAIN backlog' :
          /\ \A d \in Dequeuer : Below(Out(d), InLine(i)')
          /\ Below(Queued, InLine(i)') /\ Below(InService', InLine(i)') /\ Below(InLine(i)', {nextPage})
    BY <1>1, <1>3, <1>6, <1>7 DEF Along, Below
  <2>2. \A i, j \in DOMAIN backlog' : i < j => Below(InLine(i)', InLine(j)')
    BY <1>1, <1>3, <1>7 DEF Along
  <2>3. \A d \in Dequeuer : Below(Out(d), InService')
    BY <1>1, <1>3, <1>6 DEF Along, Below
  <2>4. Below(Queued, InService') /\ Below(InService', {nextPage})
    BY <1>1, <1>3, <1>6 DEF Along, Below
  <2>5. QED
    BY <2>1, <2>2, <2>3, <2>4, <1>1, <1>2, <1>5 DEF Along
<1>11. BatchIsNext'
  BY <1>1, <1>3, <1>5, <1>6, <1>7 DEF BatchIsNext, Below
<1>12. OneCall'
  <2>1. reply'[Enqueuer] # Nothing => phase'[Enqueuer] = "wait"
    BY <1>1, <1>2 DEF OneCall
  <2>2. Calling(backlog[1]) =>
          /\ Waiting /\ backlog[1].body = pages[Enqueuer]
          /\ \A i \in DOMAIN backlog' : ~Calling(backlog'[i]) /\ InLine(i)' = {}
    BY <1>1, <1>3, <1>7 DEF OneCall
  <2>3. \A i \in DOMAIN backlog' : Calling(backlog'[i]) =>
          /\ Waiting /\ backlog'[i].body = pages[Enqueuer]
          /\ \A j \in DOMAIN backlog' :
               /\ j # i => ~Calling(backlog'[j])
               /\ i < j => InLine(j)' = {}
    BY <1>1, <1>3, <1>7 DEF OneCall
  <2>4. QED
    BY <2>1, <2>2, <2>3, <1>2, <1>5 DEF OneCall
<1>13. QED
  BY <1>4, <1>8, <1>9, <1>10, <1>11, <1>12 DEF PipeInv, Rest

LEMMA BelowApart ==
  ASSUME NEW S \in SUBSET Nat, NEW T \in SUBSET Nat, Below(S, T)
  PROVE  S \cap T = {}
BY DEF Below

LEMMA Answered ==
  ASSUME PipeTypes, serving # Nothing, NEW answer \in Reply, AnswerWith(answer)
  PROVE  /\ serving' \in Connection \cup {Nothing}
         /\ serving' # Nothing => serving'.body = serving.body /\ serving'.answered
         /\ InService' = {}
         /\ reply' \in [Client -> Reply \cup {Nothing}]
         /\ \A e \in Client \ {serving.client} : reply'[e] = reply[e]
         /\ reply'[serving.client] \in {reply[serving.client], answer}
         /\ ~serving.live => reply' = reply
         /\ UNCHANGED <<backlog, phase, pages, nextPage, imported>>
<1>1. serving \in Connection /\ serving.client \in Client
  BY DEF PipeTypes, Connection
<1>2. serving' \in Connection /\ serving'.body = serving.body /\ serving'.answered
  BY <1>1 DEF AnswerWith, Connection
<1>3. InService' = {}
  BY <1>2 DEF InService
<1>4. /\ reply' \in [Client -> Reply \cup {Nothing}]
      /\ \A e \in Client \ {serving.client} : reply'[e] = reply[e]
      /\ reply'[serving.client] \in {reply[serving.client], answer}
      /\ ~serving.live => reply' = reply
  BY <1>1 DEF AnswerWith, PipeTypes
<1>5. UNCHANGED <<backlog, phase, pages, nextPage, imported>>
  BY DEF AnswerWith, batches
<1>6. QED
  BY <1>2, <1>3, <1>4, <1>5

LEMMA HandleDequeueKeeps ==
  ASSUME PipeInv, NEW d \in Dequeuer, HandleDequeue(d)
  PROVE  PipeInv'
<1> DEFINE p == SubSeq(rawPages, 1, Amount)
           q == SubSeq(rawPages, Amount + 1, Len(rawPages))
           answer == [full |-> FALSE, body |-> p]
<1>1. Enqueuer \in Client \ {d} /\ Dequeuer \subseteq Client /\ d \in Client
  BY PipelineAssumption DEF Client
<1>2. PipeTypes /\ InOrder /\ Apart /\ Along /\ BatchIsNext /\ OneCall
  BY DEF PipeInv, Rest
<1>3. Amount \in 0..Len(rawPages)
  BY <1>2, PipelineAssumption DEF Amount, PipeTypes
<1>4. /\ p \in Seq(Nat) /\ q \in Seq(Nat) /\ Increasing(p) /\ Increasing(q)
      /\ ToSet(p) \subseteq Queued /\ ToSet(q) \subseteq Queued
      /\ Below(ToSet(p), ToSet(q))
  BY <1>2, <1>3, SplitOrder DEF PipeTypes, InOrder, Queued
<1>5. answer \in Reply /\ answer.body = p
  BY <1>4 DEF Reply
<1>6. serving # Nothing /\ ~serving.answered /\ serving.client = d /\ AnswerWith(answer) /\ rawPages' = q
  BY DEF HandleDequeue, Asked
<1> HIDE DEF p, q, answer
<1>7. /\ serving' \in Connection \cup {Nothing}
      /\ serving' # Nothing => serving'.body = serving.body /\ serving'.answered
      /\ InService' = {}
      /\ reply' \in [Client -> Reply \cup {Nothing}]
      /\ \A e \in Client \ {d} : reply'[e] = reply[e]
      /\ reply'[d] \in {reply[d], answer}
      /\ UNCHANGED <<backlog, phase, pages, nextPage, imported>>
  BY <1>2, <1>5, <1>6, Answered
<1>8. PipeTypes'
  BY <1>2, <1>4, <1>6, <1>7 DEF PipeTypes
<1>9. \A e \in Dequeuer \ {d} : Out(e)' = Out(e) /\ OrderAt(e)'
  BY <1>1, <1>2, <1>7, UntouchedDequeuer DEF InOrder
<1>10. Queued' = ToSet(q) /\ Batch' = Batch /\ \A i \in DOMAIN backlog : InLine(i)' = InLine(i)
  BY <1>6, <1>7 DEF Queued, Batch, InLine
<1>11. OnItsWay(d)' \in {OnItsWay(d), p, <<>>}
  BY <1>5, <1>7 DEF OnItsWay
<1>12. ToSet(imported[d]) \subseteq Out(d) /\ ToSet(pages[d]) \subseteq Out(d) /\ ToSet(OnItsWay(d)) \subseteq Out(d)
  BY DEF Out
<1>13. Out(d)' \subseteq Out(d) \cup ToSet(p)
  BY <1>7, <1>11, EmptyOrder DEF Out
<1>14. Below(Out(d), ToSet(p))
  BY <1>2, <1>4 DEF Along, Below
<1>15. OrderAt(d)'
  <2>1. Below(ToSet(imported[d]), ToSet(p)) /\ Below(ToSet(pages[d]), ToSet(p))
    BY <1>12, <1>14 DEF Below
  <2>2. OrderAt(d)
    BY <1>2 DEF InOrder
  <2>3. /\ Increasing(OnItsWay(d)') /\ Below(ToSet(imported[d]), ToSet(OnItsWay(d)'))
        /\ Below(ToSet(pages[d]), ToSet(OnItsWay(d)'))
    <3>1. Below(ToSet(imported[d]), {}) /\ Below(ToSet(pages[d]), {})
      BY DEF Below
    <3>2. QED
      BY <1>4, <1>11, <2>1, <2>2, <3>1, EmptyOrder DEF OrderAt
  <2>4. QED
    BY <1>7, <2>2, <2>3 DEF OrderAt
<1>16. InOrder'
  <2>1. \A e \in Dequeuer : OrderAt(e)'
    BY <1>9, <1>15
  <2>2. Increasing(rawPages') /\ Increasing(pages'[Enqueuer])
    BY <1>2, <1>4, <1>6, <1>7 DEF InOrder
  <2>3. serving' # Nothing => Increasing(serving'.body)
    BY <1>2, <1>6, <1>7 DEF InOrder
  <2>4. \A i \in DOMAIN backlog' : Increasing(backlog'[i].body)
    BY <1>2, <1>7 DEF InOrder
  <2>5. QED
    BY <2>1, <2>2, <2>3, <2>4 DEF InOrder
<1>17. Apart'
  <2>1. ASSUME NEW e \in Dequeuer \ {d}
        PROVE  Out(e)' \cap Out(d)' = {}
    <3>1. Out(e) \in SUBSET Nat /\ ToSet(p) \in SUBSET Nat
      BY <1>2, <1>4, PlacesHoldPages
    <3>2. Below(Out(e), ToSet(p))
      BY <1>2, <1>4 DEF Along, Below
    <3>3. Out(e) \cap ToSet(p) = {}
      BY <3>1, <3>2, BelowApart
    <3>4. Out(e) \cap Out(d) = {} /\ Out(e)' = Out(e)
      BY <1>2, <1>9 DEF Apart
    <3>5. QED
      BY <3>3, <3>4, <1>13
  <2>2. \A e, f \in Dequeuer \ {d} : e # f => Out(e)' \cap Out(f)' = {}
    BY <1>2, <1>9 DEF Apart
  <2>3. QED
    BY <2>1, <2>2 DEF Apart
<1>18. \A e \in Dequeuer : Out(e)' \subseteq Out(e) \cup Queued
  BY <1>4, <1>9, <1>13
<1>19. Along'
  <2>1. \A e \in Dequeuer : Below(Out(e)', ToSet(q))
    <3>1. Below(Out(d)', ToSet(q))
      BY <1>2, <1>4, <1>13 DEF Along, Below
    <3>2. \A e \in Dequeuer \ {d} : Below(Out(e)', ToSet(q))
      BY <1>2, <1>4, <1>9 DEF Along, Below
    <3>3. QED
      BY <3>1, <3>2
  <2>2. \A e \in Dequeuer : Below(Out(e)', {nextPage}) /\ \A i \in DOMAIN backlog : Below(Out(e)', InLine(i))
    BY <1>2, <1>18 DEF Along, Below
  <2>3. Below(ToSet(q), {nextPage}) /\ \A i \in DOMAIN backlog : Below(ToSet(q), InLine(i))
    BY <1>2, <1>4 DEF Along, Below
  <2>4. \A S : Below(S, {}) /\ Below({}, S)
    BY DEF Below
  <2>5. QED
    BY <2>1, <2>2, <2>3, <2>4, <1>2, <1>7, <1>10 DEF Along
<1>20. /\ Unsent' = Unsent /\ Waiting' = Waiting
       /\ reply'[Enqueuer] = reply[Enqueuer] /\ phase'[Enqueuer] = phase[Enqueuer] /\ pages'[Enqueuer] = pages[Enqueuer]
  BY <1>1, <1>7 DEF Unsent, Waiting
<1>21. BatchIsNext'
  BY <1>2, <1>4, <1>7, <1>10, <1>18, <1>20 DEF BatchIsNext, Below
<1>22. OneCall'
  BY <1>2, <1>7, <1>10, <1>20 DEF OneCall
<1>23. QED
  BY <1>8, <1>16, <1>17, <1>19, <1>21, <1>22 DEF PipeInv, Rest

LEMMA HandleEnqueueKeeps ==
  ASSUME PipeInv, HandleEnqueue
  PROVE  PipeInv'
<1> DEFINE batch == IF Full(serving.body) THEN <<>> ELSE serving.body
           answer == [full |-> Full(serving.body), body |-> <<>>]
<1>1. Enqueuer \in Client /\ Dequeuer \subseteq Client /\ \A d \in Dequeuer : d # Enqueuer
  BY PipelineAssumption DEF Client
<1>2. PipeTypes /\ InOrder /\ Apart /\ Along /\ BatchIsNext /\ OneCall
  BY DEF PipeInv, Rest
<1>3. /\ serving # Nothing /\ ~serving.answered /\ serving.client = Enqueuer
      /\ AnswerWith(answer) /\ rawPages' = rawPages \o batch
  BY DEF HandleEnqueue, Asked
<1>4. serving \in Connection /\ serving.body \in Seq(Nat) /\ InService = ToSet(serving.body)
  BY <1>2, <1>3 DEF PipeTypes, Connection, InService
<1>5. answer \in Reply
  BY EmptyOrder DEF Reply, Full
<1>6. /\ batch \in Seq(Nat) /\ Increasing(batch) /\ ToSet(batch) \subseteq InService
  BY <1>2, <1>3, <1>4, EmptyOrder DEF InOrder
<1> HIDE DEF batch, answer
<1>7. /\ serving' \in Connection \cup {Nothing}
      /\ serving' # Nothing => serving'.body = serving.body /\ serving'.answered
      /\ InService' = {}
      /\ reply' \in [Client -> Reply \cup {Nothing}]
      /\ \A e \in Dequeuer : reply'[e] = reply[e]
      /\ ~serving.live => reply' = reply
      /\ UNCHANGED <<backlog, phase, pages, nextPage, imported>>
  BY <1>1, <1>2, <1>3, <1>5, Answered
<1>8. Below(Queued, ToSet(batch)) /\ rawPages \in Seq(Nat) /\ Increasing(rawPages)
  BY <1>2, <1>6 DEF Along, Below, PipeTypes, InOrder
<1>9. /\ rawPages' \in Seq(Nat) /\ Increasing(rawPages')
      /\ Queued' \subseteq Queued \cup InService
  BY <1>3, <1>6, <1>8, ConcatOrder DEF Queued
<1>10. PipeTypes'
  BY <1>2, <1>7, <1>9 DEF PipeTypes
<1>11. \A e \in Dequeuer : Out(e)' = Out(e) /\ OrderAt(e)'
  BY <1>1, <1>2, <1>7, UntouchedDequeuer DEF InOrder
<1>12. Batch' = Batch /\ \A i \in DOMAIN backlog : InLine(i)' = InLine(i)
  BY <1>7 DEF Batch, InLine
<1>13. InOrder'
  <2>1. serving' # Nothing => Increasing(serving'.body)
    BY <1>2, <1>3, <1>7 DEF InOrder
  <2>2. (\A i \in DOMAIN backlog' : Increasing(backlog'[i].body)) /\ Increasing(pages'[Enqueuer])
    BY <1>2, <1>7 DEF InOrder
  <2>3. QED
    BY <2>1, <2>2, <1>9, <1>11 DEF InOrder
<1>14. Apart'
  BY <1>2, <1>11 DEF Apart
<1>15. Along'
  <2>1. \A S : Below(S, {}) /\ Below({}, S)
    BY DEF Below
  <2>2. /\ \A d \in Dequeuer : Below(Out(d), Queued')
        /\ Below(Queued', {nextPage}) /\ \A i \in DOMAIN backlog : Below(Queued', InLine(i))
    BY <1>2, <1>9 DEF Along, Below
  <2>3. QED
    BY <2>1, <2>2, <1>2, <1>7, <1>11, <1>12 DEF Along
<1>16. CASE ~serving.live
  <2>1. Unsent' = Unsent /\ Waiting' = Waiting
    BY <1>7, <1>16 DEF Unsent, Waiting
  <2>2. BatchIsNext'
    BY <1>2, <1>7, <1>9, <1>11, <1>12, <2>1 DEF BatchIsNext, Below
  <2>3. OneCall'
    BY <1>2, <1>7, <1>12, <1>16, <2>1 DEF OneCall
  <2>4. QED
    BY <2>2, <2>3, <1>10, <1>13, <1>14, <1>15 DEF PipeInv, Rest
<1>17. CASE serving.live
  <2>1. /\ Waiting /\ Batch = InService
        /\ \A i \in DOMAIN backlog : ~Calling(backlog[i]) /\ InLine(i) = {}
    BY <1>2, <1>3, <1>4, <1>17 DEF OneCall, Calling, Batch
  <2>2. phase'[Enqueuer] = "wait"
    BY <1>7, <2>1 DEF Waiting
  <2>3. OneCall'
    BY <1>7, <2>1, <2>2 DEF OneCall
  <2>4. Unsent' => Queued' = Queued
    <3>1. Unsent' => reply'[Enqueuer] # Nothing /\ reply'[Enqueuer].full
      BY <2>2 DEF Unsent
    <3>2. reply[Enqueuer] = Nothing
      BY <2>1 DEF Waiting
    <3>3. reply'[Enqueuer] \in {Nothing, answer}
      BY <1>2, <1>3, <1>5, <3>2, Answered
    <3>4. Unsent' => Full(serving.body)
      BY <3>1, <3>3 DEF answer
    <3>5. Full(serving.body) => rawPages' = rawPages
      BY <1>3, <1>8 DEF batch
    <3>6. QED
      BY <3>4, <3>5 DEF Queued
  <2>5. BatchIsNext'
    <3>1. \A S : Below(S, {}) /\ Below({}, S)
      BY DEF Below
    <3>2. (\A d \in Dequeuer : Below(Out(d), Batch)) /\ Below(Queued, Batch)
      BY <1>2, <2>1 DEF Along
    <3>3. QED
      BY <3>1, <3>2, <2>1, <2>4, <1>7, <1>11, <1>12 DEF BatchIsNext
  <2>6. QED
    BY <2>3, <2>5, <1>10, <1>13, <1>14, <1>15 DEF PipeInv, Rest
<1>18. QED
  BY <1>4, <1>16, <1>17 DEF Connection

-----------------------------------------------------------------------------
(* The invariant, and what follows from it.                                *)

LEMMA PipeInit == Init => PipeInv
<1> SUFFICES ASSUME Init
             PROVE  PipeInv
  OBVIOUS
<1>1. /\ rawPages = <<>> /\ backlog = <<>> /\ serving = Nothing /\ nextPage = 1
      /\ reply = [c \in Client |-> Nothing]
      /\ phase = [c \in Client |-> IF c = Enqueuer THEN "run" ELSE "connect"]
      /\ pages = [c \in Client |-> <<>>]
      /\ imported = [d \in Dequeuer |-> <<>>]
  BY DEF Init
<1>2. Enqueuer \in Client /\ Dequeuer \subseteq Client /\ Enqueuer \notin Dequeuer
  BY PipelineAssumption DEF Client
<1>3. PipeTypes
  <2>1. phase \in [Client -> Phase]
    BY <1>1 DEF Phase
  <2>2. \A d \in Dequeuer : phase[d] # "handle"
    BY <1>1, <1>2
  <2>3. QED
    BY <1>1, <2>1, <2>2, EmptyOrder DEF PipeTypes
<1>4. /\ \A d \in Dequeuer : imported[d] = <<>> /\ pages[d] = <<>> /\ OnItsWay(d) = <<>> /\ Out(d) = {}
      /\ Queued = {} /\ InService = {} /\ Batch = {} /\ DOMAIN backlog = {} /\ pages[Enqueuer] = <<>>
  BY <1>1, <1>2, EmptyOrder DEF Out, OnItsWay, Queued, InService, Batch
<1>5. \A S : Below(S, {}) /\ Below({}, S)
  BY DEF Below
<1>6. \A d \in Dequeuer : OrderAt(d)
  BY <1>4, <1>5, EmptyOrder DEF OrderAt
<1>7. InOrder
  BY <1>1, <1>4, <1>6, EmptyOrder DEF InOrder
<1>8. Apart /\ Along /\ BatchIsNext
  BY <1>4, <1>5 DEF Apart, Along, BatchIsNext
<1>9. OneCall
  BY <1>1, <1>2, <1>4 DEF OneCall
<1>10. QED
  BY <1>3, <1>7, <1>8, <1>9 DEF PipeInv, Rest

LEMMA PipeNext == PipeInv /\ [Next]_vars => PipeInv'
<1> SUFFICES ASSUME PipeInv, [Next]_vars
             PROVE  PipeInv'
  OBVIOUS
<1>1. CASE ServerStep
  BY <1>1, AcceptKeeps, HandleDequeueKeeps, HandleEnqueueKeeps, HangupKeeps DEF ServerStep
<1>2. CASE EnqueuerStep
  BY <1>2, AppendPageKeeps, LastBatchKeeps, EnqueuerCallsKeeps, EnqueuerReturnsKeeps
  DEF EnqueuerStep
<1>3. CASE EnqueuerFails
  BY <1>3, EnqueuerFailsKeeps
<1>4. ASSUME NEW d \in Dequeuer, DequeuerStep(d) \/ DequeuerFails(d)
      PROVE  PipeInv'
  BY <1>4, DequeuerCallsKeeps, DequeuerReceivesKeeps, HandlePageKeeps, DequeuerFailsKeeps
  DEF DequeuerStep
<1>5. ASSUME NEW c \in Client, Sigint(c)
      PROVE  PipeInv'
  BY <1>5, SigintKeeps
<1>6. CASE UNCHANGED vars
  BY <1>6, UnchangedKeeps DEF vars, server, batches, places
<1>7. QED
  BY <1>1, <1>2, <1>3, <1>4, <1>5, <1>6 DEF Next

LEMMA GotIsOut ==
  ASSUME PipeInv, NEW d \in Dequeuer
  PROVE  Increasing(Got(d)) /\ ToSet(Got(d)) = Out(d)
<1> DEFINE s == imported[d] \o pages[d]
<1>1. /\ imported[d] \in Seq(Nat) /\ pages[d] \in Seq(Nat) /\ OnItsWay(d) \in Seq(Nat)
  BY EmptyOrder DEF PipeInv, PipeTypes, Client, OnItsWay, Reply
<1>2. OrderAt(d)
  BY DEF PipeInv, Rest, InOrder
<1>3. s \in Seq(Nat) /\ ToSet(s) = ToSet(imported[d]) \cup ToSet(pages[d]) /\ Increasing(s)
  BY <1>1, <1>2, ConcatOrder DEF OrderAt
<1> HIDE DEF s
<1>4. Below(ToSet(s), ToSet(OnItsWay(d)))
  BY <1>2, <1>3 DEF OrderAt, Below
<1>5. Increasing(s \o OnItsWay(d)) /\ ToSet(s \o OnItsWay(d)) = ToSet(s) \cup ToSet(OnItsWay(d))
  BY <1>1, <1>2, <1>3, <1>4, ConcatOrder DEF OrderAt
<1>6. Got(d) = s \o OnItsWay(d)
  BY DEF Got, s
<1>7. QED
  BY <1>3, <1>5, <1>6 DEF Out

LEMMA PipeInvImplies == PipeInv => AtMostOnceInDumpOrder
<1> SUFFICES ASSUME PipeInv
             PROVE  AtMostOnceInDumpOrder
  OBVIOUS
<1>1. PipeTypes /\ InOrder /\ Apart /\ Along
  BY DEF PipeInv, Rest
<1>2. \A d \in Dequeuer : Increasing(Got(d)) /\ ToSet(Got(d)) = Out(d)
  BY GotIsOut
<1>3. \A d \in Dequeuer : Out(d) \cap Queued = {}
  BY <1>1, PlacesHoldPages, BelowApart DEF Along
<1>4. QED
  BY <1>1, <1>2, <1>3 DEF AtMostOnceInDumpOrder, InOrder, Apart, Queued

(* For every dump, every number of dequeuers, all sizes and any number of  *)
(* failed, timed out and abandoned calls and of SIGINTs: no page reaches   *)
(* two dequeuers, or one twice, and each gets its pages in dump order.     *)
THEOREM PagesAtMostOnceInOrder == Spec => []AtMostOnceInDumpOrder
<1>1. Spec => []PipeInv
  BY PipeInit, PipeNext, PTL DEF Spec
<1>2. QED
  BY <1>1, PipeInvImplies, PTL
HIDE PipelineAssumption

-----------------------------------------------------------------------------
(* What the pipeline loses.                                                *)

(* The connections by their place in the line; the one being served is at  *)
(* place 0.  A call is open until it is answered: then somebody waits for  *)
(* it, or a dequeuer has forsaken it, and the server will hand it a chunk  *)
(* that nobody receives.                                                   *)
Places == 0..Len(backlog)
At(i) == IF i = 0 THEN serving ELSE backlog[i]
Open(i) == At(i) # Nothing /\ ~At(i).answered
Awaited(i, c) == Open(i) /\ At(i).live /\ At(i).client = c
Forsaken(i) == Open(i) /\ ~At(i).live /\ At(i).client \in Dequeuer
Owed == {i \in Places : Forsaken(i)}

(* The enqueuer: its pages are in its batch, and were in the bodies of its *)
(* calls, until the server has accepted them or they will never be sent.   *)
Known ==
  /\ accepted \subseteq given /\ given \subseteq Page /\ Batch \subseteq given
  /\ \A i \in Places : At(i) # Nothing => ToSet(At(i).body) \subseteq given
  /\ reply[Enqueuer] # Nothing => reply[Enqueuer].body = <<>>
BatchFits ==
  /\ Len(pages[Enqueuer]) <= BatchSize
  /\ phase[Enqueuer] = "run" => Len(pages[Enqueuer]) < BatchSize
  /\ nextPage \in 1..NumPages + 1 /\ failures \in 0..MaxFailures
Delivered == reply[Enqueuer] # Nothing /\ ~reply[Enqueuer].full => Batch \subseteq accepted
SentCount == Cardinality(NeverSent) <= BatchSize * (failures + Stopped(Enqueuer))
EnqueuerInv == Known /\ BatchFits /\ Delivered /\ SentCount

(* The dequeuers: what they have was accepted and comes in chunks; while   *)
(* one waits it has nothing else, and it waits for one call at most.       *)
QueueFits == Len(rawPages) <= QueueSize /\ Queued \subseteq accepted
ChunksOf(d) ==
  /\ Out(d) \subseteq accepted
  /\ Len(pages[d]) <= ChunkSize /\ Len(OnItsWay(d)) <= ChunkSize
OneCallOf(d) ==
  /\ pages[d] # <<>> => phase[d] \in {"handle", "exit"}
  /\ reply[d] # Nothing => phase[d] = "wait"
  /\ \A i \in Places : Awaited(i, d) =>
       /\ phase[d] = "wait" /\ reply[d] = Nothing
       /\ \A j \in Places : Awaited(j, d) => i = j
(* Gone are the pages no dequeuer has, though the server accepted them: a  *)
(* chunk for each call that was forsaken, unless the server still has it.  *)
Has(d) == IF phase[d] # "exit" THEN Out(d) ELSE ToSet(imported[d])
Gone == {x \in accepted : x \notin Queued /\ \A d \in Dequeuer : x \notin Has(d)}
Spent == timeouts + Cardinality(Killed) - Cardinality(Owed)
LostCount ==
  /\ IsFiniteSet(Killed) /\ timeouts \in 0..MaxTimeouts
  /\ Spent \in Nat /\ Cardinality(Gone) <= ChunkSize * Spent
DequeuersInv == QueueFits /\ LostCount /\ \A d \in Dequeuer : ChunksOf(d) /\ OneCallOf(d)

Signalled ==
  /\ signals \in [Client -> 0..2]
  /\ \A c \in Client : signals[c] = 2 => phase[c] = "exit"
  /\ \A i \in DOMAIN backlog : ~backlog[i].answered

LossInv == EnqueuerInv /\ DequeuersInv /\ Signalled


(* Counting.                                                               *)

LEMMA SetOfSequence ==
  ASSUME NEW s \in Seq(Nat)
  PROVE  IsFiniteSet(ToSet(s)) /\ Cardinality(ToSet(s)) <= Len(s)
<1>1. Len(s) \in Nat /\ DOMAIN s = 1..Len(s) /\ s \in [1..Len(s) -> ToSet(s)]
  BY DEF ToSet
<1>2. s \in Surjection(1..Len(s), ToSet(s))
  BY <1>1 DEF Surjection, ToSet
<1>3. IsFiniteSet(1..Len(s)) /\ Cardinality(1..Len(s)) = Len(s)
  BY <1>1, FS_Interval
<1>4. QED
  BY <1>2, <1>3, FS_Surjection

LEMMA PlacesFinite ==
  ASSUME NEW n \in Nat, NEW S \in SUBSET (0..n)
  PROVE  IsFiniteSet(S) /\ Cardinality(S) \in Nat
<1>1. IsFiniteSet(0..n)
  BY FS_Interval
<1>2. IsFiniteSet(S)
  BY <1>1, FS_Subset
<1>3. QED
  BY <1>2, FS_CardinalityType

(* What is lost is paid for by the number of faults, size by size.         *)
LEMMA Paid ==
  ASSUME NEW k \in Nat, NEW m \in Nat, NEW n \in Nat,
         NEW S, IsFiniteSet(S), Cardinality(S) <= k * m,
         NEW X, IsFiniteSet(X), NEW T, T \subseteq S \cup X,
         \/ X = {} /\ m <= n
         \/ Cardinality(X) <= k /\ m + 1 <= n
  PROVE  Cardinality(T) <= k * n
<1>1. IsFiniteSet(S \cup X) /\ Cardinality(S \cup X) <= Cardinality(S) + Cardinality(X)
  <2>1. Cardinality(S \cap X) \in Nat
    <3>1. IsFiniteSet(S \cap X)
      BY FS_Subset
    <3>2. QED
      BY <3>1, FS_CardinalityType
  <2>2. Cardinality(S) \in Nat /\ Cardinality(X) \in Nat
    BY FS_CardinalityType
  <2>3. /\ IsFiniteSet(S \cup X)
        /\ Cardinality(S \cup X) = Cardinality(S) + Cardinality(X) - Cardinality(S \cap X)
    BY FS_Union
  <2>4. QED
    BY <2>1, <2>2, <2>3
<1>2. Cardinality(T) <= Cardinality(S) + Cardinality(X) /\ Cardinality(T) \in Nat
  <2>1. IsFiniteSet(T) /\ Cardinality(T) <= Cardinality(S \cup X)
    BY <1>1, FS_Subset
  <2>2. /\ Cardinality(T) \in Nat /\ Cardinality(S) \in Nat /\ Cardinality(X) \in Nat
        /\ Cardinality(S \cup X) \in Nat
    BY <1>1, <2>1, FS_CardinalityType
  <2>3. QED
    BY <1>1, <2>1, <2>2
<1>3. \A a, b \in Nat : a <= b => k * a <= k * b
  <2> SUFFICES ASSUME NEW a \in Nat, NEW b \in Nat, a <= b PROVE k * a <= k * b
    OBVIOUS
  <2>1. PICK c \in Nat : b = a + c
    <3>1. b - a \in Nat /\ b = a + (b - a)
      OBVIOUS
    <3>2. QED
      BY <3>1
  <2>2. k * b = k * a + k * c /\ k * c \in Nat /\ k * a \in Nat
    BY <2>1
  <2>3. QED
    BY <2>2
<1>4. Cardinality(S) \in Nat /\ Cardinality(X) \in Nat /\ k * m \in Nat /\ k * n \in Nat
  BY FS_CardinalityType
<1>5. CASE X = {} /\ m <= n
  <2>1. Cardinality(X) = 0
    BY <1>5, FS_EmptySet
  <2>2. k * m <= k * n
    BY <1>3, <1>5
  <2>3. QED
    BY <1>2, <1>4, <2>1, <2>2
<1>6. CASE Cardinality(X) <= k /\ m + 1 <= n
  <2>1. k * (m + 1) <= k * n
    BY <1>3, <1>6
  <2>2. k * (m + 1) = k * m + k
    OBVIOUS
  <2>3. QED
    BY <1>2, <1>4, <1>6, <2>1, <2>2
<1>7. QED
  BY <1>5, <1>6

(* What the steps of connections do to the calls.                          *)
LEMMA OwedFinite ==
  ASSUME PipeTypes
  PROVE  IsFiniteSet(Owed) /\ Cardinality(Owed) \in Nat
<1>1. Len(backlog) \in Nat
  BY DEF PipeTypes
<1>2. Owed \in SUBSET (0..Len(backlog))
  BY DEF Owed, Places
<1>3. QED
  BY <1>1, <1>2, PlacesFinite

LEMMA NoConnection == Nothing \notin Connection /\ Nothing \notin Reply
BY NothingAssumption DEF NothingAssumption, Connection, Reply

LEMMA NoCallConns ==
  ASSUME NoCall
  PROVE  /\ UNCHANGED <<rawPages, accepted, reply, backlog, serving>>
         /\ Places' = Places /\ Owed' = Owed
         /\ \A i \in Places : /\ At(i)' = At(i) /\ Forsaken(i)' = Forsaken(i)
                              /\ \A c \in Client : Awaited(i, c)' = Awaited(i, c)
BY DEF NoCall, server, Places, Owed, At, Forsaken, Awaited, Open

(* When a client leaves, the call it waits for is forsaken.                *)
LEMMA DisconnectConns ==
  ASSUME PipeTypes, NEW c \in Client, Disconnect(c)
  PROVE  /\ UNCHANGED <<rawPages, accepted>>
         /\ Places' = Places
         /\ \A i \in Places :
              /\ At(i)' # Nothing => At(i) # Nothing /\ At(i)'.body = At(i).body
              /\ Forsaken(i)' => Forsaken(i) \/ (c \in Dequeuer /\ Awaited(i, c))
              /\ \A e \in Client : Awaited(i, e)' => Awaited(i, e) /\ e # c
         /\ (\A i \in DOMAIN backlog : ~backlog[i].answered) =>
              \A i \in DOMAIN backlog' : ~backlog'[i].answered
<1> DEFINE D(conn) == Dead(conn, c)
<1>1. ASSUME NEW conn \in Connection
      PROVE  /\ D(conn) \in Connection /\ D(conn).body = conn.body
             /\ D(conn).answered = conn.answered /\ D(conn).client = conn.client
             /\ D(conn).live => conn.live /\ conn.client # c
             /\ ~D(conn).live => ~conn.live \/ conn.client = c
  BY DEF Dead, Connection
<1>2. /\ DOMAIN backlog = 1..Len(backlog) /\ Len(backlog) \in Nat
      /\ \A i \in DOMAIN backlog : backlog[i] \in Connection
  BY DEF PipeTypes
<1>3. /\ backlog' = [i \in DOMAIN backlog |-> D(backlog[i])]
      /\ serving' = IF serving = Nothing THEN Nothing ELSE D(serving)
      /\ UNCHANGED <<rawPages, accepted>>
  BY DEF Disconnect
<1> HIDE DEF D
<1>4. backlog' \in Seq(Connection) /\ Len(backlog') = Len(backlog)
  BY <1>1, <1>2, <1>3
<1>5. ASSUME NEW i \in Places
      PROVE  /\ At(i)' # Nothing => At(i) # Nothing
             /\ At(i) # Nothing => At(i)' = D(At(i)) /\ At(i) \in Connection
  <2>1. CASE i = 0
    BY <2>1, <1>3 DEF At, PipeTypes
  <2>2. CASE i # 0
    <3>1. i \in DOMAIN backlog
      BY <2>2, <1>2 DEF Places
    <3>2. At(i) = backlog[i] /\ At(i)' = D(backlog[i])
      BY <2>2, <3>1, <1>3 DEF At
    <3>3. backlog[i] # Nothing
      BY <3>1, <1>2, NoConnection
    <3>4. QED
      BY <3>1, <3>2, <3>3, <1>2
  <2>3. QED
    BY <2>1, <2>2
<1>6. Places' = Places
  BY <1>4 DEF Places
<1>7. ASSUME NEW i \in Places
      PROVE  /\ At(i)' # Nothing => At(i) # Nothing /\ At(i)'.body = At(i).body
             /\ Forsaken(i)' => Forsaken(i) \/ (c \in Dequeuer /\ Awaited(i, c))
             /\ \A e \in Client : Awaited(i, e)' => Awaited(i, e) /\ e # c
  <2>1. At(i)' # Nothing => At(i) # Nothing /\ At(i)'.body = At(i).body
    BY <1>1, <1>5
  <2>2. Forsaken(i)' => Forsaken(i) \/ (c \in Dequeuer /\ Awaited(i, c))
    BY <1>1, <1>5 DEF Forsaken, Awaited, Open
  <2>3. \A e \in Client : Awaited(i, e)' => Awaited(i, e) /\ e # c
    BY <1>1, <1>5 DEF Awaited, Open
  <2>4. QED
    BY <2>1, <2>2, <2>3
<1>8. (\A i \in DOMAIN backlog : ~backlog[i].answered) =>
        \A i \in DOMAIN backlog' : ~backlog'[i].answered
  BY <1>1, <1>2, <1>3
<1>9. QED
  BY <1>3, <1>6, <1>7, <1>8

LEMMA GivenFinite == Known => IsFiniteSet(given)
<1>1. IsFiniteSet(1..NumPages)
  BY FS_Interval, PipelineAssumption DEF PipelineAssumption
<1>2. QED
  BY <1>1, FS_Subset DEF Known, Page
LEMMA PaidTwice ==
  ASSUME NEW k \in Nat, NEW f \in Nat, NEW g \in Nat, NEW s \in Nat, NEW t \in Nat,
         NEW S, IsFiniteSet(S), Cardinality(S) <= k * (f + s),
         NEW X, IsFiniteSet(X), NEW T, T \subseteq S \cup X,
         \/ X = {} /\ f + s <= g + t
         \/ Cardinality(X) <= k /\ f + s + 1 <= g + t
  PROVE  Cardinality(T) <= k * (g + t)
<1>1. PICK m \in Nat : m = f + s
  OBVIOUS
<1>2. PICK n \in Nat : n = g + t
  OBVIOUS
<1>3. Cardinality(T) <= k * n
  <2>1. Cardinality(S) <= k * m
    BY <1>1
  <2>2. \/ X = {} /\ m <= n
        \/ Cardinality(X) <= k /\ m + 1 <= n
    BY <1>1, <1>2
  <2>3. QED
    BY <2>1, <2>2, Paid
<1>4. QED
  BY <1>2, <1>3

LEMMA SentPaid ==
  ASSUME EnqueuerInv, failures' \in 0..MaxFailures,
         NEW X, IsFiniteSet(X), NeverSent' \subseteq NeverSent \cup X,
         \/ X = {} /\ failures + Stopped(Enqueuer) <= failures' + Stopped(Enqueuer)'
         \/ /\ Cardinality(X) <= BatchSize
            /\ failures + Stopped(Enqueuer) + 1 <= failures' + Stopped(Enqueuer)'
  PROVE  SentCount'
<1>1. IsFiniteSet(NeverSent)
  <2>1. NeverSent \subseteq given /\ Known
    BY DEF EnqueuerInv, NeverSent
  <2>2. QED
    BY <2>1, GivenFinite, FS_Subset
<1>2. MaxFailures \in Nat /\ BatchSize \in Nat
  BY PipelineAssumption DEF PipelineAssumption
<1>3. failures \in Nat /\ failures' \in Nat
  BY <1>2 DEF EnqueuerInv, BatchFits
<1>4. PICK s \in Nat : s = Stopped(Enqueuer)
  BY DEF Stopped
<1>5. PICK t \in Nat : t = Stopped(Enqueuer)'
  BY DEF Stopped
<1>6. Cardinality(NeverSent) <= BatchSize * (failures + s)
  BY <1>4 DEF EnqueuerInv, SentCount
<1>7. Cardinality(NeverSent') <= BatchSize * (failures' + t)
  BY <1>1, <1>2, <1>3, <1>4, <1>5, <1>6, PaidTwice
<1>8. QED
  BY <1>5, <1>7 DEF SentCount

(* A new call joins the end of the line.                                   *)
LEMMA ConnectConns ==
  ASSUME PipeTypes, NEW c \in Client, Connect(c)
  PROVE  /\ UNCHANGED <<rawPages, accepted, reply>>
         /\ phase' = [phase EXCEPT ![c] = "wait"]
         /\ \A i \in Places' :
              /\ i \in Places =>
                   /\ At(i)' = At(i) /\ Forsaken(i)' = Forsaken(i)
                   /\ \A e \in Client : Awaited(i, e)' = Awaited(i, e)
              /\ i \notin Places =>
                   /\ i = Len(backlog) + 1 /\ i \in DOMAIN backlog'
                   /\ At(i)'.body = (IF c = Enqueuer THEN pages[c] ELSE <<>>)
                   /\ ~Forsaken(i)' /\ ~At(i)'.answered
                   /\ \A e \in Client : Awaited(i, e)' => e = c
<1> DEFINE conn == [client |-> c, live |-> TRUE, answered |-> FALSE,
                    body |-> IF c = Enqueuer THEN pages[c] ELSE <<>>]
<1>1. /\ backlog' = Append(backlog, conn) /\ phase' = [phase EXCEPT ![c] = "wait"]
      /\ UNCHANGED <<rawPages, serving, accepted, reply>>
  BY DEF Connect
<1>2. /\ conn.live /\ ~conn.answered /\ conn.client = c
      /\ conn.body = (IF c = Enqueuer THEN pages[c] ELSE <<>>)
  OBVIOUS
<1>3. conn \in Connection
  BY EmptyOrder DEF Connection, PipeTypes
<1> HIDE DEF conn
<1>0. PICK n \in Nat : n = Len(backlog) + 1
  BY DEF PipeTypes
<1>4. /\ Len(backlog) \in Nat /\ DOMAIN backlog = 1..Len(backlog) /\ DOMAIN backlog' = 1..n
      /\ Len(backlog') = n /\ backlog'[n] = conn
      /\ \A i \in DOMAIN backlog : backlog'[i] = backlog[i]
  BY <1>0, <1>1, <1>3 DEF PipeTypes
<1>5. ASSUME NEW i \in Places
      PROVE  At(i)' = At(i)
  <2>1. CASE i = 0
    BY <2>1, <1>1 DEF At
  <2>2. CASE i # 0
    BY <2>2, <1>4 DEF At, Places
  <2>3. QED
    BY <2>1, <2>2
<1>6. ASSUME NEW i \in Places', i \notin Places
      PROVE  i = n /\ At(i)' = conn /\ i \in DOMAIN backlog'
  <2>1. i = n /\ i # 0
    BY <1>0, <1>4, <1>6 DEF Places
  <2>2. QED
    BY <2>1, <1>4 DEF At
<1>7. ASSUME NEW i \in Places
      PROVE  /\ Forsaken(i)' = Forsaken(i)
             /\ \A e \in Client : Awaited(i, e)' = Awaited(i, e)
  BY <1>5 DEF Forsaken, Awaited, Open
<1>8. ASSUME NEW i \in Places', i \notin Places
      PROVE  /\ At(i)'.body = (IF c = Enqueuer THEN pages[c] ELSE <<>>)
             /\ ~Forsaken(i)' /\ ~At(i)'.answered
             /\ \A e \in Client : Awaited(i, e)' => e = c
  BY <1>2, <1>6, <1>8 DEF Forsaken, Awaited, Open
<1>9. QED
  BY <1>0, <1>1, <1>5, <1>6, <1>7, <1>8

(* The part of the one who takes no step.                                  *)
LEMMA EnqueuerUntouched ==
  ASSUME EnqueuerInv, UNCHANGED <<given, accepted, nextPage>>,
         pages'[Enqueuer] = pages[Enqueuer], phase'[Enqueuer] = phase[Enqueuer],
         reply'[Enqueuer] = reply[Enqueuer], signals'[Enqueuer] = signals[Enqueuer],
         failures' \in 0..MaxFailures, failures <= failures',
         \A i \in Places' : At(i)' # Nothing => ToSet(At(i)'.body) \subseteq given
  PROVE  EnqueuerInv'
<1>1. Batch' = Batch /\ Known'
  BY DEF EnqueuerInv, Known, Batch
<1>2. BatchFits' /\ Delivered'
  BY <1>1 DEF EnqueuerInv, BatchFits, Delivered
<1>3. SentCount'
  <2>1. NeverSent' = NeverSent /\ Stopped(Enqueuer)' = Stopped(Enqueuer)
    BY DEF NeverSent, Stopped
  <2>2. failures + Stopped(Enqueuer) <= failures' + Stopped(Enqueuer)'
    <3>1. MaxFailures \in Nat
      BY PipelineAssumption DEF PipelineAssumption
    <3>2. failures \in Nat /\ failures' \in Nat
      BY <3>1 DEF EnqueuerInv, BatchFits
    <3>3. QED
      BY <2>1, <3>2 DEF Stopped
  <2>3. QED
    BY <2>1, <2>2, SentPaid, FS_EmptySet
<1>4. QED
  BY <1>1, <1>2, <1>3 DEF EnqueuerInv

(* A count of what was lost, in a step that loses the pages of X.          *)
LEMMA LossPaid ==
  ASSUME PipeTypes, PipeTypes', LostCount, IsFiniteSet(Gone), IsFiniteSet(Killed'),
         timeouts' \in 0..MaxTimeouts, NEW X, IsFiniteSet(X), Gone' \subseteq Gone \cup X,
         \/ X = {} /\ Spent <= Spent'
         \/ Cardinality(X) <= ChunkSize /\ Spent + 1 <= Spent'
  PROVE  LostCount'
<1>1. Cardinality(Owed)' \in Nat
  <2>1. Len(backlog') \in Nat /\ Owed' \in SUBSET (0..Len(backlog'))
    BY DEF PipeTypes, Owed, Places
  <2>2. Cardinality(Owed') \in Nat
    BY <2>1, PlacesFinite
  <2>3. QED
    BY <2>2
<1>2. Cardinality(Killed)' \in Nat /\ timeouts' \in Nat
  BY FS_CardinalityType, PipelineAssumption DEF PipelineAssumption
<1>3. Spent' \in Int /\ Spent \in Nat
  BY <1>1, <1>2 DEF Spent, LostCount
<1>4. Spent' \in Nat
  BY <1>3
<1>5. PICK m, n \in Nat : m = Spent /\ n = Spent'
  BY <1>3, <1>4
<1>6. Cardinality(Gone) <= ChunkSize * m
  BY <1>5 DEF LostCount
<1>7. Cardinality(Gone') <= ChunkSize * n
  BY <1>5, <1>6, Paid, PipelineAssumption DEF PipelineAssumption
<1>8. QED
  BY <1>4, <1>5, <1>7 DEF LostCount

LEMMA GoneFinite == Known => IsFiniteSet(Gone)
<1> SUFFICES ASSUME Known PROVE IsFiniteSet(Gone)
  OBVIOUS
<1>1. IsFiniteSet(given)
  BY GivenFinite
<1>2. Gone \subseteq given
  BY DEF Known, Gone
<1>3. QED
  BY <1>1, <1>2, FS_Subset

(* What a dequeuer has, if its variables stay.                             *)
LEMMA DequeuerUntouched ==
  ASSUME NEW e \in Dequeuer, ChunksOf(e), OneCallOf(e), UNCHANGED accepted,
         imported'[e] = imported[e], pages'[e] = pages[e], phase'[e] = phase[e],
         reply'[e] = reply[e],
         \A i \in Places' : Awaited(i, e)' => i \in Places /\ Awaited(i, e)
  PROVE  ChunksOf(e)' /\ OneCallOf(e)' /\ Has(e)' = Has(e)
<1>1. OnItsWay(e)' = OnItsWay(e) /\ Out(e)' = Out(e)
  BY DEF OnItsWay, Out
<1>2. ChunksOf(e)' /\ Has(e)' = Has(e)
  BY <1>1 DEF ChunksOf, Has
<1>3. OneCallOf(e)'
  BY DEF OneCallOf
<1>4. QED
  BY <1>2, <1>3

LEMMA DequeuersUntouched ==
  ASSUME PipeTypes, PipeTypes', Known, DequeuersInv, UNCHANGED <<rawPages, accepted, timeouts, imported>>,
         \A d \in Dequeuer : /\ pages'[d] = pages[d] /\ phase'[d] = phase[d]
                             /\ reply'[d] = reply[d] /\ signals'[d] = signals[d],
         \A i \in Places' :
           /\ Forsaken(i)' => i \in Places /\ Forsaken(i)
           /\ \A d \in Dequeuer : Awaited(i, d)' => i \in Places /\ Awaited(i, d)
  PROVE  DequeuersInv'
<1>1. \A d \in Dequeuer : ChunksOf(d)' /\ OneCallOf(d)' /\ Has(d)' = Has(d)
  BY DequeuerUntouched DEF DequeuersInv
<1>2. Queued' = Queued /\ QueueFits'
  BY DEF DequeuersInv, QueueFits, Queued
<1>3. Gone' = Gone
  BY <1>1, <1>2 DEF Gone
<1>4. Killed' = Killed /\ IsFiniteSet(Killed')
  BY DEF Killed, DequeuersInv, LostCount
<1>5. Spent <= Spent'
  <2>1. Owed' \in SUBSET Owed
    BY DEF Owed
  <2>2. Cardinality(Owed') <= Cardinality(Owed) /\ IsFiniteSet(Owed') /\ Cardinality(Owed) \in Nat
    BY <2>1, OwedFinite, FS_Subset
  <2>3. Cardinality(Owed') \in Nat
    BY <2>2, FS_CardinalityType
  <2>4. timeouts \in Nat /\ Cardinality(Killed) \in Nat
    BY FS_CardinalityType, PipelineAssumption DEF PipelineAssumption, DequeuersInv, LostCount
  <2>5. QED
    BY <1>4, <2>2, <2>3, <2>4 DEF Spent
<1>6. LostCount'
  <2>1. timeouts' \in 0..MaxTimeouts /\ LostCount
    BY DEF DequeuersInv, LostCount
  <2>2. QED
    BY <1>3, <1>4, <1>5, <2>1, LossPaid, GoneFinite, FS_EmptySet
<1>7. QED
  BY <1>1, <1>2, <1>6 DEF DequeuersInv

-----------------------------------------------------------------------------
(* The enqueuer's steps.                                                   *)

LEMMA StillSignalled ==
  ASSUME Signalled, UNCHANGED signals, NEW c \in Client, phase[c] # "exit",
         \A e \in Client \ {c} : phase'[e] = phase[e],
         \A i \in DOMAIN backlog' : ~backlog'[i].answered
  PROVE  Signalled'
BY DEF Signalled

LEMMA Clients == Enqueuer \in Client /\ \A d \in Dequeuer : d \in Client \ {Enqueuer}
BY PipelineAssumption DEF Client, PipelineAssumption

(* A step of the enqueuer that makes no call and takes no reply.           *)
LEMMA EnqueuerByItself ==
  ASSUME PipeTypes, PipeTypes', LossInv, NoCall, UNCHANGED <<signals, timeouts, imported>>,
         phase[Enqueuer] # "exit",
         \A d \in Dequeuer : pages'[d] = pages[d],
         \A c \in Client \ {Enqueuer} : phase'[c] = phase[c]
  PROVE  DequeuersInv' /\ Signalled'
<1>1. /\ UNCHANGED <<rawPages, accepted, reply, backlog>>
      /\ \A i \in Places' :
           /\ Forsaken(i)' => i \in Places /\ Forsaken(i)
           /\ \A d \in Dequeuer : Awaited(i, d)' => i \in Places /\ Awaited(i, d)
  BY NoCallConns DEF Client
<1>2. DequeuersInv'
  BY <1>1, Clients, DequeuersUntouched DEF LossInv, EnqueuerInv
<1>3. Signalled'
  BY <1>1, Clients, StillSignalled DEF LossInv, Signalled
<1>4. QED
  BY <1>2, <1>3

LEMMA AppendPageLoses ==
  ASSUME PipeInv, PipeInv', LossInv, NEW useful \in BOOLEAN, AppendPage(useful)
  PROVE  LossInv'
<1> DEFINE batch == IF useful THEN Append(pages[Enqueuer], nextPage) ELSE pages[Enqueuer]
<1>1. PipeTypes /\ PipeTypes' /\ OneCall
  BY DEF PipeInv, Rest
<1>2. /\ phase[Enqueuer] = "run" /\ nextPage <= NumPages /\ nextPage' = nextPage + 1
      /\ given' = IF useful THEN given \cup {nextPage} ELSE given
      /\ pages' = [pages EXCEPT ![Enqueuer] = batch]
      /\ phase' = [phase EXCEPT ![Enqueuer] =
                     IF Len(batch) = BatchSize THEN "connect" ELSE "run"]
      /\ NoCall /\ UNCHANGED <<signals, imported, failures, timeouts>>
  BY DEF AppendPage, counts
<1>3. EnqueuerInv /\ Known /\ BatchFits /\ SentCount
  BY DEF LossInv, EnqueuerInv
<1>4. pages[Enqueuer] \in Seq(Nat) /\ nextPage \in Page
  <2>1. NumPages \in Nat
    BY PipelineAssumption DEF PipelineAssumption
  <2>2. QED
    BY <1>1, <1>2, <1>3, <2>1, Clients DEF PipeTypes, BatchFits, Page
<1>5. /\ batch \in Seq(Nat) /\ Len(batch) <= BatchSize
      /\ ToSet(batch) = Batch \cup (IF useful THEN {nextPage} ELSE {})
  <2>0. nextPage \in Nat
    BY <1>1 DEF PipeTypes
  <2>1. ToSet(Append(pages[Enqueuer], nextPage)) = Batch \cup {nextPage}
    BY <1>4, <2>0, AppendOrder DEF Batch
  <2>2. nextPage \in Nat /\ Append(pages[Enqueuer], nextPage) \in Seq(Nat)
        /\ Len(Append(pages[Enqueuer], nextPage)) = Len(pages[Enqueuer]) + 1
    BY <1>4 DEF Page
  <2>3. Len(pages[Enqueuer]) \in Nat /\ BatchSize \in Nat
        /\ Len(pages[Enqueuer]) < BatchSize
    BY <1>2, <1>3, <1>4, PipelineAssumption DEF PipelineAssumption, BatchFits
  <2>4. QED
    BY <1>4, <2>1, <2>2, <2>3 DEF Batch
<1> HIDE DEF batch
<1>6. /\ pages'[Enqueuer] = batch /\ \A d \in Dequeuer : pages'[d] = pages[d]
      /\ phase'[Enqueuer] = (IF Len(batch) = BatchSize THEN "connect" ELSE "run")
      /\ \A c \in Client \ {Enqueuer} : phase'[c] = phase[c]
  BY <1>1, <1>2, Clients DEF PipeTypes
<1>7. DequeuersInv' /\ Signalled'
  BY <1>1, <1>2, <1>6, EnqueuerByItself
<1>8. /\ UNCHANGED <<accepted, reply>> /\ Places' = Places
      /\ \A i \in Places : At(i)' = At(i)
  BY <1>2, NoCallConns
<1>9. Batch' = ToSet(batch)
  BY <1>6 DEF Batch
<1>10. Known'
  BY <1>2, <1>3, <1>4, <1>5, <1>8, <1>9 DEF Known
<1>11. BatchFits'
  <2>1. nextPage + 1 \in 1..NumPages + 1
    BY <1>4, PipelineAssumption DEF Page, PipelineAssumption
  <2>2. Len(batch) \in Nat /\ BatchSize \in Nat
    BY <1>5, PipelineAssumption DEF PipelineAssumption
  <2>3. Len(batch) <= BatchSize /\ (phase'[Enqueuer] = "run" => Len(batch) < BatchSize)
    BY <1>5, <1>6, <2>2
  <2>4. QED
    BY <1>2, <1>3, <1>6, <2>1, <2>3 DEF BatchFits
<1>12. Delivered'
  BY <1>1, <1>2, <1>8 DEF OneCall, Delivered
<1>13. SentCount'
  <2>1. NeverSent' \subseteq NeverSent
    BY <1>2, <1>5, <1>6, <1>8, <1>9 DEF NeverSent, Batch
  <2>2. Stopped(Enqueuer)' = Stopped(Enqueuer) /\ failures' = failures
    BY <1>2 DEF Stopped
  <2>3. failures + Stopped(Enqueuer) <= failures' + Stopped(Enqueuer)'
    <3>1. MaxFailures \in Nat
      BY PipelineAssumption DEF PipelineAssumption
    <3>2. failures \in Nat
      BY <1>3, <3>1 DEF BatchFits
    <3>3. QED
      BY <2>2, <3>2 DEF Stopped
  <2>4. failures' \in 0..MaxFailures
    BY <1>3, <2>2 DEF BatchFits
  <2>5. QED
    BY <1>3, <2>1, <2>3, <2>4, SentPaid, FS_EmptySet
<1>14. QED
  BY <1>7, <1>10, <1>11, <1>12, <1>13 DEF LossInv, EnqueuerInv

LEMMA LastBatchLoses ==
  ASSUME PipeInv, PipeInv', LossInv, LastBatch
  PROVE  LossInv'
<1>1. PipeTypes /\ PipeTypes' /\ OneCall
  BY DEF PipeInv, Rest
<1>2. /\ phase[Enqueuer] = "run" /\ phase' = [phase EXCEPT ![Enqueuer] = "connect"]
      /\ NoCall /\ UNCHANGED <<pages, nextPage, given, signals, imported, failures, timeouts>>
  BY DEF LastBatch, counts
<1>3. phase'[Enqueuer] = "connect" /\ \A c \in Client \ {Enqueuer} : phase'[c] = phase[c]
  BY <1>1, <1>2, Clients DEF PipeTypes
<1>4. DequeuersInv' /\ Signalled'
  BY <1>1, <1>2, <1>3, EnqueuerByItself
<1>5. EnqueuerInv /\ Known /\ BatchFits /\ SentCount
  BY DEF LossInv, EnqueuerInv
<1>6. /\ UNCHANGED <<accepted, reply>> /\ Places' = Places
      /\ \A i \in Places : At(i)' = At(i)
  BY <1>2, NoCallConns
<1>7. Batch' = Batch /\ Known'
  BY <1>2, <1>5, <1>6 DEF Known, Batch
<1>8. BatchFits' /\ Delivered'
  BY <1>1, <1>2, <1>3, <1>5, <1>6 DEF BatchFits, Delivered, OneCall
<1>9. NeverSent' = NeverSent /\ Stopped(Enqueuer)' = Stopped(Enqueuer) /\ failures' = failures
  BY <1>2, <1>3, <1>6 DEF NeverSent, Stopped
<1>10. SentCount'
  BY <1>5, <1>9 DEF SentCount
<1>11. QED
  BY <1>4, <1>7, <1>8, <1>10 DEF LossInv, EnqueuerInv

LEMMA BatchFinite ==
  ASSUME PipeTypes, BatchFits
  PROVE  IsFiniteSet(Batch) /\ Cardinality(Batch) <= BatchSize
<1>1. pages[Enqueuer] \in Seq(Nat) /\ Len(pages[Enqueuer]) \in Nat
  BY Clients DEF PipeTypes
<1>2. IsFiniteSet(Batch) /\ Cardinality(Batch) <= Len(pages[Enqueuer])
  BY <1>1, SetOfSequence DEF Batch
<1>3. Cardinality(Batch) \in Nat /\ BatchSize \in Nat
  BY <1>2, FS_CardinalityType, PipelineAssumption DEF PipelineAssumption
<1>4. QED
  BY <1>1, <1>2, <1>3 DEF BatchFits

(* The enqueuer leaves its call: the dequeuers do not notice.              *)
LEMMA EnqueuerDisconnects ==
  ASSUME PipeTypes, PipeTypes', LossInv, Disconnect(Enqueuer), UNCHANGED <<timeouts, imported>>,
         \A d \in Dequeuer : /\ pages'[d] = pages[d] /\ phase'[d] = phase[d]
                             /\ signals'[d] = signals[d]
  PROVE  /\ DequeuersInv'
         /\ UNCHANGED accepted /\ reply'[Enqueuer] = Nothing
         /\ \A i \in Places' : At(i)' # Nothing => ToSet(At(i)'.body) \subseteq given
         /\ \A i \in DOMAIN backlog' : ~backlog'[i].answered
<1>1. /\ UNCHANGED <<rawPages, accepted>> /\ Places' = Places
      /\ \A i \in Places :
           /\ At(i)' # Nothing => At(i) # Nothing /\ At(i)'.body = At(i).body
           /\ Forsaken(i)' => Forsaken(i) \/ (Enqueuer \in Dequeuer /\ Awaited(i, Enqueuer))
           /\ \A e \in Client : Awaited(i, e)' => Awaited(i, e) /\ e # Enqueuer
      /\ (\A i \in DOMAIN backlog : ~backlog[i].answered) =>
           \A i \in DOMAIN backlog' : ~backlog'[i].answered
  BY Clients, DisconnectConns
<1>2. reply'[Enqueuer] = Nothing /\ \A d \in Dequeuer : reply'[d] = reply[d]
  BY Clients, DisconnectStays
<1>3. DequeuersInv'
  <2>1. \A i \in Places' :
           /\ Forsaken(i)' => i \in Places /\ Forsaken(i)
           /\ \A d \in Dequeuer : Awaited(i, d)' => i \in Places /\ Awaited(i, d)
    BY <1>1, Clients
  <2>2. QED
    BY <1>1, <1>2, <2>1, DequeuersUntouched DEF LossInv, EnqueuerInv
<1>4. \A i \in Places' : At(i)' # Nothing => ToSet(At(i)'.body) \subseteq given
  BY <1>1 DEF LossInv, EnqueuerInv, Known
<1>5. QED
  BY <1>1, <1>2, <1>3, <1>4 DEF LossInv, Signalled

LEMMA EnqueuerCallsLoses ==
  ASSUME PipeInv, PipeInv', LossInv, EnqueuerCalls
  PROVE  LossInv'
<1>1. PipeTypes /\ PipeTypes' /\ OneCall
  BY DEF PipeInv, Rest
<1>2. /\ phase[Enqueuer] = "connect" /\ Connect(Enqueuer)
      /\ UNCHANGED <<pages, nextPage, given, signals, imported, failures, timeouts>>
  BY DEF EnqueuerCalls, counts
<1>3. /\ UNCHANGED <<rawPages, accepted, reply>>
      /\ phase' = [phase EXCEPT ![Enqueuer] = "wait"]
      /\ \A i \in Places' :
           /\ i \in Places =>
                /\ At(i)' = At(i) /\ Forsaken(i)' = Forsaken(i)
                /\ \A e \in Client : Awaited(i, e)' = Awaited(i, e)
           /\ i \notin Places =>
                /\ i = Len(backlog) + 1 /\ i \in DOMAIN backlog'
                /\ At(i)'.body = pages[Enqueuer]
                /\ ~Forsaken(i)' /\ ~At(i)'.answered
                /\ \A e \in Client : Awaited(i, e)' => e = Enqueuer
  BY <1>1, <1>2, Clients, ConnectConns
<1>4. phase'[Enqueuer] = "wait" /\ \A c \in Client \ {Enqueuer} : phase'[c] = phase[c]
  BY <1>1, <1>3, Clients DEF PipeTypes
<1>5. EnqueuerInv /\ Known /\ BatchFits /\ SentCount
  BY DEF LossInv, EnqueuerInv
<1>6. DequeuersInv'
  <2>1. \A i \in Places' :
           /\ Forsaken(i)' => i \in Places /\ Forsaken(i)
           /\ \A d \in Dequeuer : Awaited(i, d)' => i \in Places /\ Awaited(i, d)
    BY <1>3, Clients
  <2>2. QED
    BY <1>1, <1>2, <1>3, <1>4, <1>5, <2>1, Clients, DequeuersUntouched DEF LossInv
<1>7. Signalled'
  <2>1. \A i \in DOMAIN backlog' : ~backlog'[i].answered
    <3> SUFFICES ASSUME NEW i \in DOMAIN backlog' PROVE ~backlog'[i].answered
      OBVIOUS
    <3>1. i \in Places' /\ i # 0 /\ At(i)' = backlog'[i]
      BY <1>1 DEF PipeTypes, Places, At
    <3>2. i \in Places => i \in DOMAIN backlog /\ At(i) = backlog[i]
      BY <1>1, <3>1 DEF PipeTypes, Places, At
    <3>3. QED
      BY <1>3, <3>1, <3>2 DEF LossInv, Signalled
  <2>2. QED
    BY <1>2, <1>4, <2>1, Clients, StillSignalled DEF LossInv
<1>8. Batch' = Batch /\ Known'
  <2>1. Batch' = Batch /\ ToSet(pages[Enqueuer]) = Batch
    BY <1>2 DEF Batch
  <2>2. \A i \in Places' : At(i)' # Nothing => ToSet(At(i)'.body) \subseteq given
    BY <1>3, <1>5, <2>1 DEF Known
  <2>3. QED
    BY <1>2, <1>3, <1>5, <2>1, <2>2 DEF Known
<1>9. BatchFits' /\ Delivered'
  BY <1>1, <1>2, <1>3, <1>4, <1>5 DEF BatchFits, Delivered, OneCall
<1>10. NeverSent' = NeverSent /\ Stopped(Enqueuer)' = Stopped(Enqueuer) /\ failures' = failures
  BY <1>2, <1>3, <1>4 DEF NeverSent, Stopped
<1>11. SentCount'
  BY <1>5, <1>10 DEF SentCount
<1>12. QED
  BY <1>6, <1>7, <1>8, <1>9, <1>11 DEF LossInv, EnqueuerInv

(* The enqueuer goes on with an empty batch.                               *)
LEMMA BatchDoneLoses ==
  ASSUME PipeInv, PipeInv', LossInv, phase[Enqueuer] # "exit", BatchDone,
         NoCall \/ Disconnect(Enqueuer), NoCall => reply[Enqueuer] = Nothing,
         \/ failures' = failures /\ Batch \subseteq accepted
         \/ failures' = failures + 1 /\ failures < MaxFailures
  PROVE  LossInv'
<1>1. PipeTypes /\ PipeTypes'
  BY DEF PipeInv
<1>2. /\ pages' = [pages EXCEPT ![Enqueuer] = <<>>]
      /\ phase' = [phase EXCEPT ![Enqueuer] =
                     IF nextPage > NumPages /\ Len(pages[Enqueuer]) < BatchSize
                     THEN "exit" ELSE "run"]
      /\ UNCHANGED <<nextPage, given, signals, imported, timeouts>>
  BY DEF BatchDone
<1>3. /\ pages'[Enqueuer] = <<>> /\ phase'[Enqueuer] \in {"exit", "run"}
      /\ \A d \in Dequeuer : pages'[d] = pages[d]
      /\ \A c \in Client \ {Enqueuer} : phase'[c] = phase[c]
  BY <1>1, <1>2, Clients DEF PipeTypes
<1>4. EnqueuerInv /\ Known /\ BatchFits /\ SentCount
  BY DEF LossInv, EnqueuerInv
<1>5. /\ DequeuersInv' /\ UNCHANGED accepted /\ reply'[Enqueuer] = Nothing
      /\ \A i \in Places' : At(i)' # Nothing => ToSet(At(i)'.body) \subseteq given
      /\ Signalled'
  <2>1. CASE Disconnect(Enqueuer)
    BY <1>1, <1>2, <1>3, <2>1, Clients, EnqueuerDisconnects, StillSignalled DEF LossInv
  <2>2. CASE NoCall
    <3>1. DequeuersInv' /\ Signalled'
      BY <1>1, <1>2, <1>3, <2>2, EnqueuerByItself
    <3>2. QED
      BY <1>4, <2>2, <3>1, NoCallConns DEF Known
  <2>3. QED
    BY <2>1, <2>2
<1>6. Batch' = {}
  BY <1>3, EmptyOrder DEF Batch
<1>7. Known'
  BY <1>2, <1>4, <1>5, <1>6 DEF Known
<1>8. MaxFailures \in Nat /\ BatchSize \in Nat \ {0}
  BY PipelineAssumption DEF PipelineAssumption
<1>9. failures \in Nat /\ failures' \in 0..MaxFailures
  BY <1>4, <1>8 DEF BatchFits
<1>10. BatchFits' /\ Delivered'
  <2>1. Len(<<>>) <= BatchSize /\ Len(<<>>) < BatchSize
    BY <1>8
  <2>2. QED
    BY <1>2, <1>3, <1>4, <1>5, <1>9, <2>1 DEF BatchFits, Delivered
<1>11. SentCount'
  <2>1. Stopped(Enqueuer)' = Stopped(Enqueuer) /\ Stopped(Enqueuer) \in Nat
    BY <1>2 DEF Stopped
  <2>2. NeverSent' \subseteq NeverSent \cup Batch
    BY <1>2, <1>5 DEF NeverSent, Batch
  <2>3. IsFiniteSet(Batch) /\ Cardinality(Batch) <= BatchSize
    BY <1>1, <1>4, BatchFinite
  <2>4. CASE failures' = failures /\ Batch \subseteq accepted
    <3>1. NeverSent' \subseteq NeverSent
      BY <1>5, <2>2, <2>4 DEF NeverSent
    <3>2. failures + Stopped(Enqueuer) <= failures' + Stopped(Enqueuer)'
      BY <1>9, <2>1, <2>4
    <3>3. QED
      BY <1>4, <1>9, <3>1, <3>2, SentPaid, FS_EmptySet
  <2>5. CASE failures' = failures + 1
    <3>1. failures + Stopped(Enqueuer) + 1 <= failures' + Stopped(Enqueuer)'
      BY <1>9, <2>1, <2>5
    <3>2. QED
      BY <1>4, <1>9, <2>2, <2>3, <3>1, SentPaid
  <2>6. QED
    BY <2>4, <2>5
<1>12. QED
  BY <1>5, <1>7, <1>10, <1>11 DEF LossInv, EnqueuerInv

LEMMA EnqueuerReturnsLoses ==
  ASSUME PipeInv, PipeInv', LossInv, EnqueuerReturns
  PROVE  LossInv'
<1>1. PipeTypes /\ PipeTypes'
  BY DEF PipeInv
<1>2. phase[Enqueuer] = "wait" /\ reply[Enqueuer] # Nothing /\ Disconnect(Enqueuer)
  BY DEF EnqueuerReturns
<1>3. EnqueuerInv /\ Known /\ BatchFits /\ Delivered /\ SentCount
  BY DEF LossInv, EnqueuerInv
<1>4. CASE ~reply[Enqueuer].full /\ BatchDone /\ failures' = failures
  <2>1. Batch \subseteq accepted
    BY <1>2, <1>3, <1>4 DEF Delivered
  <2>2. NoCall => reply[Enqueuer] = Nothing
    <3>1. reply'[Enqueuer] = Nothing
      BY <1>1, <1>2, Clients, DisconnectStays
    <3>2. QED
      BY <3>1 DEF NoCall
  <2>3. QED
    BY <1>2, <1>4, <2>1, <2>2, BatchDoneLoses
<1>5. CASE /\ phase' = [phase EXCEPT ![Enqueuer] = "connect"]
           /\ UNCHANGED <<pages, nextPage, given, signals, imported, failures, timeouts>>
  <2>1. phase'[Enqueuer] = "connect" /\ \A c \in Client \ {Enqueuer} : phase'[c] = phase[c]
    BY <1>1, <1>5, Clients DEF PipeTypes
  <2>2. /\ DequeuersInv' /\ UNCHANGED accepted /\ reply'[Enqueuer] = Nothing
        /\ \A i \in Places' : At(i)' # Nothing => ToSet(At(i)'.body) \subseteq given
        /\ \A i \in DOMAIN backlog' : ~backlog'[i].answered
    BY <1>1, <1>2, <1>5, <2>1, Clients, EnqueuerDisconnects
  <2>3. Signalled'
    BY <1>2, <1>5, <2>1, <2>2, Clients, StillSignalled DEF LossInv
  <2>4. Batch' = Batch /\ Known'
    BY <1>3, <1>5, <2>2 DEF Known, Batch
  <2>5. BatchFits' /\ Delivered'
    BY <1>3, <1>5, <2>1, <2>2 DEF BatchFits, Delivered
  <2>6. NeverSent' = NeverSent /\ Stopped(Enqueuer)' = Stopped(Enqueuer) /\ failures' = failures
    BY <1>2, <1>5, <2>1, <2>2 DEF NeverSent, Stopped
  <2>7. SentCount'
    BY <1>3, <2>6 DEF SentCount
  <2>8. QED
    BY <2>2, <2>3, <2>4, <2>5, <2>7 DEF LossInv, EnqueuerInv
<1>6. QED
  BY <1>4, <1>5 DEF EnqueuerReturns, counts

LEMMA EnqueuerFailsLoses ==
  ASSUME PipeInv, PipeInv', LossInv, EnqueuerFails
  PROVE  LossInv'
<1>1. /\ failures < MaxFailures /\ failures' = failures + 1 /\ BatchDone
      /\ \/ phase[Enqueuer] = "connect" /\ NoCall
         \/ phase[Enqueuer] = "wait" /\ Disconnect(Enqueuer)
  BY DEF EnqueuerFails
<1>2. phase[Enqueuer] # "exit"
  BY <1>1
<1>3. NoCall => reply[Enqueuer] = Nothing
  <2>1. CASE phase[Enqueuer] = "connect"
    BY <2>1 DEF PipeInv, Rest, OneCall
  <2>2. CASE Disconnect(Enqueuer)
    <3>1. reply'[Enqueuer] = Nothing
      BY <2>2, Clients, DisconnectStays DEF PipeInv
    <3>2. QED
      BY <3>1 DEF NoCall
  <2>3. QED
    BY <1>1, <2>1, <2>2
<1>4. QED
  BY <1>1, <1>2, <1>3, BatchDoneLoses

-----------------------------------------------------------------------------
(* The dequeuers' steps.                                                   *)

(* One dequeuer moves and loses the pages of X.                            *)
LEMMA DequeuerMoved ==
  ASSUME PipeTypes, PipeTypes', Known, DequeuersInv, NEW d \in Dequeuer,
         UNCHANGED <<rawPages, accepted>>, timeouts' \in 0..MaxTimeouts, IsFiniteSet(Killed'),
         \A e \in Dequeuer \ {d} :
           /\ imported'[e] = imported[e] /\ pages'[e] = pages[e]
           /\ phase'[e] = phase[e] /\ reply'[e] = reply[e]
           /\ \A i \in Places' : Awaited(i, e)' => i \in Places /\ Awaited(i, e),
         ChunksOf(d)', OneCallOf(d)',
         NEW X, IsFiniteSet(X), Has(d) \subseteq Has(d)' \cup X,
         \/ X = {} /\ Spent <= Spent'
         \/ Cardinality(X) <= ChunkSize /\ Spent + 1 <= Spent'
  PROVE  DequeuersInv'
<1>1. \A e \in Dequeuer \ {d} : ChunksOf(e)' /\ OneCallOf(e)' /\ Has(e)' = Has(e)
  BY DequeuerUntouched DEF DequeuersInv
<1>2. Queued' = Queued /\ QueueFits'
  BY DEF DequeuersInv, QueueFits, Queued
<1>3. Gone' \subseteq Gone \cup X
  BY <1>1, <1>2 DEF Gone
<1>4. LostCount'
  BY <1>3, LossPaid, GoneFinite DEF DequeuersInv
<1>5. QED
  BY <1>1, <1>2, <1>4 DEF DequeuersInv

LEMMA SpentOf ==
  ASSUME PipeTypes, PipeTypes', LostCount, IsFiniteSet(Killed')
  PROVE  /\ timeouts \in Nat /\ Cardinality(Killed) \in Nat /\ Cardinality(Killed') \in Nat
         /\ IsFiniteSet(Owed) /\ Cardinality(Owed) \in Nat
         /\ IsFiniteSet(Owed') /\ Cardinality(Owed)' \in Nat
<1>1. timeouts \in Nat
  <2>1. MaxTimeouts \in Nat
    BY PipelineAssumption DEF PipelineAssumption
  <2>2. QED
    BY <2>1 DEF LostCount
<1>2. IsFiniteSet(Owed') /\ Cardinality(Owed') \in Nat
  <2>1. Len(backlog') \in Nat /\ Owed' \in SUBSET (0..Len(backlog'))
    BY DEF PipeTypes, Owed, Places
  <2>2. QED
    BY <2>1, PlacesFinite
<1>3. QED
  BY <1>1, <1>2, OwedFinite, FS_CardinalityType DEF LostCount

(* A dequeuer that makes or leaves no call.                                *)
LEMMA DequeuerByItself ==
  ASSUME PipeTypes, PipeTypes', LossInv, NEW d \in Dequeuer, NoCall, phase[d] # "exit",
         UNCHANGED <<nextPage, given, timeouts>>,
         failures' \in 0..MaxFailures, failures <= failures',
         \A c \in Client \ {d} : pages'[c] = pages[c] /\ phase'[c] = phase[c],
         Killed' = Killed,
         \A e \in Dequeuer \ {d} : imported'[e] = imported[e],
         signals'[Enqueuer] = signals[Enqueuer],
         ChunksOf(d)', OneCallOf(d)', Has(d) \subseteq Has(d)'
  PROVE  EnqueuerInv' /\ DequeuersInv'
<1>1. /\ UNCHANGED <<rawPages, accepted, reply, backlog>>
      /\ Places' = Places /\ Owed' = Owed
      /\ \A i \in Places : /\ At(i)' = At(i) /\ Forsaken(i)' = Forsaken(i)
                           /\ \A c \in Client : Awaited(i, c)' = Awaited(i, c)
  BY NoCallConns
<1>2. EnqueuerInv /\ Known /\ DequeuersInv /\ LostCount
  BY DEF LossInv, EnqueuerInv, DequeuersInv
<1>3. Enqueuer \in Client \ {d} /\ \A e \in Dequeuer : e \in Client
  BY Clients
<1>4. EnqueuerInv'
  <2>1. \A i \in Places' : At(i)' # Nothing => ToSet(At(i)'.body) \subseteq given
    BY <1>1, <1>2 DEF Known
  <2>2. QED
    BY <1>1, <1>2, <1>3, <2>1, EnqueuerUntouched
<1>5. IsFiniteSet(Killed')
  BY <1>2 DEF LostCount
<1>6. Spent <= Spent' /\ timeouts' \in 0..MaxTimeouts
  <2>1. Spent' = Spent /\ Spent \in Nat
    BY <1>1, <1>2, <1>5 DEF Spent, LostCount
  <2>2. QED
    BY <1>2, <2>1 DEF LostCount
<1>7. \A e \in Dequeuer \ {d} :
        /\ imported'[e] = imported[e] /\ pages'[e] = pages[e]
        /\ phase'[e] = phase[e] /\ reply'[e] = reply[e]
        /\ \A i \in Places' : Awaited(i, e)' => i \in Places /\ Awaited(i, e)
  BY <1>1, <1>3
<1>8. DequeuersInv'
  BY <1>1, <1>2, <1>5, <1>6, <1>7, DequeuerMoved, FS_EmptySet
<1>9. QED
  BY <1>4, <1>8

LEMMA DequeuerDisconnects ==
  ASSUME PipeTypes, PipeTypes', LossInv, NEW d \in Dequeuer, Disconnect(d)
  PROVE  /\ UNCHANGED <<rawPages, accepted>> /\ reply'[d] = Nothing
         /\ \A c \in Client \ {d} : reply'[c] = reply[c]
         /\ \A i \in Places' : At(i)' # Nothing => ToSet(At(i)'.body) \subseteq given
         /\ \A i \in DOMAIN backlog' : ~backlog'[i].answered
         /\ \A i \in Places', e \in Client :
              Awaited(i, e)' => i \in Places /\ Awaited(i, e) /\ e # d
         /\ Cardinality(Owed') <= Cardinality(Owed) + 1
         /\ (\A i \in Places : ~Awaited(i, d)) => Cardinality(Owed') <= Cardinality(Owed)
<1>1. d \in Client
  BY Clients
<1>2. /\ UNCHANGED <<rawPages, accepted>> /\ Places' = Places
      /\ \A i \in Places :
           /\ At(i)' # Nothing => At(i) # Nothing /\ At(i)'.body = At(i).body
           /\ Forsaken(i)' => Forsaken(i) \/ (d \in Dequeuer /\ Awaited(i, d))
           /\ \A e \in Client : Awaited(i, e)' => Awaited(i, e) /\ e # d
      /\ (\A i \in DOMAIN backlog : ~backlog[i].answered) =>
           \A i \in DOMAIN backlog' : ~backlog'[i].answered
  BY <1>1, DisconnectConns
<1>3. reply'[d] = Nothing /\ \A c \in Client \ {d} : reply'[c] = reply[c]
  BY <1>1, DisconnectStays
<1>4. \A i \in Places' : At(i)' # Nothing => ToSet(At(i)'.body) \subseteq given
  BY <1>2 DEF LossInv, EnqueuerInv, Known
<1>5. \A i \in DOMAIN backlog' : ~backlog'[i].answered
  BY <1>2 DEF LossInv, Signalled
<1>6. IsFiniteSet(Owed) /\ Cardinality(Owed) \in Nat
  BY OwedFinite
<1>7. CASE \A i \in Places : ~Awaited(i, d)
  <2>1. Owed' \in SUBSET Owed
    BY <1>2, <1>7 DEF Owed
  <2>2. Cardinality(Owed') <= Cardinality(Owed) /\ IsFiniteSet(Owed')
    BY <1>6, <2>1, FS_Subset
  <2>3. Cardinality(Owed') \in Nat
    BY <2>2, FS_CardinalityType
  <2>4. Cardinality(Owed') <= Cardinality(Owed) + 1
    BY <1>6, <2>2, <2>3
  <2>5. QED
    BY <1>2, <1>3, <1>4, <1>5, <2>2, <2>4
<1>8. CASE ~ \A i \in Places : ~Awaited(i, d)
  <2>1. PICK i \in Places : Awaited(i, d)
    BY <1>8
  <2>2. OneCallOf(d)
    BY DEF LossInv, DequeuersInv
  <2>3. \A j \in Places : Awaited(j, d) => j = i
    BY <2>1, <2>2 DEF OneCallOf
  <2>4. Owed' \in SUBSET (Owed \cup {i})
    BY <1>2, <2>3 DEF Owed
  <2>5. IsFiniteSet(Owed \cup {i}) /\ Cardinality(Owed \cup {i}) <= Cardinality(Owed) + 1
    BY <1>6, FS_AddElement
  <2>6. Cardinality(Owed') <= Cardinality(Owed \cup {i}) /\ IsFiniteSet(Owed')
    BY <2>4, <2>5, FS_Subset
  <2>7. Cardinality(Owed') \in Nat /\ Cardinality(Owed \cup {i}) \in Nat
    BY <2>5, <2>6, FS_CardinalityType
  <2>8. Cardinality(Owed') <= Cardinality(Owed) + 1
    BY <1>6, <2>5, <2>6, <2>7
  <2>9. QED
    BY <1>2, <1>3, <1>4, <1>5, <1>8, <2>8
<1>9. QED
  BY <1>7, <1>8

LEMMA DequeuerCallsLoses ==
  ASSUME PipeInv, PipeInv', LossInv, NEW d \in Dequeuer, DequeuerCalls(d)
  PROVE  LossInv'
<1>1. PipeTypes /\ PipeTypes'
  BY DEF PipeInv
<1>2. /\ phase[d] = "connect"
      /\ UNCHANGED <<pages, nextPage, given, signals, imported, failures, timeouts>>
  BY DEF DequeuerCalls, counts
<1>3. EnqueuerInv /\ Known /\ BatchFits /\ DequeuersInv /\ LostCount /\ ChunksOf(d) /\ OneCallOf(d)
  BY DEF LossInv, EnqueuerInv, DequeuersInv
<1>4. pages[d] = <<>> /\ reply[d] = Nothing /\ \A i \in Places : ~Awaited(i, d)
  BY <1>2, <1>3 DEF OneCallOf
<1>5. d \in Client \ {Enqueuer} /\ Enqueuer \in Client \ {d} /\ \A e \in Dequeuer : e \in Client
  BY Clients
<1>6. failures' \in 0..MaxFailures /\ failures <= failures'
  <2>1. MaxFailures \in Nat
    BY PipelineAssumption DEF PipelineAssumption
  <2>2. QED
    BY <1>2, <1>3, <2>1 DEF BatchFits
<1>7. Killed' = Killed
  BY <1>2 DEF Killed
<1>8. CASE phase' = [phase EXCEPT ![d] = "exit"] /\ NoCall
  <2>1. phase'[d] = "exit" /\ \A c \in Client \ {d} : phase'[c] = phase[c]
    BY <1>1, <1>5, <1>8 DEF PipeTypes
  <2>2. /\ UNCHANGED <<accepted, reply, backlog>> /\ Places' = Places
        /\ \A i \in Places : ~Awaited(i, d)'
    BY <1>4, <1>5, <1>8, NoCallConns
  <2>3. ChunksOf(d)'
    BY <1>2, <1>3, <2>2 DEF ChunksOf, Out, OnItsWay
  <2>4. OneCallOf(d)'
    BY <1>2, <1>4, <2>1, <2>2 DEF OneCallOf
  <2>5. Has(d) \subseteq Has(d)'
    BY <1>2, <1>4, <2>1, EmptyOrder DEF Has, Out, OnItsWay
  <2>6. EnqueuerInv' /\ DequeuersInv'
    BY <1>1, <1>2, <1>5, <1>6, <1>7, <1>8, <2>1, <2>3, <2>4, <2>5, DequeuerByItself
  <2>7. Signalled'
    BY <1>2, <1>5, <2>1, <2>2, StillSignalled DEF LossInv, Signalled
  <2>8. QED
    BY <2>6, <2>7 DEF LossInv
<1>9. CASE Connect(d)
  <2>1. /\ UNCHANGED <<rawPages, accepted, reply>>
        /\ phase' = [phase EXCEPT ![d] = "wait"]
        /\ \A i \in Places' :
             /\ i \in Places =>
                  /\ At(i)' = At(i) /\ Forsaken(i)' = Forsaken(i)
                  /\ \A e \in Client : Awaited(i, e)' = Awaited(i, e)
             /\ i \notin Places =>
                  /\ i = Len(backlog) + 1 /\ i \in DOMAIN backlog'
                  /\ At(i)'.body = <<>>
                  /\ ~Forsaken(i)' /\ ~At(i)'.answered
                  /\ \A e \in Client : Awaited(i, e)' => e = d
    BY <1>1, <1>5, <1>9, ConnectConns
  <2>2. phase'[d] = "wait" /\ \A c \in Client \ {d} : phase'[c] = phase[c]
    BY <1>1, <1>5, <2>1 DEF PipeTypes
  <2>3. EnqueuerInv'
    <3>1. \A i \in Places' : At(i)' # Nothing => ToSet(At(i)'.body) \subseteq given
      BY <1>3, <2>1, EmptyOrder DEF Known
    <3>2. QED
      BY <1>2, <1>3, <1>5, <1>6, <2>1, <2>2, <3>1, EnqueuerUntouched
  <2>4. ChunksOf(d)'
    BY <1>2, <1>3, <2>1 DEF ChunksOf, Out, OnItsWay
  <2>5. OneCallOf(d)'
    <3>1. \A i \in Places' : Awaited(i, d)' => i = Len(backlog) + 1
      BY <1>4, <1>5, <2>1
    <3>2. QED
      BY <1>2, <1>4, <2>1, <2>2, <3>1 DEF OneCallOf
  <2>6. Has(d) = Has(d)'
    BY <1>2, <2>1, <2>2 DEF Has, Out, OnItsWay
  <2>7. Spent <= Spent' /\ timeouts' \in 0..MaxTimeouts /\ IsFiniteSet(Killed')
    <3>1. Owed' \in SUBSET Owed
      BY <2>1 DEF Owed
    <3>2. IsFiniteSet(Killed')
      BY <1>3, <1>7 DEF LostCount
    <3>3. /\ timeouts \in Nat /\ Cardinality(Killed) \in Nat
          /\ IsFiniteSet(Owed) /\ Cardinality(Owed) \in Nat /\ Cardinality(Owed)' \in Nat
      BY <1>1, <1>3, <3>2, SpentOf
    <3>4. Cardinality(Owed') <= Cardinality(Owed)
      BY <3>1, <3>3, FS_Subset
    <3>5. Spent <= Spent'
      BY <1>2, <1>7, <3>3, <3>4 DEF Spent
    <3>6. QED
      BY <1>2, <1>3, <3>2, <3>5 DEF LostCount
  <2>8. \A e \in Dequeuer \ {d} :
          /\ imported'[e] = imported[e] /\ pages'[e] = pages[e]
          /\ phase'[e] = phase[e] /\ reply'[e] = reply[e]
          /\ \A i \in Places' : Awaited(i, e)' => i \in Places /\ Awaited(i, e)
    BY <1>2, <1>5, <2>1, <2>2
  <2>9. DequeuersInv'
    BY <1>1, <1>3, <2>1, <2>4, <2>5, <2>6, <2>7, <2>8, DequeuerMoved, FS_EmptySet
  <2>10. \A i \in DOMAIN backlog' : ~backlog'[i].answered
    <3> SUFFICES ASSUME NEW i \in DOMAIN backlog' PROVE ~backlog'[i].answered
      OBVIOUS
    <3>1. i \in Places' /\ i # 0 /\ At(i)' = backlog'[i]
      BY <1>1 DEF PipeTypes, Places, At
    <3>2. i \in Places => i \in DOMAIN backlog /\ At(i) = backlog[i]
      BY <1>1, <3>1 DEF PipeTypes, Places, At
    <3>3. QED
      BY <2>1, <3>1, <3>2 DEF LossInv, Signalled
  <2>11. Signalled'
    BY <1>2, <1>5, <2>2, <2>10, StillSignalled DEF LossInv
  <2>12. QED
    BY <2>3, <2>9, <2>11 DEF LossInv
<1>10. QED
  BY <1>8, <1>9 DEF DequeuerCalls

LEMMA HandlePageLoses ==
  ASSUME PipeInv, PipeInv', LossInv, NEW d \in Dequeuer, HandlePage(d)
  PROVE  LossInv'
<1>1. PipeTypes /\ PipeTypes' /\ OrderAt(d)
  BY DEF PipeInv, Rest, InOrder
<1>2. /\ phase[d] = "handle" /\ NoCall
      /\ UNCHANGED <<nextPage, given, signals, failures, timeouts>>
      /\ imported' = [imported EXCEPT ![d] = Append(@, Head(pages[d]))]
      /\ pages' = [pages EXCEPT ![d] = Tail(@)]
      /\ phase' = [phase EXCEPT ![d] = IF Len(pages[d]) = 1 THEN "connect" ELSE "handle"]
  BY DEF HandlePage, counts
<1>3. EnqueuerInv /\ BatchFits /\ DequeuersInv /\ ChunksOf(d) /\ OneCallOf(d)
  BY DEF LossInv, EnqueuerInv, DequeuersInv
<1>4. reply[d] = Nothing /\ \A i \in Places : ~Awaited(i, d)
  BY <1>2, <1>3 DEF OneCallOf
<1>5. d \in Client \ {Enqueuer} /\ Enqueuer \in Client \ {d} /\ \A e \in Dequeuer : e \in Client
  BY Clients
<1>6. failures' \in 0..MaxFailures /\ failures <= failures'
  <2>1. MaxFailures \in Nat
    BY PipelineAssumption DEF PipelineAssumption
  <2>2. QED
    BY <1>2, <1>3, <2>1 DEF BatchFits
<1>7. Killed' = Killed
  BY <1>2 DEF Killed
<1>8. imported[d] \in Seq(Nat) /\ pages[d] \in Seq(Nat) /\ pages[d] # <<>>
  BY <1>1, <1>2, <1>5 DEF PipeTypes
<1>9. /\ imported'[d] = Append(imported[d], Head(pages[d])) /\ pages'[d] = Tail(pages[d])
      /\ phase'[d] = (IF Len(pages[d]) = 1 THEN "connect" ELSE "handle")
      /\ \A e \in Dequeuer \ {d} : imported'[e] = imported[e]
      /\ \A c \in Client \ {d} : pages'[c] = pages[c] /\ phase'[c] = phase[c]
  BY <1>1, <1>2, <1>5 DEF PipeTypes
<1>10. /\ Head(pages[d]) \in Nat /\ Tail(pages[d]) \in Seq(Nat)
       /\ ToSet(pages[d]) = {Head(pages[d])} \cup ToSet(Tail(pages[d]))
       /\ Len(Tail(pages[d])) = Len(pages[d]) - 1
  BY <1>1, <1>8, HeadTailOrder DEF OrderAt
<1>11. ToSet(imported'[d]) = ToSet(imported[d]) \cup {Head(pages[d])}
  BY <1>8, <1>9, <1>10, AppendOrder
<1>12. /\ UNCHANGED <<accepted, reply, backlog>> /\ Places' = Places
       /\ \A i \in Places : ~Awaited(i, d)'
  BY <1>2, <1>4, <1>5, NoCallConns
<1>13. Out(d)' = Out(d) /\ OnItsWay(d)' = OnItsWay(d)
  BY <1>9, <1>10, <1>11, <1>12 DEF Out, OnItsWay
<1>14. ChunksOf(d)'
  <2>1. Len(pages[d]) \in Nat /\ ChunkSize \in Nat
    BY <1>8, PipelineAssumption DEF PipelineAssumption
  <2>2. Len(pages'[d]) <= ChunkSize
    BY <1>3, <1>9, <1>10, <2>1 DEF ChunksOf
  <2>3. QED
    BY <1>3, <1>12, <1>13, <2>2 DEF ChunksOf
<1>15. OneCallOf(d)'
  <2>1. pages'[d] # <<>> => phase'[d] = "handle"
    <3>1. \A s \in Seq(Nat) : Len(s) = 0 => s = <<>>
      OBVIOUS
    <3>2. PICK t \in Seq(Nat) : t = Tail(pages[d]) /\ Len(t) = Len(pages[d]) - 1
      BY <1>10
    <3>3. Len(pages[d]) = 1 => t = <<>>
      BY <3>1, <3>2
    <3>4. QED
      BY <1>9, <3>2, <3>3
  <2>2. QED
    BY <1>4, <1>12, <2>1 DEF OneCallOf
<1>16. Has(d) \subseteq Has(d)'
  BY <1>2, <1>9, <1>13 DEF Has
<1>17. EnqueuerInv' /\ DequeuersInv'
  BY <1>1, <1>2, <1>5, <1>6, <1>7, <1>9, <1>14, <1>15, <1>16, DequeuerByItself
<1>18. Signalled'
  BY <1>2, <1>5, <1>9, <1>12, StillSignalled DEF LossInv, Signalled
<1>19. QED
  BY <1>17, <1>18 DEF LossInv

LEMMA DequeuerReceivesLoses ==
  ASSUME PipeInv, PipeInv', LossInv, NEW d \in Dequeuer, DequeuerReceives(d)
  PROVE  LossInv'
<1>1. PipeTypes /\ PipeTypes'
  BY DEF PipeInv
<1>2. /\ phase[d] = "wait" /\ reply[d] # Nothing /\ Disconnect(d)
      /\ UNCHANGED <<nextPage, given, signals, imported, failures, timeouts>>
      /\ pages' = [pages EXCEPT ![d] = reply[d].body]
      /\ phase' = [phase EXCEPT ![d] = IF reply[d].body = <<>> THEN "connect" ELSE "handle"]
  BY DEF DequeuerReceives, counts
<1>3. EnqueuerInv /\ Known /\ BatchFits /\ DequeuersInv /\ LostCount /\ ChunksOf(d) /\ OneCallOf(d)
  BY DEF LossInv, EnqueuerInv, DequeuersInv
<1>4. pages[d] = <<>> /\ \A i \in Places : ~Awaited(i, d)
  BY <1>2, <1>3 DEF OneCallOf
<1>5. d \in Client \ {Enqueuer} /\ Enqueuer \in Client \ {d} /\ \A e \in Dequeuer : e \in Client
  BY Clients
<1>6. failures' \in 0..MaxFailures /\ failures <= failures'
  <2>1. MaxFailures \in Nat
    BY PipelineAssumption DEF PipelineAssumption
  <2>2. QED
    BY <1>2, <1>3, <2>1 DEF BatchFits
<1>7. Killed' = Killed /\ IsFiniteSet(Killed')
  BY <1>2, <1>3 DEF Killed, LostCount
<1>8. /\ UNCHANGED <<rawPages, accepted>> /\ reply'[d] = Nothing
      /\ \A c \in Client \ {d} : reply'[c] = reply[c]
      /\ \A i \in Places' : At(i)' # Nothing => ToSet(At(i)'.body) \subseteq given
      /\ \A i \in DOMAIN backlog' : ~backlog'[i].answered
      /\ \A i \in Places', e \in Client :
           Awaited(i, e)' => i \in Places /\ Awaited(i, e) /\ e # d
      /\ Cardinality(Owed') <= Cardinality(Owed)
  BY <1>1, <1>2, <1>4, DequeuerDisconnects
<1>9. /\ pages'[d] = reply[d].body
      /\ phase'[d] = (IF reply[d].body = <<>> THEN "connect" ELSE "handle")
      /\ \A c \in Client \ {d} : pages'[c] = pages[c] /\ phase'[c] = phase[c]
  BY <1>1, <1>2, <1>5 DEF PipeTypes
<1>10. EnqueuerInv'
  BY <1>2, <1>3, <1>5, <1>6, <1>8, <1>9, EnqueuerUntouched
<1>11. OnItsWay(d) = reply[d].body /\ OnItsWay(d)' = <<>>
  BY <1>2, <1>8 DEF OnItsWay
<1>12. Out(d)' = Out(d)
  BY <1>2, <1>4, <1>9, <1>11, EmptyOrder DEF Out
<1>13. ChunksOf(d)'
  <2>1. Len(<<>>) <= ChunkSize
    BY PipelineAssumption DEF PipelineAssumption
  <2>2. QED
    BY <1>3, <1>8, <1>9, <1>11, <1>12, <2>1 DEF ChunksOf
<1>14. OneCallOf(d)'
  BY <1>5, <1>8, <1>9 DEF OneCallOf
<1>15. Has(d) \subseteq Has(d)'
  BY <1>2, <1>9, <1>12 DEF Has
<1>16. Spent <= Spent' /\ timeouts' \in 0..MaxTimeouts
  <2>1. /\ timeouts \in Nat /\ Cardinality(Killed) \in Nat
        /\ Cardinality(Owed) \in Nat /\ Cardinality(Owed)' \in Nat
    BY <1>1, <1>3, <1>7, SpentOf
  <2>2. Spent <= Spent'
    BY <1>2, <1>7, <1>8, <2>1 DEF Spent
  <2>3. QED
    BY <1>2, <1>3, <2>2 DEF LostCount
<1>17. \A e \in Dequeuer \ {d} :
         /\ imported'[e] = imported[e] /\ pages'[e] = pages[e]
         /\ phase'[e] = phase[e] /\ reply'[e] = reply[e]
         /\ \A i \in Places' : Awaited(i, e)' => i \in Places /\ Awaited(i, e)
  BY <1>2, <1>5, <1>8, <1>9
<1>18. DequeuersInv'
  BY <1>1, <1>3, <1>7, <1>8, <1>13, <1>14, <1>15, <1>16, <1>17, DequeuerMoved, FS_EmptySet
<1>19. Signalled'
  BY <1>2, <1>5, <1>8, <1>9, StillSignalled DEF LossInv
<1>20. QED
  BY <1>10, <1>18, <1>19 DEF LossInv

(* A dequeuer gives up its call, or ends: the pages of X are lost to it,   *)
(* or the server still has them and the call is forsaken.                  *)
LEMMA DequeuerGivesUp ==
  ASSUME PipeInv, PipeInv', LossInv, NEW d \in Dequeuer, phase[d] # "exit", Disconnect(d),
         UNCHANGED <<pages, nextPage, given, imported, failures>>,
         phase'[d] = "exit" \/ pages[d] = <<>>,
         \A c \in Client \ {d} : phase'[c] = phase[c],
         signals'[Enqueuer] = signals[Enqueuer],
         timeouts' \in 0..MaxTimeouts, IsFiniteSet(Killed'),
         timeouts' + Cardinality(Killed') = timeouts + Cardinality(Killed) + 1
  PROVE  /\ EnqueuerInv' /\ DequeuersInv'
         /\ \A i \in DOMAIN backlog' : ~backlog'[i].answered
<1>1. PipeTypes /\ PipeTypes'
  BY DEF PipeInv
<1>2. EnqueuerInv /\ Known /\ BatchFits /\ DequeuersInv /\ LostCount /\ ChunksOf(d) /\ OneCallOf(d)
  BY DEF LossInv, EnqueuerInv, DequeuersInv
<1>3. d \in Client \ {Enqueuer} /\ Enqueuer \in Client \ {d} /\ \A e \in Dequeuer : e \in Client
  BY Clients
<1>4. failures' \in 0..MaxFailures /\ failures <= failures'
  <2>1. MaxFailures \in Nat
    BY PipelineAssumption DEF PipelineAssumption
  <2>2. QED
    BY <1>2, <2>1 DEF BatchFits
<1>5. /\ UNCHANGED <<rawPages, accepted>> /\ reply'[d] = Nothing
      /\ \A c \in Client \ {d} : reply'[c] = reply[c]
      /\ \A i \in Places' : At(i)' # Nothing => ToSet(At(i)'.body) \subseteq given
      /\ \A i \in DOMAIN backlog' : ~backlog'[i].answered
      /\ \A i \in Places', e \in Client :
           Awaited(i, e)' => i \in Places /\ Awaited(i, e) /\ e # d
      /\ Cardinality(Owed') <= Cardinality(Owed) + 1
      /\ (\A i \in Places : ~Awaited(i, d)) => Cardinality(Owed') <= Cardinality(Owed)
  BY <1>1, DequeuerDisconnects
<1>6. /\ pages'[d] = pages[d] /\ (phase'[d] = "exit" \/ pages[d] = <<>>)
      /\ \A c \in Client \ {d} : pages'[c] = pages[c] /\ phase'[c] = phase[c]
  OBVIOUS
<1>7. EnqueuerInv'
  BY <1>2, <1>3, <1>4, <1>5, <1>6, EnqueuerUntouched
<1>8. OnItsWay(d)' = <<>> /\ Out(d)' \subseteq Out(d)
  BY <1>5, <1>6, EmptyOrder DEF OnItsWay, Out
<1>9. ChunksOf(d)'
  <2>1. Len(<<>>) <= ChunkSize
    BY PipelineAssumption DEF PipelineAssumption
  <2>2. QED
    BY <1>2, <1>5, <1>6, <1>8, <2>1 DEF ChunksOf
<1>10. OneCallOf(d)'
  BY <1>3, <1>5, <1>6 DEF OneCallOf
<1>11. \A e \in Dequeuer \ {d} :
         /\ imported'[e] = imported[e] /\ pages'[e] = pages[e]
         /\ phase'[e] = phase[e] /\ reply'[e] = reply[e]
         /\ \A i \in Places' : Awaited(i, e)' => i \in Places /\ Awaited(i, e)
  BY <1>3, <1>5, <1>6
<1>12. /\ Cardinality(Killed) \in Nat /\ Cardinality(Killed') \in Nat
       /\ Cardinality(Owed) \in Nat /\ Cardinality(Owed)' \in Nat
       /\ timeouts \in Nat /\ timeouts' \in Nat
  <2>1. MaxTimeouts \in Nat
    BY PipelineAssumption DEF PipelineAssumption
  <2>2. QED
    BY <1>1, <1>2, <2>1, SpentOf
<1>13. CASE pages[d] = <<>> /\ reply[d] = Nothing
  <2>1. Has(d) \subseteq Has(d)'
    BY <1>5, <1>6, <1>13, EmptyOrder DEF Has, Out, OnItsWay
  <2>2. Spent <= Spent'
    BY <1>5, <1>12 DEF Spent
  <2>3. DequeuersInv'
    BY <1>1, <1>2, <1>5, <1>9, <1>10, <1>11, <2>1, <2>2, DequeuerMoved, FS_EmptySet
  <2>4. QED
    BY <1>5, <1>7, <2>3
<1>14. CASE ~(pages[d] = <<>> /\ reply[d] = Nothing)
  <2>1. \A i \in Places : ~Awaited(i, d)
    BY <1>2, <1>14 DEF OneCallOf
  <2>2. Spent + 1 <= Spent'
    BY <1>5, <1>12, <2>1 DEF Spent
  <2>3. PICK s \in Seq(Nat) :
          /\ Len(s) <= ChunkSize
          /\ ToSet(s) = ToSet(pages[d]) \cup ToSet(OnItsWay(d))
    <3>1. pages[d] \in Seq(Nat) /\ OnItsWay(d) \in Seq(Nat)
      BY <1>1, <1>3, EmptyOrder DEF PipeTypes, OnItsWay, Reply
    <3>2. pages[d] = <<>> \/ OnItsWay(d) = <<>>
      BY <1>2 DEF OneCallOf, OnItsWay
    <3>3. QED
      BY <1>2, <3>1, <3>2, EmptyOrder DEF ChunksOf
  <2>4. IsFiniteSet(ToSet(s)) /\ Cardinality(ToSet(s)) <= ChunkSize
    <3>1. IsFiniteSet(ToSet(s)) /\ Cardinality(ToSet(s)) <= Len(s)
      BY SetOfSequence
    <3>2. Cardinality(ToSet(s)) \in Nat /\ Len(s) \in Nat /\ ChunkSize \in Nat
      BY <3>1, FS_CardinalityType, PipelineAssumption DEF PipelineAssumption
    <3>3. QED
      BY <2>3, <3>1, <3>2
  <2>5. Has(d) \subseteq Has(d)' \cup ToSet(s)
    BY <2>3 DEF Has, Out
  <2>6. DequeuersInv'
    BY <1>1, <1>2, <1>5, <1>9, <1>10, <1>11, <2>2, <2>4, <2>5, DequeuerMoved
  <2>7. QED
    BY <1>5, <1>7, <2>6
<1>15. QED
  BY <1>13, <1>14

LEMMA DequeuerFailsLoses ==
  ASSUME PipeInv, PipeInv', LossInv, NEW d \in Dequeuer, DequeuerFails(d)
  PROVE  LossInv'
<1>1. PipeTypes /\ PipeTypes'
  BY DEF PipeInv
<1>2. /\ phase' = [phase EXCEPT ![d] = "connect"]
      /\ UNCHANGED <<pages, nextPage, given, signals, imported>>
  BY DEF DequeuerFails
<1>3. EnqueuerInv /\ BatchFits /\ DequeuersInv /\ LostCount /\ ChunksOf(d) /\ OneCallOf(d)
  BY DEF LossInv, EnqueuerInv, DequeuersInv
<1>4. d \in Client \ {Enqueuer} /\ Enqueuer \in Client \ {d} /\ \A e \in Dequeuer : e \in Client
  BY Clients
<1>5. phase'[d] = "connect" /\ \A c \in Client \ {d} : phase'[c] = phase[c]
  BY <1>1, <1>2, <1>4 DEF PipeTypes
<1>6. Killed' = Killed /\ IsFiniteSet(Killed')
  BY <1>2, <1>3 DEF Killed, LostCount
<1>7. MaxFailures \in Nat /\ MaxTimeouts \in Nat
  BY PipelineAssumption DEF PipelineAssumption
<1>8. failures \in 0..MaxFailures /\ timeouts \in 0..MaxTimeouts
  BY <1>3 DEF BatchFits, LostCount
<1>9. CASE /\ phase[d] = "connect" /\ failures < MaxFailures /\ failures' = failures + 1
           /\ NoCall /\ UNCHANGED timeouts
  <2>1. failures' \in 0..MaxFailures /\ failures <= failures'
    BY <1>7, <1>8, <1>9
  <2>2. pages[d] = <<>> /\ reply[d] = Nothing /\ \A i \in Places : ~Awaited(i, d)
    BY <1>3, <1>9 DEF OneCallOf
  <2>3. /\ UNCHANGED <<accepted, reply, backlog>> /\ Places' = Places
        /\ \A i \in Places : ~Awaited(i, d)'
    BY <1>4, <1>9, <2>2, NoCallConns
  <2>4. ChunksOf(d)' /\ Out(d)' = Out(d)
    BY <1>2, <1>3, <2>3 DEF ChunksOf, Out, OnItsWay
  <2>5. OneCallOf(d)'
    BY <1>2, <2>2, <2>3 DEF OneCallOf
  <2>6. Has(d) \subseteq Has(d)'
    BY <1>5, <1>9, <2>4 DEF Has
  <2>7. EnqueuerInv' /\ DequeuersInv'
    BY <1>1, <1>2, <1>4, <1>5, <1>6, <1>9, <2>1, <2>4, <2>5, <2>6, DequeuerByItself
  <2>8. Signalled'
    BY <1>2, <1>4, <1>5, <1>9, <2>3, StillSignalled DEF LossInv, Signalled
  <2>9. QED
    BY <2>7, <2>8 DEF LossInv
<1>10. CASE /\ phase[d] = "wait" /\ timeouts < MaxTimeouts /\ timeouts' = timeouts + 1
            /\ Disconnect(d) /\ UNCHANGED failures
  <2>1. timeouts' \in 0..MaxTimeouts
    BY <1>7, <1>8, <1>10
  <2>2. timeouts' + Cardinality(Killed') = timeouts + Cardinality(Killed) + 1
    <3>1. Cardinality(Killed) \in Nat
      BY <1>6, FS_CardinalityType
    <3>2. QED
      BY <1>6, <1>7, <1>8, <1>10, <3>1
  <2>3. pages[d] = <<>>
    BY <1>3, <1>10 DEF OneCallOf
  <2>4. /\ EnqueuerInv' /\ DequeuersInv'
        /\ \A i \in DOMAIN backlog' : ~backlog'[i].answered
    BY <1>2, <1>5, <1>6, <1>10, <2>1, <2>2, <2>3, DequeuerGivesUp
  <2>5. Signalled'
    BY <1>2, <1>4, <1>5, <1>10, <2>4, StillSignalled DEF LossInv
  <2>6. QED
    BY <2>4, <2>5 DEF LossInv
<1>11. QED
  BY <1>9, <1>10 DEF DequeuerFails

LEMMA SigintLoses ==
  ASSUME PipeInv, PipeInv', LossInv, NEW c \in Client, Sigint(c)
  PROVE  LossInv'
<1>1. PipeTypes /\ PipeTypes'
  BY DEF PipeInv
<1>2. /\ phase[c] # "exit" /\ signals' = [signals EXCEPT ![c] = @ + 1]
      /\ UNCHANGED <<pages, nextPage, given, imported, failures, timeouts>>
      /\ \/ signals[c] = 0 /\ NoCall /\ UNCHANGED phase
         \/ signals[c] = 1 /\ Disconnect(c) /\ phase' = [phase EXCEPT ![c] = "exit"]
  BY DEF Sigint, counts
<1>3. EnqueuerInv /\ Known /\ BatchFits /\ Delivered /\ SentCount /\ DequeuersInv /\ LostCount /\ Signalled
  BY DEF LossInv, EnqueuerInv, DequeuersInv
<1>4. Enqueuer \in Client /\ \A e \in Dequeuer : e \in Client \ {Enqueuer}
  BY Clients
<1>5. /\ signals'[c] = signals[c] + 1 /\ \A e \in Client \ {c} : signals'[e] = signals[e]
      /\ signals' \in [Client -> 0..2]
  <2>1. signals \in [Client -> 0..2]
    BY <1>3 DEF Signalled
  <2>2. signals[c] + 1 \in 0..2
    BY <1>2
  <2>3. QED
    BY <1>2, <2>1, <2>2
<1>6. MaxFailures \in Nat /\ MaxTimeouts \in Nat
  BY PipelineAssumption DEF PipelineAssumption
<1>7. failures \in 0..MaxFailures /\ timeouts \in 0..MaxTimeouts /\ failures' = failures /\ timeouts' = timeouts
  BY <1>2, <1>3 DEF BatchFits, LostCount
<1>8. CASE signals[c] = 0 /\ NoCall /\ UNCHANGED phase
  <2>1. \A e \in Client : (signals'[e] = 2) = (signals[e] = 2)
    BY <1>5, <1>8
  <2>2. Killed' = Killed
    BY <1>4, <2>1 DEF Killed
  <2>3. /\ UNCHANGED <<rawPages, accepted, reply, backlog>>
        /\ Places' = Places /\ Owed' = Owed
        /\ \A i \in Places : /\ At(i)' = At(i)
                             /\ \A e \in Client : Awaited(i, e)' = Awaited(i, e)
    BY <1>8, NoCallConns
  <2>4. Signalled'
    BY <1>3, <1>5, <1>8, <2>1, <2>3 DEF Signalled
  <2>5. EnqueuerInv'
    <3>1. Batch' = Batch /\ Known'
      BY <1>2, <1>3, <2>3 DEF Known, Batch
    <3>2. BatchFits' /\ Delivered'
      BY <1>2, <1>3, <1>8, <2>3, <3>1 DEF BatchFits, Delivered
    <3>3. Stopped(Enqueuer)' = Stopped(Enqueuer)
      BY <1>4, <2>1 DEF Stopped
    <3>4. NeverSent' = NeverSent
      BY <1>2, <1>8, <2>3 DEF NeverSent
    <3>5. SentCount'
      BY <1>2, <1>3, <3>3, <3>4 DEF SentCount
    <3>6. QED
      BY <3>1, <3>2, <3>5 DEF EnqueuerInv
  <2>6. DequeuersInv'
    <3>1. QueueFits'
      BY <1>3, <2>3 DEF DequeuersInv, QueueFits, Queued
    <3>2. \A e \in Dequeuer : ChunksOf(e)' /\ OneCallOf(e)' /\ Has(e)' = Has(e)
      BY <1>2, <1>3, <1>4, <1>8, <2>3, DequeuerUntouched DEF DequeuersInv
    <3>3. Gone' = Gone
      BY <2>3, <3>2 DEF Gone, Queued
    <3>4. Spent' = Spent
      BY <1>7, <2>2, <2>3 DEF Spent
    <3>5. LostCount'
      BY <1>3, <1>7, <2>2, <3>3, <3>4 DEF LostCount
    <3>6. QED
      BY <3>1, <3>2, <3>5 DEF DequeuersInv
  <2>7. QED
    BY <2>4, <2>5, <2>6 DEF LossInv
<1>9. CASE signals[c] = 1 /\ Disconnect(c) /\ phase' = [phase EXCEPT ![c] = "exit"]
  <2>1. phase'[c] = "exit" /\ \A e \in Client \ {c} : phase'[e] = phase[e]
    BY <1>1, <1>9 DEF PipeTypes
  <2>2. ASSUME \A i \in DOMAIN backlog' : ~backlog'[i].answered
        PROVE  Signalled'
    BY <1>3, <1>5, <2>1, <2>2 DEF Signalled
  <2>3. CASE c = Enqueuer
    <3>1. /\ DequeuersInv' /\ UNCHANGED accepted /\ reply'[Enqueuer] = Nothing
          /\ \A i \in Places' : At(i)' # Nothing => ToSet(At(i)'.body) \subseteq given
          /\ \A i \in DOMAIN backlog' : ~backlog'[i].answered
      BY <1>1, <1>2, <1>4, <1>5, <1>9, <2>1, <2>3, EnqueuerDisconnects
    <3>2. Batch' = Batch /\ Known'
      BY <1>2, <1>3, <3>1 DEF Known, Batch
    <3>3. BatchFits' /\ Delivered'
      BY <1>2, <1>3, <2>1, <2>3, <3>1 DEF BatchFits, Delivered
    <3>4. Stopped(Enqueuer) = 0 /\ Stopped(Enqueuer)' = 1
      BY <1>5, <1>9, <2>3 DEF Stopped
    <3>5. NeverSent' \subseteq NeverSent \cup Batch
      BY <1>2, <3>1 DEF NeverSent, Batch
    <3>6. IsFiniteSet(Batch) /\ Cardinality(Batch) <= BatchSize
      BY <1>1, <1>3, BatchFinite
    <3>7. failures + Stopped(Enqueuer) + 1 <= failures' + Stopped(Enqueuer)'
      BY <1>6, <1>7, <3>4
    <3>8. SentCount'
      BY <1>3, <1>7, <3>5, <3>6, <3>7, SentPaid
    <3>9. QED
      BY <2>2, <3>1, <3>2, <3>3, <3>8 DEF LossInv, EnqueuerInv
  <2>4. CASE c # Enqueuer
    <3>1. c \in Dequeuer
      BY <2>4 DEF Client
    <3>2. Killed' = Killed \cup {c} /\ c \notin Killed
      <4>1. \A e \in Dequeuer \ {c} : signals'[e] = signals[e]
        BY <1>4, <1>5
      <4>2. signals'[c] = 2 /\ signals[c] = 1
        BY <1>5, <1>9
      <4>3. QED
        BY <3>1, <4>1, <4>2 DEF Killed
    <3>3. IsFiniteSet(Killed') /\ Cardinality(Killed') = Cardinality(Killed) + 1
      BY <1>3, <3>2, FS_AddElement DEF LostCount
    <3>4. timeouts' + Cardinality(Killed') = timeouts + Cardinality(Killed) + 1
      <4>1. Cardinality(Killed) \in Nat
        BY <1>3, FS_CardinalityType DEF LostCount
      <4>2. QED
        BY <1>6, <1>7, <3>3, <4>1
    <3>5. signals'[Enqueuer] = signals[Enqueuer]
      BY <1>4, <1>5, <2>4
    <3>6. /\ EnqueuerInv' /\ DequeuersInv'
          /\ \A i \in DOMAIN backlog' : ~backlog'[i].answered
      BY <1>2, <1>7, <1>9, <2>1, <3>1, <3>3, <3>4, <3>5, DequeuerGivesUp
    <3>7. QED
      BY <2>2, <3>6 DEF LossInv
  <2>5. QED
    BY <2>3, <2>4
<1>10. QED
  BY <1>2, <1>8, <1>9

-----------------------------------------------------------------------------
(* The server's steps.                                                     *)

LEMMA SplitSet ==
  ASSUME NEW s \in Seq(Nat), NEW n \in 0..Len(s)
  PROVE  /\ ToSet(s) \subseteq ToSet(SubSeq(s, 1, n)) \cup ToSet(SubSeq(s, n + 1, Len(s)))
         /\ Len(SubSeq(s, 1, n)) = n /\ Len(SubSeq(s, n + 1, Len(s))) <= Len(s)
<1> DEFINE p == SubSeq(s, 1, n)
           q == SubSeq(s, n + 1, Len(s))
<1>1. p \in Seq(Nat) /\ Len(p) = n /\ \A i \in 1..n : p[i] = s[i]
  OBVIOUS
<1>2. q \in Seq(Nat) /\ Len(q) = Len(s) - n /\ \A i \in 1..Len(s) - n : q[i] = s[n + i]
  OBVIOUS
<1>3. DOMAIN s = 1..Len(s) /\ DOMAIN p = 1..n /\ DOMAIN q = 1..Len(s) - n
  BY <1>1, <1>2
<1> HIDE DEF p, q
<1>4. ASSUME NEW i \in 1..Len(s)
      PROVE  s[i] \in ToSet(p) \cup ToSet(q)
  <2>1. CASE i <= n
    BY <2>1, <1>1, <1>3 DEF ToSet
  <2>2. CASE n < i
    <3>1. i - n \in 1..Len(s) - n /\ n + (i - n) = i
      BY <2>2
    <3>2. s[i] = q[i - n]
      BY <3>1, <1>2
    <3>3. QED
      BY <3>1, <3>2, <1>3 DEF ToSet
  <2>3. QED
    BY <2>1, <2>2
<1>5. ToSet(s) \subseteq ToSet(p) \cup ToSet(q)
  BY <1>3, <1>4 DEF ToSet
<1>6. QED
  BY <1>1, <1>2, <1>5 DEF p, q

LEMMA ServerServes ==
  ASSUME PipeTypes, PipeTypes', Known, DequeuersInv, QueueFits', UNCHANGED <<timeouts, signals>>,
         \A d \in Dequeuer : ChunksOf(d)' /\ OneCallOf(d)',
         NEW X, IsFiniteSet(X), Gone' \subseteq Gone \cup X,
         \/ X = {} /\ Cardinality(Owed') <= Cardinality(Owed)
         \/ Cardinality(X) <= ChunkSize /\ Cardinality(Owed') + 1 <= Cardinality(Owed)
  PROVE  DequeuersInv'
<1>1. LostCount
  BY DEF DequeuersInv
<1>2. Killed' = Killed /\ IsFiniteSet(Killed') /\ timeouts' \in 0..MaxTimeouts
  BY <1>1 DEF Killed, LostCount
<1>3. /\ timeouts \in Nat /\ Cardinality(Killed) \in Nat
      /\ Cardinality(Owed) \in Nat /\ Cardinality(Owed)' \in Nat
  BY <1>1, <1>2, SpentOf
<1>4. \/ X = {} /\ Spent <= Spent'
      \/ Cardinality(X) <= ChunkSize /\ Spent + 1 <= Spent'
  BY <1>2, <1>3 DEF Spent
<1>5. LostCount'
  BY <1>1, <1>2, <1>4, LossPaid, GoneFinite
<1>6. QED
  BY <1>5 DEF DequeuersInv

(* The next connection of the line is served: all move on by one place.    *)
LEMMA AcceptLoses ==
  ASSUME PipeInv, PipeInv', LossInv, Accept
  PROVE  LossInv'
<1>1. PipeTypes /\ PipeTypes'
  BY DEF PipeInv
<1>2. /\ serving = Nothing /\ backlog # <<>> /\ serving' = Head(backlog) /\ backlog' = Tail(backlog)
      /\ UNCHANGED <<rawPages, accepted, reply, phase, pages, nextPage, given, signals,
                     imported, failures, timeouts>>
  BY DEF Accept, batches, counts
<1>3. EnqueuerInv /\ Known /\ BatchFits /\ DequeuersInv /\ Signalled
  BY DEF LossInv, EnqueuerInv
<1>4. backlog \in Seq(Connection) /\ Len(backlog) \in Nat /\ Len(backlog) >= 1
      /\ DOMAIN backlog = 1..Len(backlog)
  BY <1>1, <1>2 DEF PipeTypes
<1>5. Len(backlog') = Len(backlog) - 1 /\ \A i \in 1..Len(backlog) - 1 : backlog'[i] = backlog[i + 1]
  BY <1>2, <1>4
<1>6. serving' = backlog[1]
  BY <1>2, <1>4
<1>7. DOMAIN backlog' = 1..Len(backlog) - 1
  BY <1>1, <1>5 DEF PipeTypes
<1>8. ASSUME NEW i \in Places'
      PROVE  /\ i \in Nat /\ i + 1 \in Places /\ At(i)' = At(i + 1)
             /\ Forsaken(i)' = Forsaken(i + 1)
             /\ \A e \in Client : Awaited(i, e)' = Awaited(i + 1, e)
  <2>1. i \in 0..Len(backlog) - 1
    BY <1>5 DEF Places
  <2>2. i \in Nat /\ i + 1 \in Places /\ i + 1 # 0
    BY <1>4, <2>1 DEF Places
  <2>3. At(i)' = backlog[i + 1]
    <3>1. CASE i = 0
      BY <3>1, <1>6 DEF At
    <3>2. CASE i # 0
      <4>1. i \in 1..Len(backlog) - 1
        BY <2>1, <3>2
      <4>2. QED
        BY <3>2, <4>1, <1>5 DEF At
    <3>3. QED
      BY <3>1, <3>2
  <2>4. At(i)' = At(i + 1)
    BY <2>2, <2>3 DEF At
  <2>5. QED
    BY <2>2, <2>4 DEF Forsaken, Awaited, Open
<1>9. EnqueuerInv'
  <2>1. \A i \in Places' : At(i)' # Nothing => ToSet(At(i)'.body) \subseteq given
    BY <1>3, <1>8 DEF Known
  <2>2. MaxFailures \in Nat
    BY PipelineAssumption DEF PipelineAssumption
  <2>3. failures' \in 0..MaxFailures /\ failures <= failures'
    BY <1>2, <1>3, <2>2 DEF BatchFits
  <2>4. QED
    BY <1>2, <1>3, <2>1, <2>3, EnqueuerUntouched
<1>10. IsFiniteSet(Owed) /\ Cardinality(Owed') <= Cardinality(Owed)
  <2> DEFINE f == [i \in Owed' |-> i + 1]
  <2>1. IsFiniteSet(Owed)
    BY <1>1, OwedFinite
  <2>2. \A i \in Owed' : i \in Nat /\ i + 1 \in Owed
    BY <1>8 DEF Owed
  <2>3. f \in Injection(Owed', Owed)
    BY <2>2 DEF Injection, IsInjective
  <2>4. QED
    BY <2>1, <2>3, FS_Injection
<1>11. \A d \in Dequeuer : ChunksOf(d)' /\ OneCallOf(d)' /\ Has(d)' = Has(d)
  <2> SUFFICES ASSUME NEW d \in Dequeuer PROVE ChunksOf(d)' /\ OneCallOf(d)' /\ Has(d)' = Has(d)
    OBVIOUS
  <2>1. ChunksOf(d) /\ OneCallOf(d) /\ d \in Client
    BY <1>3, Clients DEF DequeuersInv
  <2>2. ChunksOf(d)' /\ Has(d)' = Has(d)
    BY <1>2, <2>1 DEF ChunksOf, Has, Out, OnItsWay
  <2>3. OneCallOf(d)'
    <3>1. \A i \in Places' : Awaited(i, d)' => phase[d] = "wait" /\ reply[d] = Nothing
      BY <1>8, <2>1 DEF OneCallOf
    <3>2. ASSUME NEW i \in Places', NEW j \in Places', Awaited(i, d)', Awaited(j, d)'
          PROVE  i = j
      <4>1. i + 1 = j + 1
        BY <1>8, <2>1, <3>2 DEF OneCallOf
      <4>2. QED
        BY <1>8, <4>1
    <3>3. QED
      BY <1>2, <2>1, <3>1, <3>2 DEF OneCallOf
  <2>4. QED
    BY <2>2, <2>3
<1>12. DequeuersInv'
  <2>1. QueueFits' /\ Gone' = Gone
    BY <1>2, <1>3, <1>11 DEF DequeuersInv, QueueFits, Queued, Gone
  <2>2. QED
    BY <1>1, <1>2, <1>3, <1>10, <1>11, <2>1, ServerServes, FS_EmptySet
<1>13. Signalled'
  <2>1. \A i \in DOMAIN backlog' : ~backlog'[i].answered
    BY <1>3, <1>4, <1>5, <1>7 DEF Signalled
  <2>2. QED
    BY <1>2, <1>3, <2>1 DEF Signalled
<1>14. QED
  BY <1>9, <1>12, <1>13 DEF LossInv

LEMMA HangupLoses ==
  ASSUME PipeInv, PipeInv', LossInv, Hangup
  PROVE  LossInv'
<1>1. PipeTypes /\ PipeTypes'
  BY DEF PipeInv
<1>2. /\ serving # Nothing /\ serving.answered /\ serving' = Nothing
      /\ UNCHANGED <<rawPages, backlog, accepted, reply, phase, pages, nextPage, given, signals,
                     imported, failures, timeouts>>
  BY DEF Hangup, batches, counts
<1>3. EnqueuerInv /\ Known /\ BatchFits /\ DequeuersInv /\ Signalled
  BY DEF LossInv, EnqueuerInv
<1>4. /\ Places' = Places
      /\ \A i \in Places : /\ At(i)' # Nothing => At(i)' = At(i)
                           /\ Forsaken(i)' = Forsaken(i)
                           /\ \A e \in Client : Awaited(i, e)' = Awaited(i, e)
  BY <1>2 DEF Places, At, Forsaken, Awaited, Open
<1>5. EnqueuerInv'
  <2>1. \A i \in Places' : At(i)' # Nothing => ToSet(At(i)'.body) \subseteq given
    BY <1>3, <1>4 DEF Known
  <2>2. MaxFailures \in Nat
    BY PipelineAssumption DEF PipelineAssumption
  <2>3. failures' \in 0..MaxFailures /\ failures <= failures'
    BY <1>2, <1>3, <2>2 DEF BatchFits
  <2>4. QED
    BY <1>2, <1>3, <2>1, <2>3, EnqueuerUntouched
<1>6. DequeuersInv'
  BY <1>1, <1>2, <1>3, <1>4, Clients, DequeuersUntouched
<1>7. Signalled'
  BY <1>2, <1>3 DEF Signalled
<1>8. QED
  BY <1>5, <1>6, <1>7 DEF LossInv

LEMMA AnsweredConns ==
  ASSUME PipeTypes, serving # Nothing, NEW answer \in Reply, AnswerWith(answer)
  PROVE  /\ Places' = Places
         /\ \A i \in Places :
              /\ At(i)' # Nothing => At(i) # Nothing /\ At(i)'.body = At(i).body
              /\ Forsaken(i)' => Forsaken(i) /\ i # 0
              /\ \A e \in Client : Awaited(i, e)' => Awaited(i, e) /\ i # 0
         /\ serving.live => reply'[serving.client] = answer
<1>1. serving \in Connection /\ serving.client \in Client
  BY DEF PipeTypes, Connection
<1>2. UNCHANGED backlog /\ (serving' # Nothing => serving'.body = serving.body /\ serving'.answered)
  BY Answered
<1>3. serving.live => reply'[serving.client] = answer
  BY <1>1 DEF AnswerWith, PipeTypes
<1>4. QED
  BY <1>2, <1>3 DEF Places, At, Forsaken, Awaited, Open

LEMMA HandleDequeueLoses ==
  ASSUME PipeInv, PipeInv', LossInv, NEW d \in Dequeuer, HandleDequeue(d)
  PROVE  LossInv'
<1> DEFINE p == SubSeq(rawPages, 1, Amount)
           q == SubSeq(rawPages, Amount + 1, Len(rawPages))
           answer == [full |-> FALSE, body |-> p]
<1>1. PipeTypes /\ PipeTypes' /\ rawPages \in Seq(Nat) /\ Increasing(rawPages)
  BY DEF PipeInv, PipeTypes, Rest, InOrder
<1>2. EnqueuerInv /\ Known /\ BatchFits /\ DequeuersInv /\ QueueFits /\ Signalled
  BY DEF LossInv, EnqueuerInv, DequeuersInv
<1>3. Amount \in 0..Len(rawPages) /\ Amount <= ChunkSize
  BY <1>1, PipelineAssumption DEF Amount, PipelineAssumption
<1>4. /\ p \in Seq(Nat) /\ q \in Seq(Nat)
      /\ ToSet(p) \subseteq Queued /\ ToSet(q) \subseteq Queued
      /\ Queued \subseteq ToSet(p) \cup ToSet(q)
      /\ Len(p) <= ChunkSize /\ Len(q) <= Len(rawPages)
  <2>1. /\ p \in Seq(Nat) /\ q \in Seq(Nat)
        /\ ToSet(p) \subseteq ToSet(rawPages) /\ ToSet(q) \subseteq ToSet(rawPages)
    BY <1>1, <1>3, SplitOrder
  <2>2. /\ ToSet(rawPages) \subseteq ToSet(p) \cup ToSet(q)
        /\ Len(p) = Amount /\ Len(q) <= Len(rawPages)
    BY <1>1, <1>3, SplitSet
  <2>3. QED
    BY <1>3, <2>1, <2>2 DEF Queued
<1>5. answer \in Reply /\ answer.body = p /\ answer # Nothing
  <2>1. answer \in Reply /\ answer.body = p
    BY <1>4 DEF Reply
  <2>2. QED
    BY <2>1, NoConnection
<1>6. /\ serving # Nothing /\ ~serving.answered /\ serving.client = d
      /\ AnswerWith(answer) /\ rawPages' = q /\ UNCHANGED accepted
  BY DEF HandleDequeue, Asked
<1>7. UNCHANGED <<given, nextPage, signals, imported, failures, timeouts, phase, pages, backlog>>
  BY <1>6 DEF AnswerWith, batches, counts
<1> HIDE DEF p, q, answer
<1>8. /\ \A e \in Client \ {d} : reply'[e] = reply[e]
      /\ ~serving.live => reply' = reply
      /\ serving.live => reply'[d] = answer
  BY <1>1, <1>5, <1>6, Answered, AnsweredConns
<1>9. /\ Places' = Places
      /\ \A i \in Places :
           /\ At(i)' # Nothing => At(i) # Nothing /\ At(i)'.body = At(i).body
           /\ Forsaken(i)' => Forsaken(i) /\ i # 0
           /\ \A e \in Client : Awaited(i, e)' => Awaited(i, e) /\ i # 0
  BY <1>1, <1>5, <1>6, AnsweredConns
<1>10. Enqueuer \in Client \ {d} /\ \A e \in Dequeuer : e \in Client
  BY Clients
<1>11. EnqueuerInv'
  <2>1. \A i \in Places' : At(i)' # Nothing => ToSet(At(i)'.body) \subseteq given
    BY <1>2, <1>9 DEF Known
  <2>2. MaxFailures \in Nat
    BY PipelineAssumption DEF PipelineAssumption
  <2>3. failures' \in 0..MaxFailures /\ failures <= failures'
    BY <1>2, <1>7, <2>2 DEF BatchFits
  <2>4. QED
    BY <1>2, <1>6, <1>7, <1>8, <1>10, <2>1, <2>3, EnqueuerUntouched
<1>12. \A e \in Dequeuer \ {d} : ChunksOf(e)' /\ OneCallOf(e)' /\ Has(e)' = Has(e)
  BY <1>2, <1>6, <1>7, <1>8, <1>9, <1>10, DequeuerUntouched DEF DequeuersInv
<1>13. QueueFits' /\ Queued' = ToSet(q)
  <2>1. Len(rawPages) \in Nat /\ Len(q) \in Nat /\ QueueSize \in Nat
    BY <1>1, <1>4, PipelineAssumption DEF PipelineAssumption
  <2>2. Queued' = ToSet(q)
    BY <1>6 DEF Queued
  <2>3. Len(rawPages') <= QueueSize
    BY <1>2, <1>4, <1>6, <2>1 DEF QueueFits
  <2>4. QED
    BY <1>2, <1>4, <1>6, <2>2, <2>3 DEF QueueFits
<1>14. 0 \in Places /\ At(0) = serving
  BY <1>1 DEF PipeTypes, Places, At
<1>15. ChunksOf(d) /\ OneCallOf(d) /\ d \in Client
  BY <1>2, <1>10 DEF DequeuersInv
<1>16. IsFiniteSet(Owed) /\ Owed' \in SUBSET Owed /\ 0 \notin Owed'
  BY <1>1, <1>9, OwedFinite DEF Owed
<1>17. Signalled'
  BY <1>2, <1>7 DEF Signalled
<1>18. CASE serving.live
  <2>1. Awaited(0, d)
    BY <1>6, <1>14, <1>18 DEF Awaited, Open
  <2>2. phase[d] = "wait" /\ reply[d] = Nothing /\ \A j \in Places : Awaited(j, d) => 0 = j
    BY <1>14, <1>15, <2>1 DEF OneCallOf
  <2>3. pages[d] = <<>>
    BY <1>15, <2>2 DEF OneCallOf
  <2>4. OnItsWay(d)' = p /\ OnItsWay(d) = <<>>
    BY <1>5, <1>8, <1>18, <2>2 DEF OnItsWay
  <2>5. Out(d)' = Out(d) \cup ToSet(p)
    BY <1>7, <2>4, EmptyOrder DEF Out
  <2>6. ChunksOf(d)'
    <3>1. Out(d)' \subseteq accepted'
      BY <1>2, <1>4, <1>6, <1>15, <2>5 DEF ChunksOf, QueueFits
    <3>2. Len(pages'[d]) <= ChunkSize
      BY <1>7, <1>15 DEF ChunksOf
    <3>3. QED
      BY <1>4, <2>4, <3>1, <3>2 DEF ChunksOf
  <2>7. OneCallOf(d)'
    BY <1>7, <1>9, <1>15, <2>2, <2>3 DEF OneCallOf
  <2>8. Has(d)' = Has(d) \cup ToSet(p)
    BY <1>7, <2>2, <2>5 DEF Has
  <2>9. Gone' \subseteq Gone
    <3> SUFFICES ASSUME NEW x \in Gone' PROVE x \in Gone
      OBVIOUS
    <3>1. x \in accepted /\ x \notin ToSet(q) /\ \A e \in Dequeuer : x \notin Has(e)'
      BY <1>6, <1>13 DEF Gone
    <3>2. x \notin ToSet(p) /\ x \notin Has(d)
      BY <2>8, <3>1
    <3>3. \A e \in Dequeuer : x \notin Has(e)
      BY <1>12, <3>1, <3>2
    <3>4. QED
      BY <1>4, <3>1, <3>2, <3>3 DEF Gone
  <2>10. Cardinality(Owed') <= Cardinality(Owed)
    BY <1>16, FS_Subset
  <2>11. DequeuersInv'
    BY <1>1, <1>2, <1>6, <1>7, <1>12, <1>13, <2>6, <2>7, <2>9, <2>10, ServerServes, FS_EmptySet
  <2>12. QED
    BY <1>11, <1>17, <2>11 DEF LossInv
<1>19. CASE ~serving.live
  <2>1. 0 \in Owed
    BY <1>6, <1>14, <1>19 DEF Owed, Forsaken, Open
  <2>2. Owed' \in SUBSET (Owed \ {0})
    BY <1>16
  <2>3. IsFiniteSet(Owed \ {0}) /\ Cardinality(Owed \ {0}) = Cardinality(Owed) - 1
    BY <1>16, <2>1, FS_RemoveElement
  <2>4. Cardinality(Owed') <= Cardinality(Owed \ {0}) /\ IsFiniteSet(Owed')
    BY <2>2, <2>3, FS_Subset
  <2>5. Cardinality(Owed') + 1 <= Cardinality(Owed)
    <3>1. Cardinality(Owed') \in Nat /\ Cardinality(Owed) \in Nat
      BY <1>16, <2>4, FS_CardinalityType
    <3>2. QED
      BY <2>3, <2>4, <3>1
  <2>6. IsFiniteSet(ToSet(p)) /\ Cardinality(ToSet(p)) <= ChunkSize
    <3>1. IsFiniteSet(ToSet(p)) /\ Cardinality(ToSet(p)) <= Len(p)
      BY <1>4, SetOfSequence
    <3>2. Cardinality(ToSet(p)) \in Nat /\ Len(p) \in Nat /\ ChunkSize \in Nat
      BY <1>4, <3>1, FS_CardinalityType, PipelineAssumption DEF PipelineAssumption
    <3>3. QED
      BY <1>4, <3>1, <3>2
  <2>7. ChunksOf(d)' /\ OneCallOf(d)' /\ Has(d)' = Has(d)
    BY <1>6, <1>7, <1>8, <1>9, <1>15, <1>19, DequeuerUntouched
  <2>8. Gone' \subseteq Gone \cup ToSet(p)
    <3> SUFFICES ASSUME NEW x \in Gone', x \notin ToSet(p) PROVE x \in Gone
      OBVIOUS
    <3>1. x \in accepted /\ x \notin ToSet(q) /\ \A e \in Dequeuer : x \notin Has(e)'
      BY <1>6, <1>13 DEF Gone
    <3>2. \A e \in Dequeuer : x \notin Has(e)
      BY <1>12, <2>7, <3>1
    <3>3. QED
      BY <1>4, <3>1, <3>2 DEF Gone
  <2>9. DequeuersInv'
    BY <1>1, <1>2, <1>6, <1>7, <1>12, <1>13, <2>5, <2>6, <2>7, <2>8, ServerServes
  <2>10. QED
    BY <1>11, <1>17, <2>9 DEF LossInv
<1>20. QED
  BY <1>18, <1>19

LEMMA HandleEnqueueLoses ==
  ASSUME PipeInv, PipeInv', LossInv, HandleEnqueue
  PROVE  LossInv'
<1> DEFINE batch == IF Full(serving.body) THEN <<>> ELSE serving.body
           answer == [full |-> Full(serving.body), body |-> <<>>]
<1>1. PipeTypes /\ PipeTypes' /\ OneCall /\ rawPages \in Seq(Nat)
  BY DEF PipeInv, PipeTypes, Rest
<1>2. EnqueuerInv /\ Known /\ BatchFits /\ Delivered /\ DequeuersInv /\ QueueFits /\ Signalled
  BY DEF LossInv, EnqueuerInv, DequeuersInv
<1>3. /\ serving # Nothing /\ ~serving.answered /\ serving.client = Enqueuer
      /\ AnswerWith(answer) /\ rawPages' = rawPages \o batch
      /\ accepted' = accepted \cup ToSet(batch)
  BY DEF HandleEnqueue, Asked
<1>4. UNCHANGED <<given, nextPage, signals, imported, failures, timeouts, phase, pages, backlog>>
  BY <1>3 DEF AnswerWith, batches, counts
<1>5. 0 \in Places /\ At(0) = serving
  BY <1>1 DEF PipeTypes, Places, At
<1>6. serving.body \in Seq(Nat) /\ ToSet(serving.body) \subseteq given
  BY <1>1, <1>2, <1>3, <1>5 DEF PipeTypes, Connection, Known
<1>7. batch \in Seq(Nat) /\ ToSet(batch) \subseteq given
  BY <1>6, EmptyOrder
<1>8. Len(rawPages \o batch) <= QueueSize
  <2>1. Len(rawPages) \in Nat /\ Len(serving.body) \in Nat /\ QueueSize \in Nat
    BY <1>1, <1>6, PipelineAssumption DEF PipelineAssumption
  <2>2. Len(rawPages \o batch) = Len(rawPages) + Len(batch)
    BY <1>1, <1>7
  <2>3. QED
    BY <1>2, <2>1, <2>2 DEF Full, QueueFits
<1>9. answer \in Reply /\ answer.body = <<>> /\ answer # Nothing
  <2>1. answer \in Reply /\ answer.body = <<>>
    BY EmptyOrder DEF Reply, Full
  <2>2. QED
    BY <2>1, NoConnection
<1>10. ~answer.full => ToSet(batch) = ToSet(serving.body)
  OBVIOUS
<1> HIDE DEF batch, answer
<1>11. Enqueuer \in Client /\ \A d \in Dequeuer : d \in Client \ {Enqueuer}
  BY Clients
<1>12. /\ \A e \in Client \ {Enqueuer} : reply'[e] = reply[e]
       /\ ~serving.live => reply' = reply
       /\ serving.live => reply'[Enqueuer] = answer
  BY <1>1, <1>3, <1>9, Answered, AnsweredConns
<1>13. /\ Places' = Places
       /\ \A i \in Places :
            /\ At(i)' # Nothing => At(i) # Nothing /\ At(i)'.body = At(i).body
            /\ Forsaken(i)' => Forsaken(i) /\ i # 0
            /\ \A e \in Client : Awaited(i, e)' => Awaited(i, e) /\ i # 0
  BY <1>1, <1>3, <1>9, AnsweredConns
<1>14. Batch' = Batch /\ Known'
  BY <1>2, <1>3, <1>4, <1>7, <1>9, <1>12, <1>13 DEF Known, Batch
<1>15. BatchFits'
  BY <1>2, <1>4 DEF BatchFits
<1>16. Delivered'
  <2>1. CASE serving.live
    <3>1. Batch = ToSet(serving.body)
      BY <1>1, <1>3, <2>1 DEF OneCall, Calling, Batch
    <3>2. QED
      BY <1>3, <1>10, <1>12, <1>14, <2>1, <3>1 DEF Delivered
  <2>2. CASE ~serving.live
    BY <1>2, <1>3, <1>12, <1>14, <2>2 DEF Delivered
  <2>3. QED
    BY <2>1, <2>2
<1>17. SentCount'
  <2>1. NeverSent' \subseteq NeverSent
    BY <1>3, <1>4 DEF NeverSent
  <2>2. MaxFailures \in Nat
    BY PipelineAssumption DEF PipelineAssumption
  <2>3. failures' \in 0..MaxFailures /\ failures' = failures /\ failures \in Nat
    BY <1>2, <1>4, <2>2 DEF BatchFits
  <2>4. failures + Stopped(Enqueuer) <= failures' + Stopped(Enqueuer)'
    BY <1>4, <2>3 DEF Stopped
  <2>5. QED
    BY <1>2, <2>1, <2>3, <2>4, SentPaid, FS_EmptySet
<1>18. QueueFits' /\ Queued' = Queued \cup ToSet(batch)
  <2>1. Queued' = Queued \cup ToSet(batch)
    BY <1>1, <1>3, <1>7, ConcatOrder DEF Queued
  <2>2. QED
    BY <1>2, <1>3, <1>8, <2>1 DEF QueueFits
<1>19. \A d \in Dequeuer : ChunksOf(d)' /\ OneCallOf(d)' /\ Has(d)' = Has(d)
  <2> SUFFICES ASSUME NEW d \in Dequeuer PROVE ChunksOf(d)' /\ OneCallOf(d)' /\ Has(d)' = Has(d)
    OBVIOUS
  <2>1. ChunksOf(d) /\ OneCallOf(d) /\ reply'[d] = reply[d] /\ d \in Client
    BY <1>2, <1>11, <1>12 DEF DequeuersInv
  <2>2. Out(d)' = Out(d) /\ OnItsWay(d)' = OnItsWay(d)
    BY <1>4, <2>1 DEF Out, OnItsWay
  <2>3. ChunksOf(d)' /\ Has(d)' = Has(d)
    BY <1>3, <1>4, <2>1, <2>2 DEF ChunksOf, Has
  <2>4. OneCallOf(d)'
    BY <1>4, <1>13, <2>1 DEF OneCallOf
  <2>5. QED
    BY <2>3, <2>4
<1>20. DequeuersInv'
  <2>1. Gone' \subseteq Gone
    BY <1>3, <1>18, <1>19 DEF Gone
  <2>2. IsFiniteSet(Owed) /\ Owed' \in SUBSET Owed
    BY <1>1, <1>13, OwedFinite DEF Owed
  <2>3. Cardinality(Owed') <= Cardinality(Owed)
    BY <2>2, FS_Subset
  <2>4. QED
    BY <1>1, <1>2, <1>4, <1>18, <1>19, <2>1, <2>3, ServerServes, FS_EmptySet
<1>21. Signalled'
  BY <1>2, <1>4 DEF Signalled
<1>22. QED
  BY <1>14, <1>15, <1>16, <1>17, <1>20, <1>21 DEF LossInv, EnqueuerInv

-----------------------------------------------------------------------------
(* The bound, and what else TypeOK says of the pages.                      *)

LEMMA LossInit == Init => LossInv
<1> SUFFICES ASSUME Init
             PROVE  LossInv
  OBVIOUS
<1>1. /\ rawPages = <<>> /\ backlog = <<>> /\ serving = Nothing /\ nextPage = 1
      /\ reply = [c \in Client |-> Nothing]
      /\ phase = [c \in Client |-> IF c = Enqueuer THEN "run" ELSE "connect"]
      /\ pages = [c \in Client |-> <<>>]
      /\ signals = [c \in Client |-> 0]
      /\ accepted = {} /\ given = {}
      /\ imported = [d \in Dequeuer |-> <<>>] /\ failures = 0 /\ timeouts = 0
  BY DEF Init
<1>2. Enqueuer \in Client /\ \A d \in Dequeuer : d \in Client \ {Enqueuer}
  BY Clients
<1>3. Places = {0} /\ At(0) = Nothing
  BY <1>1 DEF Places, At
<1>4. /\ NumPages \in Nat /\ BatchSize \in Nat \ {0} /\ ChunkSize \in Nat \ {0} /\ QueueSize \in Nat
      /\ MaxFailures \in Nat /\ MaxTimeouts \in Nat
  BY PipelineAssumption DEF PipelineAssumption
<1>5. pages[Enqueuer] = <<>> /\ reply[Enqueuer] = Nothing /\ Len(<<>>) = 0 /\ Batch = {}
  BY <1>1, <1>2, EmptyOrder DEF Batch
<1>6. Known
  BY <1>1, <1>3, <1>5 DEF Known
<1>7. BatchFits /\ Delivered
  BY <1>1, <1>4, <1>5 DEF BatchFits, Delivered
<1>8. SentCount
  <2>1. NeverSent = {} /\ Stopped(Enqueuer) = 0
    BY <1>1, <1>2 DEF NeverSent, Stopped
  <2>2. QED
    BY <1>1, <1>4, <2>1, FS_EmptySet DEF SentCount
<1>9. \A d \in Dequeuer :
        /\ pages[d] = <<>> /\ reply[d] = Nothing /\ imported[d] = <<>> /\ OnItsWay(d) = <<>>
        /\ Out(d) = {}
  BY <1>1, <1>2, EmptyOrder DEF Out, OnItsWay
<1>10. QueueFits
  BY <1>1, <1>4, EmptyOrder DEF QueueFits, Queued
<1>11. \A d \in Dequeuer : ChunksOf(d) /\ OneCallOf(d)
  BY <1>1, <1>3, <1>4, <1>9 DEF ChunksOf, OneCallOf, Awaited, Open
<1>12. LostCount
  <2>1. Killed = {} /\ Owed = {} /\ Gone = {}
    BY <1>1, <1>2, <1>3 DEF Killed, Owed, Forsaken, Open, Gone
  <2>2. IsFiniteSet({}) /\ Cardinality({}) = 0
    BY FS_EmptySet
  <2>3. Spent = 0
    BY <1>1, <2>1, <2>2 DEF Spent
  <2>4. QED
    BY <1>1, <1>4, <2>1, <2>2, <2>3 DEF LostCount
<1>13. Signalled
  BY <1>1 DEF Signalled
<1>14. QED
  BY <1>6, <1>7, <1>8, <1>10, <1>11, <1>12, <1>13 DEF LossInv, EnqueuerInv, DequeuersInv

LEMMA LossUnchanged ==
  ASSUME LossInv, UNCHANGED vars
  PROVE  LossInv'
<1>1. UNCHANGED <<rawPages, backlog, serving, accepted, reply, phase, pages, nextPage, given,
                  signals, imported, failures, timeouts>>
  BY DEF vars, server, batches, counts
<1>2. Places' = Places /\ Batch' = Batch /\ Owed' = Owed /\ Killed' = Killed
      /\ NeverSent' = NeverSent /\ Stopped(Enqueuer)' = Stopped(Enqueuer) /\ Queued' = Queued
      /\ \A i \in Places : /\ At(i)' = At(i)
                           /\ \A e \in Client : Awaited(i, e)' = Awaited(i, e)
  BY <1>1 DEF Places, Batch, Owed, Forsaken, Killed, NeverSent, Stopped, Queued, At, Awaited, Open
<1>3. EnqueuerInv'
  BY <1>1, <1>2 DEF LossInv, EnqueuerInv, Known, BatchFits, Delivered, SentCount
<1>4. \A d \in Dequeuer : ChunksOf(d)' /\ OneCallOf(d)' /\ Has(d)' = Has(d)
  BY <1>1, <1>2, Clients, DequeuerUntouched DEF LossInv, DequeuersInv
<1>5. Gone' = Gone /\ Spent' = Spent
  BY <1>1, <1>2, <1>4 DEF Gone, Spent
<1>6. DequeuersInv'
  BY <1>1, <1>2, <1>4, <1>5 DEF LossInv, DequeuersInv, QueueFits, LostCount
<1>7. Signalled'
  BY <1>1 DEF LossInv, Signalled
<1>8. QED
  BY <1>3, <1>6, <1>7 DEF LossInv

LEMMA LossNext == PipeInv /\ LossInv /\ [Next]_vars => LossInv'
<1> SUFFICES ASSUME PipeInv, LossInv, [Next]_vars
             PROVE  LossInv'
  OBVIOUS
<1>0. PipeInv'
  BY PipeNext
<1>1. CASE ServerStep
  BY <1>0, <1>1, AcceptLoses, HandleDequeueLoses, HandleEnqueueLoses, HangupLoses DEF ServerStep
<1>2. CASE EnqueuerStep
  BY <1>0, <1>2, AppendPageLoses, LastBatchLoses, EnqueuerCallsLoses, EnqueuerReturnsLoses
  DEF EnqueuerStep
<1>3. CASE EnqueuerFails
  BY <1>0, <1>3, EnqueuerFailsLoses
<1>4. ASSUME NEW d \in Dequeuer, DequeuerStep(d) \/ DequeuerFails(d)
      PROVE  LossInv'
  BY <1>0, <1>4, DequeuerCallsLoses, DequeuerReceivesLoses, HandlePageLoses, DequeuerFailsLoses
  DEF DequeuerStep
<1>5. ASSUME NEW c \in Client, Sigint(c)
      PROVE  LossInv'
  BY <1>0, <1>5, SigintLoses
<1>6. CASE UNCHANGED vars
  BY <1>6, LossUnchanged
<1>7. QED
  BY <1>1, <1>2, <1>3, <1>4, <1>5, <1>6 DEF Next

LEMMA PagesOf ==
  ASSUME NEW s \in Seq(Nat), ToSet(s) \subseteq Page
  PROVE  s \in Seq(Page)
<1>1. DOMAIN s = 1..Len(s) /\ Len(s) \in Nat /\ \A i \in 1..Len(s) : s[i] \in Page
  BY DEF ToSet
<1>2. QED
  BY <1>1

LEMMA LossTypes == PipeInv /\ LossInv => TypeOK
<1> SUFFICES ASSUME PipeInv, LossInv
             PROVE  TypeOK
  OBVIOUS
<1>1. PipeTypes
  BY DEF PipeInv
<1>2. EnqueuerInv /\ Known /\ BatchFits /\ DequeuersInv /\ QueueFits /\ LostCount /\ Signalled
  BY DEF LossInv, EnqueuerInv, DequeuersInv
<1>3. Enqueuer \in Client /\ \A d \in Dequeuer : d \in Client \ {Enqueuer}
  BY Clients
<1>4. given \subseteq Page /\ accepted \subseteq Page
  BY <1>2 DEF Known
<1>5. rawPages \in Seq(Page) /\ Len(rawPages) <= QueueSize
  BY <1>1, <1>2, <1>4, PagesOf DEF PipeTypes, QueueFits, Queued
<1>6. ASSUME NEW i \in Places, At(i) # Nothing, At(i) \in Connection
      PROVE  At(i) \in Conn
  <2>1. At(i).body \in Seq(Page)
    BY <1>2, <1>4, <1>6, PagesOf DEF Known, Connection
  <2>2. QED
    BY <1>6, <2>1 DEF Connection, Conn
<1>7. serving \in Conn \cup {Nothing}
  <2>1. 0 \in Places /\ At(0) = serving
    BY <1>1 DEF PipeTypes, Places, At
  <2>2. QED
    BY <1>1, <1>6, <2>1 DEF PipeTypes
<1>8. backlog \in Seq(Conn)
  <2>1. backlog \in Seq(Connection) /\ Len(backlog) \in Nat /\ DOMAIN backlog = 1..Len(backlog)
    BY <1>1 DEF PipeTypes
  <2>2. ASSUME NEW i \in 1..Len(backlog)
        PROVE  backlog[i] \in Conn
    <3>1. i \in Places /\ At(i) = backlog[i]
      BY <2>1 DEF Places, At
    <3>2. backlog[i] \in Connection /\ backlog[i] # Nothing
      BY <2>1, NoConnection
    <3>3. QED
      BY <1>6, <3>1, <3>2
  <2>3. QED
    BY <2>1, <2>2
<1>9. ASSUME NEW d \in Dequeuer
      PROVE  /\ pages[d] \in Seq(Page) /\ imported[d] \in Seq(Page) /\ Len(pages[d]) <= ChunkSize
             /\ reply[d] \in Answer \cup {Nothing}
  <2>1. Out(d) \subseteq Page /\ Len(pages[d]) <= ChunkSize
    BY <1>2, <1>4 DEF DequeuersInv, ChunksOf
  <2>2. pages[d] \in Seq(Page) /\ imported[d] \in Seq(Page)
    BY <1>1, <1>3, <2>1, PagesOf DEF PipeTypes, Out
  <2>3. reply[d] # Nothing => reply[d] \in Reply /\ ToSet(reply[d].body) \subseteq Page
    BY <1>1, <1>3, <2>1 DEF PipeTypes, Out, OnItsWay
  <2>4. reply[d] # Nothing => reply[d].body \in Seq(Page)
    BY <2>3, PagesOf DEF Reply
  <2>5. QED
    BY <2>1, <2>2, <2>3, <2>4 DEF Reply, Answer
<1>10. /\ pages[Enqueuer] \in Seq(Page) /\ Len(pages[Enqueuer]) <= BatchSize
       /\ reply[Enqueuer] \in Answer \cup {Nothing}
  <2>1. pages[Enqueuer] \in Seq(Page)
    BY <1>1, <1>2, <1>3, <1>4, PagesOf DEF PipeTypes, Known, Batch
  <2>2. reply[Enqueuer] # Nothing => reply[Enqueuer] \in Reply /\ reply[Enqueuer].body = <<>>
    BY <1>1, <1>2, <1>3 DEF PipeTypes, Known
  <2>3. QED
    BY <1>2, <2>1, <2>2 DEF BatchFits, Reply, Answer
<1>11. \A c \in Client : c = Enqueuer \/ c \in Dequeuer
  BY DEF Client
<1>12. /\ reply \in [Client -> Answer \cup {Nothing}]
       /\ pages \in [Client -> Seq(Page)] /\ imported \in [Dequeuer -> Seq(Page)]
       /\ phase \in [Client -> Phase]
  BY <1>1, <1>9, <1>10, <1>11 DEF PipeTypes
<1>13. QED
  BY <1>2, <1>5, <1>7, <1>8, <1>9, <1>10, <1>12 DEF TypeOK, Known, BatchFits, LostCount, Signalled

LEMMA LossInvImplies == PipeInv /\ LossInv => BoundedLoss
<1> SUFFICES ASSUME PipeInv, LossInv
             PROVE  BoundedLoss
  OBVIOUS
<1>1. EnqueuerInv /\ Known /\ SentCount /\ DequeuersInv /\ LostCount
  BY DEF LossInv, EnqueuerInv, DequeuersInv
<1>2. \A d \in Dequeuer : ToSet(Kept(d)) = Has(d)
  BY GotIsOut DEF Kept, Has
<1>3. Lost = Gone
  BY <1>2 DEF Lost, Gone, Queued
<1>4. Cardinality(Lost) <= ChunkSize * (timeouts + Cardinality(Killed))
  <2>1. MaxTimeouts \in Nat /\ ChunkSize \in Nat
    BY PipelineAssumption DEF PipelineAssumption
  <2>2. timeouts \in Nat /\ Cardinality(Killed) \in Nat /\ Cardinality(Owed) \in Nat
    BY <1>1, <2>1, OwedFinite, FS_CardinalityType DEF LostCount, PipeInv
  <2>3. PICK m \in Nat : m = Spent
    BY <1>1 DEF LostCount
  <2>4. PICK n \in Nat : n = timeouts + Cardinality(Killed)
    BY <2>2
  <2>5. m <= n
    BY <2>2, <2>3, <2>4 DEF Spent
  <2>6. Cardinality(Gone) <= ChunkSize * m
    BY <1>1, <2>3 DEF LostCount
  <2>7. Cardinality(Gone) <= ChunkSize * n
    BY <1>1, <2>1, <2>5, <2>6, Paid, GoneFinite, FS_EmptySet
  <2>8. QED
    BY <1>3, <2>4, <2>7
<1>5. QED
  BY <1>1, <1>4, LossTypes DEF BoundedLoss, SentCount

(* For every dump, every number of dequeuers, all sizes and any number of  *)
(* faults: the server's queue keeps to its size, and what was lost on the  *)
(* way is at most a chunk for each call that timed out and each dequeuer   *)
(* that was killed, and a batch for each enqueue call that failed.         *)
THEOREM LossIsBounded == Spec => []BoundedLoss
<1>1. Spec => [](PipeInv /\ LossInv)
  BY PipeInit, PipeNext, LossInit, LossNext, PTL DEF Spec
<1>2. QED
  BY <1>1, LossInvImplies, PTL
=============================================================================
