----------------------- MODULE CanonicalizerM2_proofs -----------------------
(* Proofs about CanonicalizerM2, for any number of workers, of requests,   *)
(* of spurious wake-ups, any capacity, and whichever threads start.        *)
(*                                                                         *)
(* A request moves through main, __req_queue, a worker, __res_queue and    *)
(* the response thread.  If there is at most one worker, these places form *)
(* one line, and Line, read from its end, is the order of arrival.  With   *)
(* any number of workers the places are disjoint sets of requests, and the *)
(* server holds as many as its queues and threads have room for.           *)
EXTENDS CanonicalizerM2, SequenceTheorems, FiniteSetTheorems, TLAPS

-----------------------------------------------------------------------------
(* Moving one element from the front of a sequence to the end of the one   *)
(* before it leaves the two together the same.                             *)

Empty == <<>>
Single(x) == <<x>>
Added(s, x) == Append(s, x)
Taken(s, x, t) == s # <<>> /\ x = Head(s) /\ t = Tail(s)

LEMMA Short == Empty \in Seq(Request) /\ \A x \in Request : Single(x) \in Seq(Request)
BY DEF Empty, Single

LEMMA MoveOne ==
  ASSUME NEW s \in Seq(Request), NEW t \in Seq(Request), NEW x \in Request
  PROVE  Append(s, x) \o t = s \o (<<x>> \o t) /\ <<>> \o t = t
<1>1. <<x>> \in Seq(Request) /\ Append(s, x) = s \o <<x>>
  OBVIOUS
<1>2. (s \o <<x>>) \o t = s \o (<<x>> \o t)
  BY <1>1, ConcatAssociative
<1>3. <<>> \o t = t
  BY ConcatEmptySeq
<1>4. QED
  BY <1>1, <1>2, <1>3

LEMMA TakeOne ==
  ASSUME NEW s \in Seq(Request), NEW t \in Seq(Request), s # <<>>
  PROVE  s \o t = <<Head(s)>> \o (Tail(s) \o t)
<1>1. Head(s) \in Request /\ Tail(s) \in Seq(Request) /\ <<Head(s)>> \in Seq(Request)
  OBVIOUS
<1>2. s = <<Head(s)>> \o Tail(s)
  OBVIOUS
<1>3. (<<Head(s)>> \o Tail(s)) \o t = <<Head(s)>> \o (Tail(s) \o t)
  BY <1>1, ConcatAssociative
<1>4. QED
  BY <1>2, <1>3

LEMMA AppendUnder ==
  ASSUME NEW s \in Seq(Request), NEW u \in Seq(Request), NEW x \in Request,
         NEW t, t = Append(u, x)
  PROVE  s \o u \in Seq(Request) /\ s \o t = Append(s \o u, x)
<1>1. <<x>> \in Seq(Request) /\ Append(u, x) = u \o <<x>> /\ s \o u \in Seq(Request)
  OBVIOUS
<1>2. Append(s \o u, x) = (s \o u) \o <<x>>
  BY <1>1
<1>3. QED
  BY <1>1, <1>2, ConcatAssociative

(* The six places in a line.                                               *)
Joined(a, b, c, d, e, f) == a \o (b \o (c \o (d \o (e \o f))))

LEMMA JoinedArrive ==
  ASSUME NEW a \in Seq(Request), NEW b \in Seq(Request), NEW c \in Seq(Request),
         NEW d \in Seq(Request), NEW e \in Seq(Request), NEW x \in Request
  PROVE  Joined(a, b, c, d, e, Single(x)) = Added(Joined(a, b, c, d, e, Empty), x)
<1>0. <<>> \in Seq(Request) /\ <<x>> = Append(<<>>, x)
  OBVIOUS
<1>1. PICK f0, f1 : f0 \in Seq(Request) /\ f0 = <<>> /\ f1 = <<x>> /\ f1 = Append(f0, x)
  BY <1>0, Zenon
<1>2. PICK e0, e1 : e0 \in Seq(Request) /\ e0 = e \o f0 /\ e1 = e \o f1 /\ e1 = Append(e0, x)
  <2>1. f0 \in Seq(Request) /\ f1 = Append(f0, x)
    BY <1>1, Zenon
  <2>2. e \o f0 \in Seq(Request) /\ e \o f1 = Append(e \o f0, x)
    BY <2>1, AppendUnder
  <2>3. QED
    BY <2>2, Zenon
<1>3. PICK d0, d1 : d0 \in Seq(Request) /\ d0 = d \o e0 /\ d1 = d \o e1 /\ d1 = Append(d0, x)
  <2>1. e0 \in Seq(Request) /\ e1 = Append(e0, x)
    BY <1>2, Zenon
  <2>2. d \o e0 \in Seq(Request) /\ d \o e1 = Append(d \o e0, x)
    BY <2>1, AppendUnder
  <2>3. QED
    BY <2>2, Zenon
<1>4. PICK c0, c1 : c0 \in Seq(Request) /\ c0 = c \o d0 /\ c1 = c \o d1 /\ c1 = Append(c0, x)
  <2>1. d0 \in Seq(Request) /\ d1 = Append(d0, x)
    BY <1>3, Zenon
  <2>2. c \o d0 \in Seq(Request) /\ c \o d1 = Append(c \o d0, x)
    BY <2>1, AppendUnder
  <2>3. QED
    BY <2>2, Zenon
<1>5. PICK b0, b1 : b0 \in Seq(Request) /\ b0 = b \o c0 /\ b1 = b \o c1 /\ b1 = Append(b0, x)
  <2>1. c0 \in Seq(Request) /\ c1 = Append(c0, x)
    BY <1>4, Zenon
  <2>2. b \o c0 \in Seq(Request) /\ b \o c1 = Append(b \o c0, x)
    BY <2>1, AppendUnder
  <2>3. QED
    BY <2>2, Zenon
<1>6. PICK a0, a1 : a0 \in Seq(Request) /\ a0 = a \o b0 /\ a1 = a \o b1 /\ a1 = Append(a0, x)
  <2>1. b0 \in Seq(Request) /\ b1 = Append(b0, x)
    BY <1>5, Zenon
  <2>2. a \o b0 \in Seq(Request) /\ a \o b1 = Append(a \o b0, x)
    BY <2>1, AppendUnder
  <2>3. QED
    BY <2>2, Zenon
<1>7. Joined(a, b, c, d, e, Single(x)) = a1
  BY <1>1, <1>2, <1>3, <1>4, <1>5, <1>6, Zenon DEF Joined, Empty, Single
<1>8. Joined(a, b, c, d, e, Empty) = a0
  BY <1>1, <1>2, <1>3, <1>4, <1>5, <1>6, Zenon DEF Joined, Empty, Single
<1>9. QED
  BY <1>6, <1>7, <1>8, Zenon DEF Added

LEMMA JoinedToReq ==
  ASSUME NEW a \in Seq(Request), NEW b \in Seq(Request), NEW c \in Seq(Request),
         NEW d \in Seq(Request), NEW e \in Seq(Request), NEW x \in Request
  PROVE  Joined(a, b, c, d, Append(e, x), Empty) = Joined(a, b, c, d, e, Single(x))
<1>1. Append(e, x) \o <<>> = e \o (<<x>> \o <<>>)
  BY Short, MoveOne DEF Empty, Single
<1>2. <<x>> \o <<>> = <<x>>
  BY Short, ConcatEmptySeq DEF Empty, Single
<1>3. Append(e, x) \o <<>> = e \o <<x>>
  BY <1>1, <1>2, Zenon
<1>4. QED
  BY <1>3, Zenon DEF Joined, Empty, Single

LEMMA JoinedFromReq ==
  ASSUME NEW a \in Seq(Request), NEW b \in Seq(Request), NEW c \in Seq(Request),
         NEW e \in Seq(Request), NEW f \in Seq(Request),
         NEW x, NEW s, Taken(e, x, s)
  PROVE  Joined(a, b, c, Single(x), s, f) = Joined(a, b, c, Empty, e, f)
<1>1. PICK t \in Seq(Request) : t = e \o f
  BY ConcatProperties
<1>2. <<>> \o t = t
  BY ConcatEmptySeq
<1>3. e \o f = <<x>> \o (s \o f)
  BY TakeOne DEF Taken
<1>4. QED
  BY <1>1, <1>2, <1>3, Zenon DEF Joined, Empty, Single

LEMMA JoinedToRes ==
  ASSUME NEW a \in Seq(Request), NEW b \in Seq(Request), NEW c \in Seq(Request),
         NEW e \in Seq(Request), NEW f \in Seq(Request), NEW x \in Request
  PROVE  Joined(a, b, Append(c, x), Empty, e, f) = Joined(a, b, c, Single(x), e, f)
<1>1. PICK t \in Seq(Request) : t = e \o f
  BY ConcatProperties
<1>2. <<>> \o t = t /\ Append(c, x) \o t = c \o (<<x>> \o t)
  BY MoveOne
<1>3. QED
  BY <1>1, <1>2, Zenon DEF Joined, Empty, Single

LEMMA JoinedFromRes ==
  ASSUME NEW a \in Seq(Request), NEW c \in Seq(Request), NEW d \in Seq(Request),
         NEW e \in Seq(Request), NEW f \in Seq(Request),
         NEW x, NEW s, Taken(c, x, s)
  PROVE  Joined(a, Single(x), s, d, e, f) = Joined(a, Empty, c, d, e, f)
<1>1. PICK t \in Seq(Request) : t = e \o f
  BY ConcatProperties
<1>2. PICK u \in Seq(Request) : u = d \o t
  BY ConcatProperties
<1>3. PICK v \in Seq(Request) : v = c \o u
  BY ConcatProperties
<1>4. <<>> \o v = v
  BY ConcatEmptySeq
<1>5. c \o u = <<x>> \o (s \o u)
  BY TakeOne DEF Taken
<1>6. Joined(a, Single(x), s, d, e, f) = a \o (<<x>> \o (s \o u))
  BY <1>1, <1>2, Zenon DEF Joined, Single
<1>7. Joined(a, Empty, c, d, e, f) = a \o (<<>> \o v)
  BY <1>1, <1>2, <1>3, Zenon DEF Joined, Empty
<1>8. QED
  BY <1>3, <1>4, <1>5, <1>6, <1>7, Zenon

LEMMA JoinedReplied ==
  ASSUME NEW a \in Seq(Request), NEW c \in Seq(Request), NEW d \in Seq(Request),
         NEW e \in Seq(Request), NEW f \in Seq(Request), NEW x \in Request
  PROVE  Joined(Append(a, x), Empty, c, d, e, f) = Joined(a, Single(x), c, d, e, f)
<1>1. PICK t \in Seq(Request) : t = e \o f
  BY ConcatProperties
<1>2. PICK u \in Seq(Request) : u = d \o t
  BY ConcatProperties
<1>3. PICK v \in Seq(Request) : v = c \o u
  BY ConcatProperties
<1>4. <<>> \o v = v /\ Append(a, x) \o v = a \o (<<x>> \o v)
  <2>1. <<>> \o v = v
    BY ConcatEmptySeq
  <2>2. Append(a, x) \o v = a \o (<<x>> \o v)
    BY MoveOne, ZenonT(60)
  <2>3. QED
    BY <2>1, <2>2
<1>5. Joined(Append(a, x), Empty, c, d, e, f) = Append(a, x) \o (<<>> \o v)
  BY <1>1, <1>2, <1>3, Zenon DEF Joined, Empty
<1>6. Joined(a, Single(x), c, d, e, f) = a \o (<<x>> \o v)
  BY <1>1, <1>2, <1>3, Zenon DEF Joined, Single
<1>7. Append(a, x) \o (<<>> \o v) = a \o (<<x>> \o v)
  BY <1>4, Zenon
<1>8. QED
  BY <1>5, <1>6, <1>7, Zenon

-----------------------------------------------------------------------------
(* The inductive invariant.                                                *)

ReqThread == Worker \cup {Main}
M2Types ==
  /\ reqData \in Seq(Request) /\ resData \in Seq(Request)
  /\ reqPC \in [ReqThread -> Req!PC] /\ resPC \in [Helper -> Res!PC]
  /\ hand \in [Thread -> Request \cup {None}]
  /\ helper \in [Helper -> {"unborn", "running", "failed"}]
  /\ accepted \in Seq(Request) /\ replied \in Seq(Request)

(* A thread in enqueue has a request to put there, a thread in dequeue has *)
(* room for one, until the queue has changed; who does not run has none.   *)
Enqueuing == {"enq_lock", "enq_crit", "enq_wait"}
Dequeuing == {"deq_lock", "deq_crit", "deq_wait"}
HandsFit ==
  /\ reqPC[Main] \in Enqueuing => hand[Main] # None
  /\ \A w \in Worker :
       /\ reqPC[w] \in Dequeuing => hand[w] = None
       /\ resPC[w] \in Enqueuing => hand[w] # None
       /\ helper[w] # "running" => hand[w] = None
  /\ resPC[Responder] \in Dequeuing => hand[Responder] = None

(* Nothing arrives before all threads were created or have failed.         *)
NothingYet ==
  /\ accepted = <<>> /\ reqData = <<>> /\ resData = <<>> /\ replied = <<>>
  /\ \A t \in Thread : hand[t] = None
StartFirst == (\E t \in Helper : helper[t] = "unborn") => NothingYet

(* The places between the socket and the reply, if only one worker runs.   *)
One(t) == IF hand[t] = None THEN Empty ELSE Single(hand[t])
OnlyOne == \A v, w \in Running : v = w
AtWork == IF Running = {} THEN Empty ELSE One(CHOOSE w \in Running : TRUE)
Line == Joined(replied, One(Responder), resData, AtWork, reqData, One(Main))
InLine == OnlyOne => accepted = Line

M2Inv == M2Types /\ HandsFit /\ StartFirst /\ InLine

LEMMA Threads ==
  /\ Main \in Thread /\ Responder \in Thread /\ Main # Responder
  /\ Main \notin Helper /\ Main \in ReqThread /\ Main \notin Worker
  /\ Responder \in Helper /\ Responder \notin Worker /\ Responder \notin ReqThread
  /\ Worker \subseteq Thread /\ Worker \subseteq Helper /\ Worker \subseteq ReqThread
  /\ Helper \subseteq Thread /\ ReqThread \subseteq Thread
BY M2Assumption DEF M2Assumption, Thread, Helper, ReqThread

LEMMA NoneIsNoRequest == None \notin Request
BY M2Assumption DEF M2Assumption, Request

(* What the two instances of ThreadSafeQueue do besides Push, Pop and the  *)
(* two calls: a thread that is enqueuing or dequeuing was so before.       *)
ReqQuiet ==
  /\ reqData' = reqData /\ reqPC' \in [ReqThread -> Req!PC]
  /\ \A t \in ReqThread : /\ reqPC'[t] \in Enqueuing => reqPC[t] \in Enqueuing
                          /\ reqPC'[t] \in Dequeuing => reqPC[t] \in Dequeuing
ResQuiet ==
  /\ resData' = resData /\ resPC' \in [Helper -> Res!PC]
  /\ \A t \in Helper : /\ resPC'[t] \in Enqueuing => resPC[t] \in Enqueuing
                       /\ resPC'[t] \in Dequeuing => resPC[t] \in Dequeuing

LEMMA ReqQuietSteps ==
  ASSUME M2Types, NEW t \in ReqThread,
         \/ Req!Lock(t) \/ Req!WaitFull(t) \/ Req!WaitEmpty(t)
         \/ Req!NotifyEmpty(t) \/ Req!NotifyFull(t) \/ Req!SpuriousWakeup(t)
  PROVE  ReqQuiet
<1> USE DEF M2Types, ReqQuiet, Enqueuing, Dequeuing, Req!Move, Req!PC, Req!EnqueuePC, Req!DequeuePC
<1>1. CASE Req!Lock(t)
  BY <1>1 DEF Req!Lock
<1>2. CASE Req!WaitFull(t) \/ Req!WaitEmpty(t)
  BY <1>2 DEF Req!WaitFull, Req!WaitEmpty
<1>3. CASE Req!NotifyEmpty(t) \/ Req!NotifyFull(t)
  BY <1>3 DEF Req!NotifyEmpty, Req!NotifyFull, Req!Broadcast, ReqThread
<1>4. CASE Req!SpuriousWakeup(t)
  BY <1>4 DEF Req!SpuriousWakeup
<1>5. QED
  BY <1>1, <1>2, <1>3, <1>4

LEMMA ResQuietSteps ==
  ASSUME M2Types, NEW t \in Helper,
         \/ Res!Lock(t) \/ Res!WaitFull(t) \/ Res!WaitEmpty(t)
         \/ Res!NotifyEmpty(t) \/ Res!NotifyFull(t) \/ Res!SpuriousWakeup(t)
  PROVE  ResQuiet
<1> USE DEF M2Types, ResQuiet, Enqueuing, Dequeuing, Res!Move, Res!PC, Res!EnqueuePC, Res!DequeuePC
<1>1. CASE Res!Lock(t)
  BY <1>1 DEF Res!Lock
<1>2. CASE Res!WaitFull(t) \/ Res!WaitEmpty(t)
  BY <1>2 DEF Res!WaitFull, Res!WaitEmpty
<1>3. CASE Res!NotifyEmpty(t) \/ Res!NotifyFull(t)
  BY <1>3 DEF Res!NotifyEmpty, Res!NotifyFull, Res!Broadcast
<1>4. CASE Res!SpuriousWakeup(t)
  BY <1>4 DEF Res!SpuriousWakeup
<1>5. QED
  BY <1>1, <1>2, <1>3, <1>4

LEMMA StillReq == ASSUME M2Types, UNCHANGED reqQueue PROVE ReqQuiet
BY DEF M2Types, ReqQuiet, reqQueue
LEMMA StillRes == ASSUME M2Types, UNCHANGED resQueue PROVE ResQuiet
BY DEF M2Types, ResQuiet, resQueue

(* Steps that move no request.                                             *)
LEMMA LineStays ==
  ASSUME InLine, UNCHANGED <<reqData, resData, hand, helper, accepted, replied>>
  PROVE  InLine'
<1>1. Running' = Running /\ \A t : One(t)' = One(t)
  BY DEF Running, One
<1>2. AtWork' = AtWork
  BY <1>1 DEF AtWork
<1>3. QED
  BY <1>1, <1>2 DEF InLine, Line, OnlyOne

LEMMA QuietKeeps ==
  ASSUME M2Inv, ReqQuiet, ResQuiet, UNCHANGED <<hand, helper, accepted, replied>>
  PROVE  M2Inv'
<1>1. M2Types'
  BY DEF M2Inv, M2Types, ReqQuiet, ResQuiet
<1>2. HandsFit'
  BY Threads DEF M2Inv, HandsFit, ReqQuiet, ResQuiet
<1>3. StartFirst'
  BY DEF M2Inv, StartFirst, NothingYet, ReqQuiet, ResQuiet
<1>4. InLine'
  BY LineStays DEF M2Inv, ReqQuiet, ResQuiet
<1>5. QED
  BY <1>1, <1>2, <1>3, <1>4 DEF M2Inv

-----------------------------------------------------------------------------
(* The steps that move a request, or start a call.                         *)

LEMMA StillTypes ==
  ASSUME M2Types, ReqQuiet, ResQuiet
  PROVE  /\ reqPC' \in [ReqThread -> Req!PC] /\ resPC' \in [Helper -> Res!PC]
         /\ reqData' \in Seq(Request) /\ resData' \in Seq(Request)
BY DEF M2Types, ReqQuiet, ResQuiet

LEMMA SpawnKeeps ==
  ASSUME M2Inv, NEW t \in Helper, Spawn(t)
  PROVE  M2Inv'
<1>1. PICK outcome \in {"running", "failed"} :
        helper[t] = "unborn" /\ helper' = [helper EXCEPT ![t] = outcome]
  BY DEF Spawn
<1>2. UNCHANGED <<reqData, reqPC, resData, resPC, hand, accepted, replied>>
  BY DEF Spawn, reqQueue, resQueue, history
<1>3. M2Types'
  BY <1>1, <1>2 DEF M2Inv, M2Types
<1>4. NothingYet /\ NothingYet'
  BY <1>1, <1>2 DEF M2Inv, StartFirst, NothingYet
<1>5. StartFirst'
  BY <1>4 DEF StartFirst
<1>6. HandsFit'
  BY <1>2, <1>4, Threads DEF M2Inv, HandsFit, NothingYet
<1>7. InLine'
  <2>1. \A u \in Thread : One(u)' = Empty
    BY <1>4 DEF NothingYet, One
  <2>2. AtWork' = Empty
    <3>1. Running' \subseteq Thread
      BY Threads DEF Running
    <3>2. CASE Running' = {}
      BY <3>2 DEF AtWork
    <3>3. CASE Running' # {}
      <4>1. (CHOOSE w \in Running' : TRUE) \in Thread
        BY <3>1, <3>3
      <4>2. QED
        BY <4>1, <2>1, <3>3 DEF AtWork
    <3>4. QED
      BY <3>2, <3>3
  <2>3. Line' = Joined(Empty, Empty, Empty, Empty, Empty, Empty)
    BY <2>1, <2>2, <1>4, Threads DEF Line, NothingYet, Empty
  <2>4. Joined(Empty, Empty, Empty, Empty, Empty, Empty) = <<>>
    BY DEF Joined, Empty
  <2>5. QED
    BY <2>3, <2>4, <1>4 DEF InLine, NothingYet
<1>8. QED
  BY <1>3, <1>5, <1>6, <1>7 DEF M2Inv

(* Calls start with the right hand.                                        *)
LEMMA MainCalls ==
  ASSUME M2Inv, hand[Main] # None, Req!CallEnqueue(Main),
         UNCHANGED <<resQueue, hand, helper, accepted, replied>>
  PROVE  M2Inv'
<1>1. M2Types /\ ResQuiet
  BY StillRes DEF M2Inv
<1>2. reqPC' = [reqPC EXCEPT ![Main] = "enq_lock"] /\ reqData' = reqData
  BY DEF Req!CallEnqueue, Req!Move
<1>3. reqPC' \in [ReqThread -> Req!PC] /\ \A t \in Worker : reqPC'[t] = reqPC[t]
  BY <1>1, <1>2, Threads DEF M2Types, Req!PC, Req!EnqueuePC
<1>4. M2Types'
  BY <1>1, <1>2, <1>3 DEF M2Types, ResQuiet
<1>5. HandsFit'
  BY <1>1, <1>3, Threads DEF M2Inv, HandsFit, ResQuiet
<1>6. StartFirst' /\ InLine'
  BY <1>1, <1>2, LineStays DEF M2Inv, StartFirst, NothingYet, ResQuiet
<1>7. QED
  BY <1>4, <1>5, <1>6 DEF M2Inv

LEMMA WorkerCalls ==
  ASSUME M2Inv, NEW w \in Worker, UNCHANGED <<hand, helper, accepted, replied>>,
         \/ hand[w] = None /\ Req!CallDequeue(w) /\ UNCHANGED resQueue
         \/ hand[w] # None /\ Res!CallEnqueue(w) /\ UNCHANGED reqQueue
  PROVE  M2Inv'
<1>1. M2Types
  BY DEF M2Inv
<1>2. CASE hand[w] = None /\ Req!CallDequeue(w) /\ UNCHANGED resQueue
  <2>1. ResQuiet
    BY <1>1, <1>2, StillRes
  <2>2. reqPC' = [reqPC EXCEPT ![w] = "deq_lock"] /\ reqData' = reqData
    BY <1>2 DEF Req!CallDequeue, Req!Move
  <2>3. reqPC' \in [ReqThread -> Req!PC] /\ \A t \in ReqThread \ {w} : reqPC'[t] = reqPC[t]
    BY <1>1, <2>2, Threads DEF M2Types, Req!PC, Req!DequeuePC
  <2>4. M2Types'
    BY <1>1, <2>1, <2>2, <2>3 DEF M2Types, ResQuiet
  <2>5. HandsFit'
    BY <1>1, <1>2, <2>1, <2>3, Threads DEF M2Inv, HandsFit, ResQuiet
  <2>6. StartFirst' /\ InLine'
    BY <2>1, <2>2, LineStays DEF M2Inv, StartFirst, NothingYet, ResQuiet
  <2>7. QED
    BY <2>4, <2>5, <2>6 DEF M2Inv
<1>3. CASE hand[w] # None /\ Res!CallEnqueue(w) /\ UNCHANGED reqQueue
  <2>1. ReqQuiet
    BY <1>1, <1>3, StillReq
  <2>2. resPC' = [resPC EXCEPT ![w] = "enq_lock"] /\ resData' = resData
    BY <1>3 DEF Res!CallEnqueue, Res!Move
  <2>3. resPC' \in [Helper -> Res!PC] /\ \A t \in Helper \ {w} : resPC'[t] = resPC[t]
    BY <1>1, <2>2, Threads DEF M2Types, Res!PC, Res!EnqueuePC
  <2>4. M2Types'
    BY <1>1, <2>1, <2>2, <2>3 DEF M2Types, ReqQuiet
  <2>5. HandsFit'
    BY <1>1, <1>3, <2>1, <2>3, Threads DEF M2Inv, HandsFit, ReqQuiet
  <2>6. StartFirst' /\ InLine'
    BY <2>1, <2>2, LineStays DEF M2Inv, StartFirst, NothingYet, ReqQuiet
  <2>7. QED
    BY <2>4, <2>5, <2>6 DEF M2Inv
<1>4. QED
  BY <1>2, <1>3

LEMMA ResponderCalls ==
  ASSUME M2Inv, hand[Responder] = None, Res!CallDequeue(Responder),
         UNCHANGED <<reqQueue, hand, helper, accepted, replied>>
  PROVE  M2Inv'
<1>1. M2Types /\ ReqQuiet
  BY StillReq DEF M2Inv
<1>2. resPC' = [resPC EXCEPT ![Responder] = "deq_lock"] /\ resData' = resData
  BY DEF Res!CallDequeue, Res!Move
<1>3. resPC' \in [Helper -> Res!PC] /\ \A t \in Helper \ {Responder} : resPC'[t] = resPC[t]
  BY <1>1, <1>2, Threads DEF M2Types, Res!PC, Res!DequeuePC
<1>4. M2Types'
  BY <1>1, <1>2, <1>3 DEF M2Types, ReqQuiet
<1>5. HandsFit'
  BY <1>1, <1>3, Threads DEF M2Inv, HandsFit, ReqQuiet
<1>6. StartFirst' /\ InLine'
  BY <1>1, <1>2, LineStays DEF M2Inv, StartFirst, NothingYet, ReqQuiet
<1>7. QED
  BY <1>4, <1>5, <1>6 DEF M2Inv

(* One request moves on, from the sequence or hand it is in to the next.   *)
LEMMA HandTypes ==
  ASSUME M2Types
  PROVE  /\ \A t \in Thread : One(t) \in Seq(Request) /\ (hand[t] # None => hand[t] \in Request)
         /\ AtWork \in Seq(Request)
<1>1. \A t \in Thread : One(t) \in Seq(Request) /\ (hand[t] # None => hand[t] \in Request)
  <2> SUFFICES ASSUME NEW t \in Thread
               PROVE  One(t) \in Seq(Request) /\ (hand[t] # None => hand[t] \in Request)
    OBVIOUS
  <2>1. hand[t] \in Request \cup {None}
    BY DEF M2Types
  <2>2. CASE hand[t] = None
    BY <2>2, Short DEF One
  <2>3. CASE hand[t] # None
    <3>1. hand[t] \in Request /\ One(t) = Single(hand[t])
      BY <2>1, <2>3 DEF One
    <3>2. QED
      BY <3>1, Short
  <2>4. QED
    BY <2>2, <2>3
<1>2. CASE Running = {}
  <2>1. AtWork = Empty
    BY <1>2, Zenon DEF AtWork
  <2>2. QED
    BY <1>1, <2>1, Short
<1>3. CASE Running # {}
  <2>1. (CHOOSE w \in Running : TRUE) \in Thread
    BY <1>3, Threads DEF Running
  <2>2. QED
    BY <1>1, <1>3, <2>1 DEF AtWork
<1>4. QED
  BY <1>1, <1>2, <1>3

LEMMA TheOneAtWork ==
  ASSUME OnlyOne, NEW w \in Running
  PROVE  AtWork = One(w)
BY DEF OnlyOne, AtWork

LEMMA RecvKeeps ==
  ASSUME M2Inv, Recv
  PROVE  M2Inv'
<1>1. M2Types /\ ReqQuiet /\ ResQuiet /\ HandsFit
  BY StillReq, StillRes DEF M2Inv, Recv
<1>2. PICK x \in Request : x = Len(accepted) + 1
  <2>1. Len(accepted) \in Nat /\ Len(accepted) < NumRequests
    BY <1>1 DEF M2Types, Recv
  <2>2. QED
    BY <2>1, M2Assumption DEF M2Assumption, Request
<1>3. /\ \A t \in Helper : helper[t] # "unborn"
      /\ hand[Main] = None /\ reqPC[Main] = "out"
      /\ Len(accepted) < NumRequests
      /\ accepted' = Append(accepted, x) /\ hand' = [hand EXCEPT ![Main] = x]
      /\ UNCHANGED <<reqData, resData, reqPC, resPC, helper, replied>>
  BY <1>2 DEF Recv, reqQueue, resQueue
<1>4. /\ hand' \in [Thread -> Request \cup {None}] /\ hand'[Main] = x
      /\ \A t \in Helper : hand'[t] = hand[t]
      /\ x # None
  BY <1>1, <1>3, <1>2, Threads, NoneIsNoRequest DEF M2Types
<1>5. M2Types'
  BY <1>1, <1>3, <1>2, <1>4 DEF M2Types
<1>6. HandsFit'
  BY <1>1, <1>3, <1>4, Threads DEF HandsFit
<1>7. StartFirst'
  BY <1>3 DEF StartFirst
<1>8. InLine'
  <2>1. /\ \A t \in Helper : One(t)' = One(t)
        /\ One(Main) = Empty /\ One(Main)' = Single(x) /\ Running' = Running
    BY <1>3, <1>4 DEF One, Running
  <2>2. AtWork' = AtWork
    <3>1. CASE Running = {}
      BY <3>1, <2>1 DEF AtWork
    <3>2. CASE Running # {}
      <4>1. (CHOOSE w \in Running : TRUE) \in Helper
        BY <3>2, Threads DEF Running
      <4>2. QED
        BY <4>1, <2>1 DEF AtWork
    <3>3. QED
      BY <3>1, <3>2
  <2>3. /\ Line = Joined(replied, One(Responder), resData, AtWork, reqData, Empty)
        /\ Line' = Joined(replied, One(Responder), resData, AtWork, reqData, Single(x))
    BY <2>1, <2>2, <1>3, Threads DEF Line
  <2>4. Line' = Added(Line, x)
    <3>1. /\ replied \in Seq(Request) /\ One(Responder) \in Seq(Request) /\ resData \in Seq(Request)
          /\ AtWork \in Seq(Request) /\ reqData \in Seq(Request) /\ One(Main) \in Seq(Request)
      BY <1>1, HandTypes, Threads DEF M2Types
    <3>2. PICK a, b, c, d, e \in Seq(Request) :
            a = replied /\ b = One(Responder) /\ c = resData /\ d = AtWork /\ e = reqData
      BY <3>1, Zenon
    <3>3. Joined(a, b, c, d, e, Single(x)) = Added(Joined(a, b, c, d, e, Empty), x)
      BY JoinedArrive
    <3>4. QED
      BY <2>3, <3>2, <3>3, Zenon
  <2>5. QED
    BY <2>1, <2>4, <1>3 DEF M2Inv, InLine, OnlyOne, Added
<1>9. QED
  BY <1>5, <1>6, <1>7, <1>8 DEF M2Inv

LEMMA WorkStays ==
  ASSUME helper' = helper, \A w \in Worker : hand'[w] = hand[w]
  PROVE  AtWork' = AtWork
<1>1. Running' = Running /\ \A w \in Worker : One(w)' = One(w)
  BY DEF Running, One
<1>2. CASE Running = {}
  BY <1>1, <1>2 DEF AtWork
<1>3. CASE Running # {}
  <2>1. (CHOOSE w \in Running : TRUE) \in Worker
    BY <1>3 DEF Running
  <2>2. QED
    BY <1>1, <2>1 DEF AtWork
<1>4. QED
  BY <1>2, <1>3

(* What a Push or a Pop does to the types, whichever hand it changes.      *)
LEMMA MoveTypes ==
  ASSUME M2Types, NEW t \in Thread, NEW h \in Request \cup {None},
         hand' = [hand EXCEPT ![t] = h], UNCHANGED <<helper, accepted>>,
         reqData' \in Seq(Request), resData' \in Seq(Request), replied' \in Seq(Request),
         reqPC' \in [ReqThread -> Req!PC], resPC' \in [Helper -> Res!PC]
  PROVE  /\ M2Types'
         /\ hand'[t] = h /\ \A u \in Thread \ {t} : hand'[u] = hand[u]
BY DEF M2Types

LEMMA MainPushKeeps ==
  ASSUME M2Inv, Req!Push(Main, hand[Main]), hand' = [hand EXCEPT ![Main] = None],
         UNCHANGED <<resQueue, helper, accepted, replied>>
  PROVE  M2Inv'
<1>1. M2Types /\ ResQuiet /\ HandsFit
  BY StillRes DEF M2Inv
<1>2. /\ reqPC[Main] = "enq_crit" /\ reqPC' = [reqPC EXCEPT ![Main] = "enq_notify"]
      /\ reqData' = Append(reqData, hand[Main]) /\ resData' = resData /\ resPC' = resPC
  BY DEF Req!Push, Req!Move, resQueue
<1>3. PICK x \in Request : x = hand[Main] /\ x # None
  BY <1>1, <1>2, Threads DEF M2Types, HandsFit, Enqueuing
<1>4. reqPC' \in [ReqThread -> Req!PC] /\ \A t \in Worker : reqPC'[t] = reqPC[t]
  BY <1>1, <1>2, Threads DEF M2Types, Req!PC, Req!EnqueuePC
<1>5. M2Types' /\ hand'[Main] = None /\ \A u \in Helper : hand'[u] = hand[u]
  <2>1. reqData' \in Seq(Request)
    BY <1>1, <1>2, <1>3 DEF M2Types
  <2>2. resData' \in Seq(Request) /\ replied' \in Seq(Request) /\ resPC' \in [Helper -> Res!PC]
    BY <1>1, <1>2 DEF M2Types
  <2>3. QED
    BY <1>1, <1>4, <2>1, <2>2, MoveTypes, Threads
<1>6. HandsFit'
  <2>1. reqPC'[Main] = "enq_notify"
    BY <1>1, <1>2, Threads DEF M2Types
  <2>2. QED
    BY <1>1, <1>2, <1>4, <1>5, <2>1, Threads DEF HandsFit, Enqueuing
<1>7. StartFirst'
  BY <1>3, Threads DEF M2Inv, StartFirst, NothingYet
<1>8. InLine'
  <2>1. /\ One(Responder)' = One(Responder) /\ One(Main) = Single(x) /\ One(Main)' = Empty
        /\ Running' = Running
    BY <1>3, <1>5, Threads DEF One, Running
  <2>2. AtWork' = AtWork
    BY <1>5, WorkStays, Threads
  <2>3. PICK a, b, c, d, e \in Seq(Request) :
          a = replied /\ b = One(Responder) /\ c = resData /\ d = AtWork /\ e = reqData
    BY <1>1, HandTypes, Threads, Zenon DEF M2Types
  <2>4. Joined(a, b, c, d, Append(e, x), Empty) = Joined(a, b, c, d, e, Single(x))
    BY JoinedToReq
  <2>5. /\ Line = Joined(a, b, c, d, e, Single(x))
        /\ Line' = Joined(a, b, c, d, Append(e, x), Empty)
    BY <1>2, <1>3, <2>1, <2>2, <2>3, Zenon DEF Line
  <2>6. QED
    BY <2>1, <2>4, <2>5 DEF M2Inv, InLine, OnlyOne
<1>9. QED
  BY <1>5, <1>6, <1>7, <1>8 DEF M2Inv

LEMMA WorkerPopKeeps ==
  ASSUME M2Inv, NEW w \in Worker, helper[w] = "running",
         Req!Pop(w), hand' = [hand EXCEPT ![w] = Head(reqData)],
         UNCHANGED <<resQueue, helper, accepted, replied>>
  PROVE  M2Inv'
<1>1. M2Types /\ HandsFit
  BY DEF M2Inv
<1>2. /\ reqPC[w] = "deq_crit" /\ reqPC' = [reqPC EXCEPT ![w] = "deq_notify"]
      /\ reqData # <<>> /\ reqData' = Tail(reqData) /\ resData' = resData /\ resPC' = resPC
  BY DEF Req!Pop, Req!Move, Req!IsEmpty, resQueue
<1>3. /\ Head(reqData) \in Request /\ Tail(reqData) \in Seq(Request) /\ Head(reqData) # None
      /\ hand[w] = None
  BY <1>1, <1>2, NoneIsNoRequest DEF M2Types, HandsFit, Dequeuing
<1>4. /\ reqPC' \in [ReqThread -> Req!PC] /\ reqPC'[w] = "deq_notify"
      /\ \A t \in ReqThread \ {w} : reqPC'[t] = reqPC[t]
  BY <1>1, <1>2, Threads DEF M2Types, Req!PC, Req!DequeuePC
<1>5. M2Types' /\ hand'[w] = Head(reqData) /\ \A u \in Thread \ {w} : hand'[u] = hand[u]
  <2>1. resData' \in Seq(Request) /\ replied' \in Seq(Request) /\ resPC' \in [Helper -> Res!PC]
    BY <1>1, <1>2 DEF M2Types
  <2>2. QED
    BY <1>1, <1>2, <1>3, <1>4, <2>1, MoveTypes, Threads
<1>6. HandsFit'
  BY <1>1, <1>2, <1>3, <1>4, <1>5, Threads DEF HandsFit, Enqueuing, Dequeuing
<1>7. StartFirst'
  BY <1>2 DEF M2Inv, StartFirst, NothingYet
<1>8. InLine'
  <2> SUFFICES ASSUME OnlyOne' PROVE accepted' = Line'
    BY DEF InLine
  <2>1. Running' = Running /\ w \in Running /\ OnlyOne
    BY DEF Running, OnlyOne
  <2>2. /\ One(Responder)' = One(Responder) /\ One(Main)' = One(Main)
        /\ One(w) = Empty /\ One(w)' = Single(Head(reqData))
    BY <1>3, <1>5, Threads DEF One
  <2>3. AtWork = Empty /\ AtWork' = Single(Head(reqData))
    <3>1. (CHOOSE v \in Running : TRUE) = w
      BY <2>1 DEF OnlyOne
    <3>2. QED
      BY <2>1, <2>2, <3>1 DEF AtWork
  <2>4. PICK a, b, c, e, f \in Seq(Request) :
          a = replied /\ b = One(Responder) /\ c = resData /\ e = reqData /\ f = One(Main)
    BY <1>1, HandTypes, Threads, Zenon DEF M2Types
  <2>5. PICK x, s : x = Head(e) /\ s = Tail(e) /\ Taken(e, x, s)
    BY <1>2, <2>4, Zenon DEF Taken
  <2>6. Joined(a, b, c, Single(x), s, f) = Joined(a, b, c, Empty, e, f)
    BY <2>5, JoinedFromReq
  <2>7. /\ Line = Joined(a, b, c, Empty, e, f)
        /\ Line' = Joined(a, b, c, Single(x), s, f)
    BY <1>2, <2>2, <2>3, <2>4, <2>5, Zenon DEF Line
  <2>8. QED
    BY <2>1, <2>6, <2>7 DEF M2Inv, InLine
<1>9. QED
  BY <1>5, <1>6, <1>7, <1>8 DEF M2Inv

LEMMA WorkerPushKeeps ==
  ASSUME M2Inv, NEW w \in Worker, helper[w] = "running",
         Res!Push(w, hand[w]), hand' = [hand EXCEPT ![w] = None],
         UNCHANGED <<reqQueue, helper, accepted, replied>>
  PROVE  M2Inv'
<1>1. M2Types /\ HandsFit
  BY DEF M2Inv
<1>2. /\ resPC[w] = "enq_crit" /\ resPC' = [resPC EXCEPT ![w] = "enq_notify"]
      /\ resData' = Append(resData, hand[w]) /\ reqData' = reqData /\ reqPC' = reqPC
  BY DEF Res!Push, Res!Move, reqQueue
<1>3. PICK x \in Request : x = hand[w] /\ x # None
  BY <1>1, <1>2, Threads DEF M2Types, HandsFit, Enqueuing
<1>4. /\ resPC' \in [Helper -> Res!PC] /\ resPC'[w] = "enq_notify"
      /\ \A t \in Helper \ {w} : resPC'[t] = resPC[t]
  BY <1>1, <1>2, Threads DEF M2Types, Res!PC, Res!EnqueuePC
<1>5. M2Types' /\ hand'[w] = None /\ \A u \in Thread \ {w} : hand'[u] = hand[u]
  <2>1. resData' \in Seq(Request)
    BY <1>1, <1>2, <1>3 DEF M2Types
  <2>2. reqData' \in Seq(Request) /\ replied' \in Seq(Request) /\ reqPC' \in [ReqThread -> Req!PC]
    BY <1>1, <1>2 DEF M2Types
  <2>3. QED
    BY <1>1, <1>4, <2>1, <2>2, MoveTypes, Threads
<1>6. HandsFit'
  BY <1>1, <1>2, <1>4, <1>5, Threads DEF HandsFit, Enqueuing, Dequeuing
<1>7. StartFirst'
  BY <1>3, Threads DEF M2Inv, StartFirst, NothingYet
<1>8. InLine'
  <2> SUFFICES ASSUME OnlyOne' PROVE accepted' = Line'
    BY DEF InLine
  <2>1. Running' = Running /\ w \in Running /\ OnlyOne
    BY DEF Running, OnlyOne
  <2>2. /\ One(Responder)' = One(Responder) /\ One(Main)' = One(Main)
        /\ One(w) = Single(x) /\ One(w)' = Empty
    BY <1>3, <1>5, Threads DEF One
  <2>3. AtWork = Single(x) /\ AtWork' = Empty
    <3>1. (CHOOSE v \in Running : TRUE) = w
      BY <2>1 DEF OnlyOne
    <3>2. QED
      BY <2>1, <2>2, <3>1 DEF AtWork
  <2>4. PICK a, b, c, e, f \in Seq(Request) :
          a = replied /\ b = One(Responder) /\ c = resData /\ e = reqData /\ f = One(Main)
    BY <1>1, HandTypes, Threads, Zenon DEF M2Types
  <2>5. Joined(a, b, Append(c, x), Empty, e, f) = Joined(a, b, c, Single(x), e, f)
    BY JoinedToRes
  <2>6. /\ Line = Joined(a, b, c, Single(x), e, f)
        /\ Line' = Joined(a, b, Append(c, x), Empty, e, f)
    BY <1>2, <1>3, <2>2, <2>3, <2>4, Zenon DEF Line
  <2>7. QED
    BY <2>1, <2>5, <2>6 DEF M2Inv, InLine
<1>9. QED
  BY <1>5, <1>6, <1>7, <1>8 DEF M2Inv

LEMMA ResponderPopKeeps ==
  ASSUME M2Inv, Res!Pop(Responder), hand' = [hand EXCEPT ![Responder] = Head(resData)],
         UNCHANGED <<reqQueue, helper, accepted, replied>>
  PROVE  M2Inv'
<1>1. M2Types /\ HandsFit
  BY DEF M2Inv
<1>2. /\ resPC[Responder] = "deq_crit" /\ resPC' = [resPC EXCEPT ![Responder] = "deq_notify"]
      /\ resData # <<>> /\ resData' = Tail(resData) /\ reqData' = reqData /\ reqPC' = reqPC
  BY DEF Res!Pop, Res!Move, Res!IsEmpty, reqQueue
<1>3. /\ Head(resData) \in Request /\ Tail(resData) \in Seq(Request) /\ Head(resData) # None
      /\ hand[Responder] = None
  BY <1>1, <1>2, NoneIsNoRequest DEF M2Types, HandsFit, Dequeuing
<1>4. /\ resPC' \in [Helper -> Res!PC] /\ resPC'[Responder] = "deq_notify"
      /\ \A t \in Helper \ {Responder} : resPC'[t] = resPC[t]
  BY <1>1, <1>2, Threads DEF M2Types, Res!PC, Res!DequeuePC
<1>5. /\ M2Types' /\ hand'[Responder] = Head(resData)
      /\ \A u \in Thread \ {Responder} : hand'[u] = hand[u]
  <2>1. reqData' \in Seq(Request) /\ replied' \in Seq(Request) /\ reqPC' \in [ReqThread -> Req!PC]
    BY <1>1, <1>2 DEF M2Types
  <2>2. QED
    BY <1>1, <1>2, <1>3, <1>4, <2>1, MoveTypes, Threads
<1>6. HandsFit'
  BY <1>1, <1>2, <1>4, <1>5, Threads DEF HandsFit, Enqueuing, Dequeuing
<1>7. StartFirst'
  BY <1>2 DEF M2Inv, StartFirst, NothingYet
<1>8. InLine'
  <2>1. /\ One(Responder) = Empty /\ One(Responder)' = Single(Head(resData))
        /\ One(Main)' = One(Main) /\ Running' = Running
    BY <1>3, <1>5, Threads DEF One, Running
  <2>2. AtWork' = AtWork
    BY <1>5, WorkStays, Threads
  <2>3. PICK a, c, d, e, f \in Seq(Request) :
          a = replied /\ c = resData /\ d = AtWork /\ e = reqData /\ f = One(Main)
    BY <1>1, HandTypes, Threads, Zenon DEF M2Types
  <2>4. PICK x, s : x = Head(c) /\ s = Tail(c) /\ Taken(c, x, s)
    BY <1>2, <2>3, Zenon DEF Taken
  <2>5. Joined(a, Single(x), s, d, e, f) = Joined(a, Empty, c, d, e, f)
    BY <2>4, JoinedFromRes
  <2>6. /\ Line = Joined(a, Empty, c, d, e, f)
        /\ Line' = Joined(a, Single(x), s, d, e, f)
    BY <1>2, <2>1, <2>2, <2>3, <2>4, Zenon DEF Line
  <2>7. QED
    BY <2>1, <2>5, <2>6 DEF M2Inv, InLine, OnlyOne
<1>9. QED
  BY <1>5, <1>6, <1>7, <1>8 DEF M2Inv

LEMMA ReplyKeeps ==
  ASSUME M2Inv, Reply
  PROVE  M2Inv'
<1>1. M2Types /\ HandsFit
  BY DEF M2Inv
<1>2. PICK x \in Request : x = hand[Responder] /\ x # None
  BY <1>1, Threads DEF Reply, M2Types
<1>3. /\ replied' = Append(replied, x) /\ hand' = [hand EXCEPT ![Responder] = None]
      /\ UNCHANGED <<reqData, reqPC, resData, resPC, helper, accepted>>
      /\ resPC[Responder] = "out"
  BY <1>2 DEF Reply, reqQueue, resQueue
<1>4. /\ M2Types' /\ hand'[Responder] = None
      /\ \A u \in Thread \ {Responder} : hand'[u] = hand[u]
  <2>1. replied' \in Seq(Request)
    BY <1>1, <1>3 DEF M2Types
  <2>2. /\ reqData' \in Seq(Request) /\ resData' \in Seq(Request)
        /\ reqPC' \in [ReqThread -> Req!PC] /\ resPC' \in [Helper -> Res!PC]
    BY <1>1, <1>3 DEF M2Types
  <2>3. QED
    BY <1>1, <1>3, <2>1, <2>2, MoveTypes, Threads
<1>5. HandsFit'
  BY <1>1, <1>3, <1>4, Threads DEF HandsFit
<1>6. StartFirst'
  BY <1>2, <1>3, Threads DEF M2Inv, StartFirst, NothingYet
<1>7. InLine'
  <2>1. /\ One(Responder) = Single(x) /\ One(Responder)' = Empty
        /\ One(Main)' = One(Main) /\ Running' = Running
    BY <1>2, <1>3, <1>4, Threads DEF One, Running
  <2>2. AtWork' = AtWork
    BY <1>3, <1>4, WorkStays, Threads
  <2>3. PICK a, c, d, e, f \in Seq(Request) :
          a = replied /\ c = resData /\ d = AtWork /\ e = reqData /\ f = One(Main)
    BY <1>1, HandTypes, Threads, Zenon DEF M2Types
  <2>4. Joined(Append(a, x), Empty, c, d, e, f) = Joined(a, Single(x), c, d, e, f)
    BY JoinedReplied
  <2>5. /\ Line = Joined(a, Single(x), c, d, e, f)
        /\ Line' = Joined(Append(a, x), Empty, c, d, e, f)
    BY <1>3, <2>1, <2>2, <2>3, Zenon DEF Line
  <2>6. QED
    BY <1>3, <2>1, <2>4, <2>5 DEF M2Inv, InLine, OnlyOne
<1>8. QED
  BY <1>4, <1>5, <1>6, <1>7 DEF M2Inv

-----------------------------------------------------------------------------
(* The invariant holds and gives the order.                                *)

LEMMA InitM2Inv == Init => M2Inv
<1> SUFFICES ASSUME Init PROVE M2Inv
  OBVIOUS
<1>1. /\ reqData = <<>> /\ reqPC = [t \in ReqThread |-> "out"]
      /\ resData = <<>> /\ resPC = [t \in Helper |-> "out"]
      /\ hand = [t \in Thread |-> None] /\ helper = [t \in Helper |-> "unborn"]
      /\ accepted = <<>> /\ replied = <<>>
  BY DEF Init, Req!Init, Res!Init, ReqThread
<1>2. M2Types
  BY <1>1 DEF M2Types, Req!PC, Req!EnqueuePC, Res!PC, Res!EnqueuePC
<1>3. HandsFit /\ NothingYet
  BY <1>1, Threads DEF HandsFit, NothingYet, Enqueuing, Dequeuing
<1>4. StartFirst
  BY <1>3 DEF StartFirst
<1>5. InLine
  <2>1. Running = {}
    BY <1>1, Threads DEF Running
  <2>2. AtWork = Empty /\ \A u \in Thread : One(u) = Empty
    BY <2>1, <1>3 DEF AtWork, NothingYet, One
  <2>3. Line = Joined(Empty, Empty, Empty, Empty, Empty, Empty)
    BY <2>2, <1>1, Threads DEF Line, Empty
  <2>4. Joined(Empty, Empty, Empty, Empty, Empty, Empty) = <<>>
    BY DEF Joined, Empty
  <2>5. QED
    BY <2>3, <2>4, <1>1 DEF InLine
<1>6. QED
  BY <1>2, <1>3, <1>4, <1>5 DEF M2Inv

LEMMA NextM2Inv == M2Inv /\ [Next]_vars => M2Inv'
<1> SUFFICES ASSUME M2Inv, [Next]_vars PROVE M2Inv'
  OBVIOUS
<1>0. M2Types
  BY DEF M2Inv
<1>1. CASE UNCHANGED vars
  <2>1. ReqQuiet /\ ResQuiet
    BY <1>0, <1>1, StillReq, StillRes DEF vars
  <2>2. QED
    BY <1>1, <2>1, QuietKeeps DEF vars, history
<1>2. CASE \E t \in Helper : Spawn(t)
  BY <1>2, SpawnKeeps
<1>3. CASE Recv
  BY <1>3, RecvKeeps
<1>4. CASE MainEnqueues
  <2>1. ResQuiet /\ UNCHANGED <<resQueue, helper, accepted, replied>>
    BY <1>0, <1>4, StillRes DEF MainEnqueues, history
  <2>2. CASE hand[Main] # None /\ Req!CallEnqueue(Main) /\ UNCHANGED hand
    BY <2>1, <2>2, MainCalls
  <2>3. CASE Req!Push(Main, hand[Main]) /\ hand' = [hand EXCEPT ![Main] = None]
    BY <2>1, <2>3, MainPushKeeps
  <2>4. CASE (Req!Lock(Main) \/ Req!WaitFull(Main) \/ Req!NotifyEmpty(Main)) /\ UNCHANGED hand
    <3>1. ReqQuiet
      BY <1>0, <2>4, Threads, ReqQuietSteps
    <3>2. QED
      BY <2>1, <2>4, <3>1, QuietKeeps
  <2>5. QED
    BY <1>4, <2>2, <2>3, <2>4 DEF MainEnqueues
<1>5. ASSUME NEW w \in Worker, WorkerDequeues(w) PROVE M2Inv'
  <2>1. ResQuiet /\ UNCHANGED <<resQueue, helper, accepted, replied>> /\ helper[w] = "running"
    BY <1>0, <1>5, StillRes DEF WorkerDequeues, history
  <2>2. CASE hand[w] = None /\ Req!CallDequeue(w) /\ UNCHANGED hand
    BY <2>1, <2>2, WorkerCalls
  <2>3. CASE Req!Pop(w) /\ hand' = [hand EXCEPT ![w] = Head(reqData)]
    BY <2>1, <2>3, WorkerPopKeeps
  <2>4. CASE (Req!Lock(w) \/ Req!WaitEmpty(w) \/ Req!NotifyFull(w)) /\ UNCHANGED hand
    <3>1. ReqQuiet
      BY <1>0, <2>4, Threads, ReqQuietSteps
    <3>2. QED
      BY <2>1, <2>4, <3>1, QuietKeeps
  <2>5. QED
    BY <1>5, <2>2, <2>3, <2>4 DEF WorkerDequeues
<1>6. ASSUME NEW w \in Worker, WorkerAnswers(w) PROVE M2Inv'
  <2>1. ReqQuiet /\ UNCHANGED <<reqQueue, helper, accepted, replied>> /\ helper[w] = "running"
    BY <1>0, <1>6, StillReq DEF WorkerAnswers, history
  <2>2. CASE hand[w] # None /\ Res!CallEnqueue(w) /\ UNCHANGED hand
    BY <2>1, <2>2, WorkerCalls
  <2>3. CASE Res!Push(w, hand[w]) /\ hand' = [hand EXCEPT ![w] = None]
    BY <2>1, <2>3, WorkerPushKeeps
  <2>4. CASE (Res!Lock(w) \/ Res!WaitFull(w) \/ Res!NotifyEmpty(w)) /\ UNCHANGED hand
    <3>1. ResQuiet
      BY <1>0, <2>4, Threads, ResQuietSteps
    <3>2. QED
      BY <2>1, <2>4, <3>1, QuietKeeps
  <2>5. QED
    BY <1>6, <2>2, <2>3, <2>4 DEF WorkerAnswers
<1>7. CASE ResponderDequeues
  <2>1. ReqQuiet /\ UNCHANGED <<reqQueue, helper, accepted, replied>>
    BY <1>0, <1>7, StillReq DEF ResponderDequeues, history
  <2>2. CASE hand[Responder] = None /\ Res!CallDequeue(Responder) /\ UNCHANGED hand
    BY <2>1, <2>2, ResponderCalls
  <2>3. CASE Res!Pop(Responder) /\ hand' = [hand EXCEPT ![Responder] = Head(resData)]
    BY <2>1, <2>3, ResponderPopKeeps
  <2>4. CASE (Res!Lock(Responder) \/ Res!WaitEmpty(Responder) \/ Res!NotifyFull(Responder))
             /\ UNCHANGED hand
    <3>1. ResQuiet
      BY <1>0, <2>4, Threads, ResQuietSteps
    <3>2. QED
      BY <2>1, <2>4, <3>1, QuietKeeps
  <2>5. QED
    BY <1>7, <2>2, <2>3, <2>4 DEF ResponderDequeues
<1>8. CASE Reply
  BY <1>8, ReplyKeeps
<1>9. ASSUME NEW t \in Thread, Spurious(t) PROVE M2Inv'
  <2>1. UNCHANGED <<hand, helper, accepted, replied>>
    BY <1>9 DEF Spurious
  <2>2. CASE t # Responder /\ Req!SpuriousWakeup(t) /\ UNCHANGED resQueue
    <3>1. t \in ReqThread
      BY <2>2 DEF Thread, Helper, ReqThread
    <3>2. ReqQuiet /\ ResQuiet
      BY <1>0, <2>2, <3>1, ReqQuietSteps, StillRes
    <3>3. QED
      BY <2>1, <3>2, QuietKeeps
  <2>3. CASE t # Main /\ Res!SpuriousWakeup(t) /\ UNCHANGED reqQueue
    <3>1. t \in Helper
      BY <2>3 DEF Thread
    <3>2. ReqQuiet /\ ResQuiet
      BY <1>0, <2>3, <3>1, ResQuietSteps, StillReq
    <3>3. QED
      BY <2>1, <3>2, QuietKeeps
  <2>4. QED
    BY <1>9, <2>2, <2>3 DEF Spurious
<1>10. QED
  BY <1>1, <1>2, <1>3, <1>4, <1>5, <1>6, <1>7, <1>8, <1>9 DEF Next

LEMMA AtMostOneRuns == Cardinality(Running) <= 1 => OnlyOne
<1> SUFFICES ASSUME Cardinality(Running) <= 1, NEW v \in Running, NEW w \in Running
             PROVE  v = w
  BY DEF OnlyOne
<1>1. IsFiniteSet(Running)
  BY M2Assumption, FS_Subset DEF M2Assumption, Running
<1>2. {v, w} \subseteq Running
  OBVIOUS
<1>3. Cardinality({v, w}) <= Cardinality(Running) /\ IsFiniteSet({v, w})
  BY <1>1, <1>2, FS_Subset
<1>4. Cardinality({v, w}) \in Nat /\ Cardinality(Running) \in Nat
  BY <1>1, <1>3, FS_CardinalityType
<1>5. Cardinality({v, w}) = 1
  <2>1. Cardinality({v, w}) # 0
    BY <1>3, FS_EmptySet
  <2>2. QED
    BY <1>3, <1>4, <2>1
<1>6. QED
  BY <1>3, <1>5, FS_Singleton

LEMMA LineGivesOrder == M2Inv => SingleWorkerKeepsOrder
<1> SUFFICES ASSUME M2Inv, Cardinality(Running) <= 1, NEW i \in DOMAIN replied
             PROVE  replied[i] = accepted[i]
  BY DEF SingleWorkerKeepsOrder
<1>1. accepted = Line
  BY AtMostOneRuns DEF M2Inv, InLine
<1>2. /\ replied \in Seq(Request) /\ One(Responder) \in Seq(Request) /\ resData \in Seq(Request)
      /\ AtWork \in Seq(Request) /\ reqData \in Seq(Request) /\ One(Main) \in Seq(Request)
  BY HandTypes, Threads DEF M2Inv, M2Types
<1>3. PICK f \in Seq(Request) : f = reqData \o One(Main)
  BY <1>2, ConcatProperties
<1>4. PICK e \in Seq(Request) : e = AtWork \o f
  BY <1>2, ConcatProperties
<1>5. PICK d \in Seq(Request) : d = resData \o e
  BY <1>2, ConcatProperties
<1>6. PICK c \in Seq(Request) : c = One(Responder) \o d
  BY <1>2, ConcatProperties
<1>7. accepted = replied \o c
  BY <1>1, <1>3, <1>4, <1>5, <1>6, Zenon DEF Line, Joined
<1>8. (replied \o c)[i] = replied[i]
  BY <1>2, ConcatProperties
<1>9. QED
  BY <1>7, <1>8

(* With at most one worker running the answers leave in the order in which *)
(* conn.recv() returned the requests, whichever threads were started and   *)
(* however their steps in enqueue and dequeue interleave.                  *)
THEOREM OneWorkerAnswersInOrder == Spec => []SingleWorkerKeepsOrder
<1>1. Init => M2Inv
  BY InitM2Inv
<1>2. M2Inv /\ [Next]_vars => M2Inv'
  BY NextM2Inv
<1>3. M2Inv => SingleWorkerKeepsOrder
  BY LineGivesOrder
<1>4. QED
  BY <1>1, <1>2, <1>3, PTL DEF Spec

-----------------------------------------------------------------------------
(* Composition: what is proved of every ThreadSafeQueue holds of the two   *)
(* queues of the server, because each step of its threads is a step of a   *)
(* queue's most general client or leaves that queue alone.                 *)

ReqP == INSTANCE ThreadSafeQueue_proofs WITH
          Thread <- ReqThread, Value <- Request, Capacity <- QueueCapacity,
          NoThread <- None, data <- reqData, mutex <- reqMutex, pc <- reqPC

ResP == INSTANCE ThreadSafeQueue_proofs WITH
          Thread <- Helper, Value <- Request, Capacity <- QueueCapacity,
          NoThread <- None, data <- resData, mutex <- resMutex, pc <- resPC

LEMMA QueueConstants ==
  QueueCapacity \in Nat /\ None \notin ReqThread /\ None \notin Helper
BY M2Assumption DEF M2Assumption, ReqThread, Helper

LEMMA StepsOfReqQueue == M2Inv /\ [Next]_vars => [ReqP!Next]_(ReqP!vars)
<1> SUFFICES ASSUME M2Inv, [Next]_vars PROVE [ReqP!Next]_(ReqP!vars)
  OBVIOUS
<1>1. ASSUME UNCHANGED reqQueue PROVE UNCHANGED ReqP!vars
  BY <1>1 DEF reqQueue, ReqP!vars
<1>2. CASE MainEnqueues
  <2>1. CASE Req!Push(Main, hand[Main])
    <3>1. hand[Main] \in Request
      BY <2>1, Threads DEF M2Inv, M2Types, HandsFit, Enqueuing, Req!Push, Req!Move
    <3>2. ReqP!Push(Main, hand[Main])
      BY <2>1 DEF Req!Push, ReqP!Push, Req!Move, ReqP!Move, Req!IsFull, ReqP!IsFull
    <3>3. QED
      BY <3>1, <3>2, Threads DEF ReqP!Next
  <2>2. CASE Req!CallEnqueue(Main) \/ Req!Lock(Main) \/ Req!WaitFull(Main) \/ Req!NotifyEmpty(Main)
    <3>1. \/ ReqP!CallEnqueue(Main) \/ ReqP!Lock(Main) \/ ReqP!WaitFull(Main)
          \/ ReqP!NotifyEmpty(Main)
      BY <2>2 DEF Req!CallEnqueue, ReqP!CallEnqueue, Req!Lock, ReqP!Lock, Req!WaitFull,
                  ReqP!WaitFull, Req!NotifyEmpty, ReqP!NotifyEmpty, Req!Move, ReqP!Move,
                  Req!IsFull, ReqP!IsFull, Req!Broadcast, ReqP!Broadcast, ReqThread
    <3>2. QED
      BY <3>1, Threads DEF ReqP!Next
  <2>3. QED
    BY <1>2, <2>1, <2>2 DEF MainEnqueues
<1>3. ASSUME NEW w \in Worker, WorkerDequeues(w) PROVE [ReqP!Next]_(ReqP!vars)
  <2>1. \/ Req!CallDequeue(w) \/ Req!Lock(w) \/ Req!WaitEmpty(w) \/ Req!Pop(w)
        \/ Req!NotifyFull(w)
    BY <1>3 DEF WorkerDequeues
  <2>2. \/ ReqP!CallDequeue(w) \/ ReqP!Lock(w) \/ ReqP!WaitEmpty(w) \/ ReqP!Pop(w)
        \/ ReqP!NotifyFull(w)
    BY <2>1 DEF Req!CallDequeue, ReqP!CallDequeue, Req!Lock, ReqP!Lock, Req!WaitEmpty,
                ReqP!WaitEmpty, Req!Pop, ReqP!Pop, Req!NotifyFull, ReqP!NotifyFull,
                Req!Move, ReqP!Move, Req!IsEmpty, ReqP!IsEmpty, Req!Broadcast,
                ReqP!Broadcast, ReqThread
  <2>3. QED
    BY <2>2, Threads DEF ReqP!Next
<1>4. ASSUME NEW t \in Thread, Spurious(t) PROVE [ReqP!Next]_(ReqP!vars)
  <2>1. CASE UNCHANGED reqQueue
    BY <1>1, <2>1
  <2>2. CASE t # Responder /\ Req!SpuriousWakeup(t)
    <3>1. t \in ReqThread /\ ReqP!SpuriousWakeup(t)
      BY <2>2 DEF Thread, Helper, ReqThread, Req!SpuriousWakeup, ReqP!SpuriousWakeup,
                  Req!Move, ReqP!Move
    <3>2. QED
      BY <3>1 DEF ReqP!Next
  <2>3. QED
    BY <1>4, <2>1, <2>2 DEF Spurious
<1>5. CASE \/ \E t \in Helper : Spawn(t)
           \/ Recv \/ ResponderDequeues \/ Reply \/ \E w \in Worker : WorkerAnswers(w)
           \/ UNCHANGED vars
  BY <1>1, <1>5 DEF Spawn, Recv, ResponderDequeues, Reply, WorkerAnswers, vars
<1>6. QED
  BY <1>2, <1>3, <1>4, <1>5 DEF Next

LEMMA StepsOfResQueue == M2Inv /\ [Next]_vars => [ResP!Next]_(ResP!vars)
<1> SUFFICES ASSUME M2Inv, [Next]_vars PROVE [ResP!Next]_(ResP!vars)
  OBVIOUS
<1>1. ASSUME UNCHANGED resQueue PROVE UNCHANGED ResP!vars
  BY <1>1 DEF resQueue, ResP!vars
<1>2. ASSUME NEW w \in Worker, WorkerAnswers(w) PROVE [ResP!Next]_(ResP!vars)
  <2>1. CASE Res!Push(w, hand[w])
    <3>1. hand[w] \in Request
      BY <2>1, Threads DEF M2Inv, M2Types, HandsFit, Enqueuing, Res!Push, Res!Move
    <3>2. ResP!Push(w, hand[w])
      BY <2>1 DEF Res!Push, ResP!Push, Res!Move, ResP!Move, Res!IsFull, ResP!IsFull
    <3>3. QED
      BY <3>1, <3>2, Threads DEF ResP!Next
  <2>2. CASE Res!CallEnqueue(w) \/ Res!Lock(w) \/ Res!WaitFull(w) \/ Res!NotifyEmpty(w)
    <3>1. \/ ResP!CallEnqueue(w) \/ ResP!Lock(w) \/ ResP!WaitFull(w) \/ ResP!NotifyEmpty(w)
      BY <2>2 DEF Res!CallEnqueue, ResP!CallEnqueue, Res!Lock, ResP!Lock, Res!WaitFull,
                  ResP!WaitFull, Res!NotifyEmpty, ResP!NotifyEmpty, Res!Move, ResP!Move,
                  Res!IsFull, ResP!IsFull, Res!Broadcast, ResP!Broadcast
    <3>2. QED
      BY <3>1, Threads DEF ResP!Next
  <2>3. QED
    BY <1>2, <2>1, <2>2 DEF WorkerAnswers
<1>3. CASE ResponderDequeues
  <2>1. \/ Res!CallDequeue(Responder) \/ Res!Lock(Responder) \/ Res!WaitEmpty(Responder)
        \/ Res!Pop(Responder) \/ Res!NotifyFull(Responder)
    BY <1>3 DEF ResponderDequeues
  <2>2. \/ ResP!CallDequeue(Responder) \/ ResP!Lock(Responder) \/ ResP!WaitEmpty(Responder)
        \/ ResP!Pop(Responder) \/ ResP!NotifyFull(Responder)
    BY <2>1 DEF Res!CallDequeue, ResP!CallDequeue, Res!Lock, ResP!Lock, Res!WaitEmpty,
                ResP!WaitEmpty, Res!Pop, ResP!Pop, Res!NotifyFull, ResP!NotifyFull,
                Res!Move, ResP!Move, Res!IsEmpty, ResP!IsEmpty, Res!Broadcast, ResP!Broadcast
  <2>3. QED
    BY <2>2, Threads DEF ResP!Next
<1>4. ASSUME NEW t \in Thread, Spurious(t) PROVE [ResP!Next]_(ResP!vars)
  <2>1. CASE UNCHANGED resQueue
    BY <1>1, <2>1
  <2>2. CASE t # Main /\ Res!SpuriousWakeup(t)
    <3>1. t \in Helper /\ ResP!SpuriousWakeup(t)
      BY <2>2 DEF Thread, Res!SpuriousWakeup, ResP!SpuriousWakeup, Res!Move, ResP!Move
    <3>2. QED
      BY <3>1 DEF ResP!Next
  <2>3. QED
    BY <1>4, <2>1, <2>2 DEF Spurious
<1>5. CASE \/ \E t \in Helper : Spawn(t)
           \/ Recv \/ MainEnqueues \/ Reply \/ \E w \in Worker : WorkerDequeues(w)
           \/ UNCHANGED vars
  BY <1>1, <1>5 DEF Spawn, Recv, MainEnqueues, Reply, WorkerDequeues, vars
<1>6. QED
  BY <1>2, <1>3, <1>4, <1>5 DEF Next

(* In the server no thread sleeps beside a queue it could use unless the   *)
(* thread that made the queue usable is still about to broadcast: neither  *)
(* main nor a worker nor the response thread misses its wake-up.           *)
THEOREM ServerLosesNoWakeup == Spec => [](Req!NoLostWakeup /\ Res!NoLostWakeup)
<1>1. Init => ReqP!Init /\ ResP!Init
  BY DEF Init, Req!Init, Res!Init, ReqP!Init, ResP!Init, ReqThread
<1>2. Spec => ReqP!Spec
  BY <1>1, InitM2Inv, NextM2Inv, StepsOfReqQueue, PTL DEF Spec, ReqP!Spec
<1>3. Spec => ResP!Spec
  BY <1>1, InitM2Inv, NextM2Inv, StepsOfResQueue, PTL DEF Spec, ResP!Spec
<1>4. ReqP!Spec => []ReqP!NoLostWakeup
  BY QueueConstants, ReqP!NoLostWakeupHolds
<1>5. ResP!Spec => []ResP!NoLostWakeup
  BY QueueConstants, ResP!NoLostWakeupHolds
<1>6. ReqP!NoLostWakeup => Req!NoLostWakeup
  BY DEF Req!NoLostWakeup, ReqP!NoLostWakeup, Req!IsEmpty, ReqP!IsEmpty, Req!IsFull,
         ReqP!IsFull, ReqThread
<1>7. ResP!NoLostWakeup => Res!NoLostWakeup
  BY DEF Res!NoLostWakeup, ResP!NoLostWakeup, Res!IsEmpty, ResP!IsEmpty, Res!IsFull, ResP!IsFull
<1>8. QED
  BY <1>2, <1>3, <1>4, <1>5, <1>6, <1>7, PTL

(* Neither queue of the server ever holds more than its capacity, and      *)
(* every thread's request, place and state is one the code can be in.      *)
THEOREM TypeCorrect == Spec => []TypeOK
<1> DEFINE FewSpurious == spurious \in 0..MaxSpurious
<1>1. Init => ReqP!Init /\ ResP!Init /\ FewSpurious
  BY M2Assumption DEF M2Assumption, Init, Req!Init, Res!Init, ReqP!Init, ResP!Init, ReqThread
<1>2. FewSpurious /\ [Next]_vars => FewSpurious'
  BY M2Assumption DEF M2Assumption, Next, Spawn, Recv, MainEnqueues, WorkerDequeues,
     WorkerAnswers, ResponderDequeues, Reply, Spurious, vars, history
<1>3. Spec => ReqP!Spec
  BY <1>1, InitM2Inv, NextM2Inv, StepsOfReqQueue, PTL DEF Spec, ReqP!Spec
<1>4. Spec => ResP!Spec
  BY <1>1, InitM2Inv, NextM2Inv, StepsOfResQueue, PTL DEF Spec, ResP!Spec
<1>5. ReqP!Spec => []ReqP!TypeOK
  BY QueueConstants, ReqP!TypeCorrect
<1>6. ResP!Spec => []ResP!TypeOK
  BY QueueConstants, ResP!TypeCorrect
<1>7. ReqP!TypeOK /\ ResP!TypeOK /\ M2Inv /\ FewSpurious => TypeOK
  BY DEF TypeOK, Req!TypeOK, ReqP!TypeOK, Res!TypeOK, ResP!TypeOK, M2Inv, M2Types, ReqThread,
         Req!PC, ReqP!PC, Res!PC, ResP!PC, Req!EnqueuePC, ReqP!EnqueuePC, Res!EnqueuePC,
         ResP!EnqueuePC, Req!DequeuePC, ReqP!DequeuePC, Res!DequeuePC, ResP!DequeuePC
<1>8. QED
  BY <1>1, <1>2, <1>3, <1>4, <1>5, <1>6, <1>7, InitM2Inv, NextM2Inv, PTL DEF Spec
-----------------------------------------------------------------------------
(* Each request is in one place.  The places are looked at as sets of      *)
(* requests; each step that moves a request takes it out of one set and    *)
(* puts it in another.                                                     *)

LEMMA AppendOnce ==
  ASSUME NEW s \in Seq(Request), NEW x \in Request
  PROVE  /\ Append(s, x) \in Seq(Request) /\ Len(Append(s, x)) = Len(s) + 1
         /\ Range(Append(s, x)) = Range(s) \cup {x}
         /\ IsInjective(s) /\ x \notin Range(s) => IsInjective(Append(s, x))
<1>1. Append(s, x) \in Seq(Request) /\ Len(Append(s, x)) = Len(s) + 1 /\ Len(s) \in Nat
  OBVIOUS
<1>2. \A i \in 1..Len(s) : Append(s, x)[i] = s[i]
  OBVIOUS
<1>3. Append(s, x)[Len(s) + 1] = x
  OBVIOUS
<1>4. DOMAIN s = 1..Len(s) /\ DOMAIN Append(s, x) = 1..Len(s) + 1
  BY <1>1
<1>5. Range(Append(s, x)) = Range(s) \cup {x}
  BY <1>1, <1>2, <1>3, <1>4 DEF Range
<1>6. ASSUME IsInjective(s), x \notin Range(s)
      PROVE  IsInjective(Append(s, x))
  <2>1. \A i \in 1..Len(s) : s[i] # x
    BY <1>4, <1>6 DEF Range
  <2>2. \A i, j \in 1..Len(s) : s[i] = s[j] => i = j
    BY <1>4, <1>6 DEF IsInjective
  <2> SUFFICES ASSUME NEW i \in 1..Len(s) + 1, NEW j \in 1..Len(s) + 1,
                      Append(s, x)[i] = Append(s, x)[j]
               PROVE  i = j
    BY <1>4 DEF IsInjective
  <2>3. CASE i \in 1..Len(s) /\ j \in 1..Len(s)
    BY <2>2, <2>3, <1>2
  <2>4. CASE i \in 1..Len(s) /\ j = Len(s) + 1
    BY <2>1, <2>4, <1>2, <1>3
  <2>5. CASE i = Len(s) + 1 /\ j \in 1..Len(s)
    BY <2>1, <2>5, <1>2, <1>3
  <2>6. QED
    BY <1>1, <2>3, <2>4, <2>5
<1>7. QED
  BY <1>1, <1>5, <1>6

LEMMA TailOnce ==
  ASSUME NEW s \in Seq(Request), s # <<>>
  PROVE  /\ Head(s) \in Request /\ Tail(s) \in Seq(Request) /\ Len(Tail(s)) = Len(s) - 1
         /\ Range(s) = {Head(s)} \cup Range(Tail(s))
         /\ IsInjective(s) => IsInjective(Tail(s)) /\ Head(s) \notin Range(Tail(s))
<1>1. Head(s) = s[1] /\ Head(s) \in Request /\ Len(s) \in Nat /\ Len(s) >= 1
  OBVIOUS
<1>2. /\ Tail(s) \in Seq(Request) /\ Len(Tail(s)) = Len(s) - 1
      /\ \A i \in 1..Len(s) - 1 : Tail(s)[i] = s[i + 1]
  OBVIOUS
<1>3. DOMAIN s = 1..Len(s) /\ DOMAIN Tail(s) = 1..Len(s) - 1
  BY <1>2
<1>4. \A i \in 1..Len(s) - 1 : i + 1 \in 1..Len(s) /\ 1 # i + 1
  BY <1>1
<1>5. \A i \in 1..Len(s) : i = 1 \/ (i - 1 \in 1..Len(s) - 1 /\ Tail(s)[i - 1] = s[i])
  BY <1>1, <1>2
<1>6. Range(s) = {Head(s)} \cup Range(Tail(s))
  <2>1. Range(s) \subseteq {Head(s)} \cup Range(Tail(s))
    BY <1>1, <1>3, <1>5 DEF Range
  <2>2. {Head(s)} \cup Range(Tail(s)) \subseteq Range(s)
    BY <1>1, <1>2, <1>3, <1>4 DEF Range
  <2>3. QED
    BY <2>1, <2>2
<1>7. ASSUME IsInjective(s)
      PROVE  IsInjective(Tail(s)) /\ Head(s) \notin Range(Tail(s))
  <2>1. \A i, j \in 1..Len(s) : s[i] = s[j] => i = j
    BY <1>3, <1>7 DEF IsInjective
  <2>2. ASSUME NEW i \in 1..Len(s) - 1, NEW j \in 1..Len(s) - 1, Tail(s)[i] = Tail(s)[j]
        PROVE  i = j
    <3>1. i + 1 = j + 1
      BY <2>1, <2>2, <1>2, <1>4
    <3>2. QED
      BY <3>1
  <2>3. ASSUME NEW i \in 1..Len(s) - 1
        PROVE  s[1] # Tail(s)[i]
    <3>1. 1 \in 1..Len(s) /\ i + 1 \in 1..Len(s) /\ 1 # i + 1
      BY <1>1, <1>4
    <3>2. s[1] # s[i + 1]
      BY <2>1, <3>1
    <3>3. QED
      BY <3>2, <1>2
  <2>4. IsInjective(Tail(s))
    BY <2>2, <1>3 DEF IsInjective
  <2>5. Head(s) \notin Range(Tail(s))
    BY <2>3, <1>1, <1>3 DEF Range
  <2>6. QED
    BY <2>4, <2>5
<1>8. QED
  BY <1>1, <1>2, <1>6, <1>7

LEMMA EmptyOnce == <<>> \in Seq(Request) /\ Range(<<>>) = {} /\ IsInjective(<<>>)
BY DEF Range, IsInjective

(* The places as sets, and the threads that hold a request.                *)
Held == {hand[t] : t \in Thread} \ {None}
InReq == Range(reqData)
InRes == Range(resData)
Answered == Range(replied)
Busy == {t \in Thread : hand[t] # None}

Once ==
  /\ IsInjective(reqData) /\ IsInjective(resData) /\ IsInjective(replied)
  /\ \A t, u \in Busy : hand[t] = hand[u] => t = u
Disjoint ==
  /\ Held \cap (InReq \cup InRes \cup Answered) = {}
  /\ InReq \cap (InRes \cup Answered) = {}
  /\ InRes \cap Answered = {}

(* Requests are numbered as they arrive; each is somewhere; and the        *)
(* lengths of the places add up, so that what the server holds is bounded  *)
(* by what its queues and threads have room for.                           *)
Numbered == Range(accepted) = 1..Len(accepted)
Somewhere == Range(accepted) = Held \cup InReq \cup InRes \cup Answered
Lengths == Len(accepted) = Len(replied) + Len(resData) + Len(reqData) + Cardinality(Busy)
NobodyWorks == Running = {} => resData = <<>> /\ hand[Responder] = None

PlacesInv == Once /\ Disjoint /\ Numbered /\ Somewhere /\ Lengths /\ NobodyWorks

LEMMA BusyIsFinite == IsFiniteSet(Busy) /\ Cardinality(Busy) \in Nat
<1>1. IsFiniteSet(Worker)
  BY M2Assumption DEF M2Assumption
<1>2. IsFiniteSet(Worker \cup {Responder})
  BY <1>1, FS_AddElement
<1>3. IsFiniteSet((Worker \cup {Responder}) \cup {Main})
  BY <1>2, FS_AddElement
<1>4. IsFiniteSet(Busy)
  BY <1>3, FS_Subset DEF Busy, Thread, Helper
<1>5. QED
  BY <1>4, FS_CardinalityType

(* A thread takes a request, and lets go of one.                           *)
LEMMA HandTakes ==
  ASSUME M2Types, Once, NEW t \in Thread, NEW x \in Request, x \notin Held, hand[t] = None,
         hand' = [hand EXCEPT ![t] = x]
  PROVE  /\ Held' = Held \cup {x}
         /\ \A u, v \in Busy' : hand'[u] = hand'[v] => u = v
         /\ Cardinality(Busy') = Cardinality(Busy) + 1
<1>1. hand'[t] = x /\ x # None /\ \A u \in Thread \ {t} : hand'[u] = hand[u]
  BY NoneIsNoRequest DEF M2Types
<1>2. Busy' = Busy \cup {t} /\ t \notin Busy
  BY <1>1 DEF Busy
<1>3. \A u \in Busy : hand[u] # x
  BY DEF Held, Busy
<1>4. Held' = Held \cup {x}
  <2>1. ASSUME NEW y \in Held' PROVE y \in Held \cup {x}
    BY <1>1, <2>1 DEF Held
  <2>2. ASSUME NEW y \in Held PROVE y \in Held'
    <3>1. PICK u \in Thread : y = hand[u] /\ y # None
      BY <2>2 DEF Held
    <3>2. u # t /\ hand'[u] = y
      BY <1>1, <3>1
    <3>3. QED
      BY <3>1, <3>2 DEF Held
  <2>3. x \in Held'
    BY <1>1 DEF Held
  <2>4. QED
    BY <2>1, <2>2, <2>3
<1>5. \A u, v \in Busy' : hand'[u] = hand'[v] => u = v
  BY <1>1, <1>2, <1>3 DEF Once, Busy
<1>6. Cardinality(Busy') = Cardinality(Busy) + 1
  BY <1>2, BusyIsFinite, FS_AddElement
<1>7. QED
  BY <1>4, <1>5, <1>6

LEMMA HandLetsGo ==
  ASSUME M2Types, Once, NEW t \in Thread, hand[t] # None, hand' = [hand EXCEPT ![t] = None]
  PROVE  /\ hand[t] \in Held /\ Held' = Held \ {hand[t]}
         /\ \A u, v \in Busy' : hand'[u] = hand'[v] => u = v
         /\ Cardinality(Busy) = Cardinality(Busy') + 1 /\ Cardinality(Busy') \in Nat
<1>1. hand'[t] = None /\ \A u \in Thread \ {t} : hand'[u] = hand[u]
  BY DEF M2Types
<1>2. Busy = Busy' \cup {t} /\ t \notin Busy' /\ Busy' \subseteq Busy
  BY <1>1 DEF Busy
<1>3. \A u \in Busy : hand[u] = hand[t] => u = t
  BY <1>2 DEF Once
<1>4. hand[t] \in Held
  BY DEF Held
<1>5. Held' = Held \ {hand[t]}
  <2>1. ASSUME NEW y \in Held' PROVE y \in Held \ {hand[t]}
    <3>1. PICK u \in Thread : y = hand'[u] /\ y # None
      BY <2>1 DEF Held
    <3>2. u # t /\ y = hand[u] /\ u \in Busy
      BY <1>1, <3>1 DEF Busy
    <3>3. QED
      BY <1>3, <3>1, <3>2 DEF Held
  <2>2. ASSUME NEW y \in Held \ {hand[t]} PROVE y \in Held'
    <3>1. PICK u \in Thread : y = hand[u] /\ y # None
      BY <2>2 DEF Held
    <3>2. u # t /\ hand'[u] = y
      BY <1>1, <2>2, <3>1
    <3>3. QED
      BY <3>1, <3>2 DEF Held
  <2>3. QED
    BY <2>1, <2>2
<1>6. \A u, v \in Busy' : hand'[u] = hand'[v] => u = v
  BY <1>1, <1>2 DEF Once
<1>7. IsFiniteSet(Busy')
  BY <1>2, BusyIsFinite, FS_Subset
<1>8. Cardinality(Busy) = Cardinality(Busy') + 1
  BY <1>2, <1>7, FS_AddElement
<1>9. QED
  BY <1>4, <1>5, <1>6, <1>7, <1>8, FS_CardinalityType

(* The steps that move a request, one by one.                              *)

LEMMA NothingMoves ==
  ASSUME PlacesInv, UNCHANGED <<reqData, resData, hand, helper, accepted, replied>>
  PROVE  PlacesInv'
BY DEF PlacesInv, Once, Disjoint, Numbered, Somewhere, Lengths, NobodyWorks, Held, InReq, InRes,
       Answered, Busy, Running

LEMMA InitPlaces == Init => PlacesInv
<1> SUFFICES ASSUME Init PROVE PlacesInv
  OBVIOUS
<1>1. /\ accepted = <<>> /\ replied = <<>> /\ reqData = <<>> /\ resData = <<>>
      /\ \A t \in Thread : hand[t] = None
  BY DEF Init, Req!Init, Res!Init
<1>2. Held = {} /\ InReq = {} /\ InRes = {} /\ Answered = {} /\ Busy = {}
  BY <1>1, EmptyOnce DEF Held, InReq, InRes, Answered, Busy
<1>3. Once /\ Disjoint /\ Numbered /\ Somewhere
  BY <1>1, <1>2, EmptyOnce DEF Once, Disjoint, Numbered, Somewhere
<1>4. Lengths
  BY <1>1, <1>2, FS_EmptySet DEF Lengths
<1>5. NobodyWorks
  BY <1>1, Threads DEF NobodyWorks
<1>6. QED
  BY <1>3, <1>4, <1>5 DEF PlacesInv

LEMMA RecvPlaces ==
  ASSUME M2Inv, PlacesInv, Recv
  PROVE  PlacesInv'
<1>1. M2Types
  BY DEF M2Inv
<1>2. /\ hand[Main] = None /\ Len(accepted) < NumRequests
      /\ UNCHANGED <<reqData, resData, replied, helper>>
  BY DEF Recv, reqQueue, resQueue
<1>3. PICK x \in Request : x = Len(accepted) + 1
  <2>1. NumRequests \in Nat
    BY M2Assumption DEF M2Assumption
  <2>2. Len(accepted) \in Nat
    BY <1>1 DEF M2Types
  <2>3. Len(accepted) + 1 \in Request
    BY <1>2, <2>1, <2>2 DEF Request
  <2>4. QED
    BY <2>3
<1>4. accepted' = Append(accepted, x) /\ hand' = [hand EXCEPT ![Main] = x]
  BY <1>3 DEF Recv
<1>5. Len(accepted) \in Nat /\ x \notin Range(accepted)
  BY <1>1, <1>3 DEF M2Types, PlacesInv, Numbered
<1>6. Range(accepted') = Range(accepted) \cup {x} /\ Len(accepted') = Len(accepted) + 1
  BY <1>1, <1>4, AppendOnce DEF M2Types
<1>7. x \notin Held
  BY <1>5 DEF PlacesInv, Somewhere
<1>8. /\ Held' = Held \cup {x} /\ Cardinality(Busy') = Cardinality(Busy) + 1
      /\ \A u, v \in Busy' : hand'[u] = hand'[v] => u = v
  BY <1>1, <1>2, <1>4, <1>7, Threads, HandTakes DEF PlacesInv
<1>9. InReq' = InReq /\ InRes' = InRes /\ Answered' = Answered
  BY <1>2 DEF InReq, InRes, Answered
<1>10. Once'
  BY <1>2, <1>8 DEF PlacesInv, Once
<1>11. Disjoint' /\ Somewhere'
  BY <1>5, <1>6, <1>8, <1>9 DEF PlacesInv, Disjoint, Somewhere
<1>12. Numbered'
  BY <1>3, <1>5, <1>6 DEF PlacesInv, Numbered
<1>13. Lengths'
  <2>1. Len(replied) \in Nat /\ Len(resData) \in Nat /\ Len(reqData) \in Nat
    BY <1>1 DEF M2Types
  <2>2. QED
    BY <1>2, <1>5, <1>6, <1>8, <2>1, BusyIsFinite DEF PlacesInv, Lengths
<1>14. NobodyWorks'
  BY <1>1, <1>2, <1>4, Threads DEF PlacesInv, NobodyWorks, Running, M2Types
<1>15. QED
  BY <1>10, <1>11, <1>12, <1>13, <1>14 DEF PlacesInv

LEMMA MainPushPlaces ==
  ASSUME M2Inv, PlacesInv, Req!Push(Main, hand[Main]), hand' = [hand EXCEPT ![Main] = None],
         UNCHANGED <<resQueue, helper, accepted, replied>>
  PROVE  PlacesInv'
<1>1. M2Types
  BY DEF M2Inv
<1>2. reqPC[Main] = "enq_crit" /\ UNCHANGED <<resData, helper, accepted, replied>>
  BY DEF Req!Push, Req!Move, resQueue
<1>3. PICK x \in Request : x = hand[Main] /\ x # None
  BY <1>1, <1>2, Threads DEF M2Inv, HandsFit, Enqueuing, M2Types
<1>4. reqData' = Append(reqData, x)
  BY <1>3 DEF Req!Push
<1>5. /\ x \in Held /\ Held' = Held \ {x}
      /\ \A u, v \in Busy' : hand'[u] = hand'[v] => u = v
      /\ Cardinality(Busy) = Cardinality(Busy') + 1 /\ Cardinality(Busy') \in Nat
  BY <1>1, <1>3, Threads, HandLetsGo DEF PlacesInv
<1>6. x \notin InReq \cup InRes \cup Answered
  BY <1>5 DEF PlacesInv, Disjoint
<1>7. InReq' = InReq \cup {x} /\ IsInjective(reqData') /\ Len(reqData') = Len(reqData) + 1
  BY <1>1, <1>4, <1>6, AppendOnce DEF M2Types, PlacesInv, Once, InReq
<1>8. InRes' = InRes /\ Answered' = Answered
  BY <1>2 DEF InRes, Answered
<1>9. Once'
  BY <1>2, <1>5, <1>7 DEF PlacesInv, Once
<1>10. Disjoint'
  BY <1>5, <1>6, <1>7, <1>8 DEF PlacesInv, Disjoint
<1>11. Somewhere' /\ Numbered'
  BY <1>2, <1>5, <1>7, <1>8 DEF PlacesInv, Somewhere, Numbered
<1>12. Lengths'
  <2>1. Len(replied) \in Nat /\ Len(resData) \in Nat /\ Len(reqData) \in Nat
    BY <1>1 DEF M2Types
  <2>2. QED
    BY <1>2, <1>5, <1>7, <2>1 DEF PlacesInv, Lengths
<1>13. NobodyWorks'
  <2>1. hand'[Responder] = hand[Responder] /\ Running' = Running
    BY <1>1, <1>2, Threads DEF M2Types, Running
  <2>2. QED
    BY <1>2, <2>1 DEF PlacesInv, NobodyWorks
<1>14. QED
  BY <1>9, <1>10, <1>11, <1>12, <1>13 DEF PlacesInv

LEMMA WorkerPopPlaces ==
  ASSUME M2Inv, PlacesInv, NEW w \in Worker, helper[w] = "running", Req!Pop(w),
         hand' = [hand EXCEPT ![w] = Head(reqData)],
         UNCHANGED <<resQueue, helper, accepted, replied>>
  PROVE  PlacesInv'
<1>1. M2Types
  BY DEF M2Inv
<1>2. reqPC[w] = "deq_crit" /\ reqData # <<>> /\ UNCHANGED <<resData, helper, accepted, replied>>
  BY DEF Req!Pop, Req!Move, Req!IsEmpty, resQueue
<1>3. hand[w] = None
  BY <1>2, Threads DEF M2Inv, HandsFit, Dequeuing
<1>4. PICK x \in Request : x = Head(reqData)
  BY <1>1, <1>2, TailOnce DEF M2Types
<1>5. reqData' = Tail(reqData) /\ hand' = [hand EXCEPT ![w] = x]
  BY <1>4 DEF Req!Pop
<1>6. /\ InReq = {x} \cup InReq' /\ x \notin InReq' /\ IsInjective(reqData')
      /\ Len(reqData') = Len(reqData) - 1
  BY <1>1, <1>2, <1>4, <1>5, TailOnce DEF M2Types, PlacesInv, Once, InReq
<1>7. x \notin Held \cup InRes \cup Answered
  BY <1>6 DEF PlacesInv, Disjoint
<1>8. /\ Held' = Held \cup {x} /\ Cardinality(Busy') = Cardinality(Busy) + 1
      /\ \A u, v \in Busy' : hand'[u] = hand'[v] => u = v
  BY <1>1, <1>3, <1>5, <1>7, Threads, HandTakes DEF PlacesInv
<1>9. InRes' = InRes /\ Answered' = Answered
  BY <1>2 DEF InRes, Answered
<1>10. Once'
  BY <1>2, <1>6, <1>8 DEF PlacesInv, Once
<1>11. Disjoint'
  BY <1>6, <1>7, <1>8, <1>9 DEF PlacesInv, Disjoint
<1>12. Somewhere' /\ Numbered'
  BY <1>2, <1>6, <1>8, <1>9 DEF PlacesInv, Somewhere, Numbered
<1>13. Lengths'
  <2>1. Len(replied) \in Nat /\ Len(resData) \in Nat /\ Len(reqData) \in Nat
    BY <1>1 DEF M2Types
  <2>2. QED
    BY <1>2, <1>6, <1>8, <2>1, BusyIsFinite DEF PlacesInv, Lengths
<1>14. NobodyWorks'
  BY <1>2 DEF NobodyWorks, Running
<1>15. QED
  BY <1>10, <1>11, <1>12, <1>13, <1>14 DEF PlacesInv

LEMMA WorkerPushPlaces ==
  ASSUME M2Inv, PlacesInv, NEW w \in Worker, helper[w] = "running", Res!Push(w, hand[w]),
         hand' = [hand EXCEPT ![w] = None],
         UNCHANGED <<reqQueue, helper, accepted, replied>>
  PROVE  PlacesInv'
<1>1. M2Types
  BY DEF M2Inv
<1>2. resPC[w] = "enq_crit" /\ UNCHANGED <<reqData, helper, accepted, replied>>
  BY DEF Res!Push, Res!Move, reqQueue
<1>3. PICK x \in Request : x = hand[w] /\ x # None
  BY <1>1, <1>2, Threads DEF M2Inv, HandsFit, Enqueuing, M2Types
<1>4. resData' = Append(resData, x)
  BY <1>3 DEF Res!Push
<1>5. /\ x \in Held /\ Held' = Held \ {x}
      /\ \A u, v \in Busy' : hand'[u] = hand'[v] => u = v
      /\ Cardinality(Busy) = Cardinality(Busy') + 1 /\ Cardinality(Busy') \in Nat
  BY <1>1, <1>3, Threads, HandLetsGo DEF PlacesInv
<1>6. x \notin InReq \cup InRes \cup Answered
  BY <1>5 DEF PlacesInv, Disjoint
<1>7. InRes' = InRes \cup {x} /\ IsInjective(resData') /\ Len(resData') = Len(resData) + 1
  BY <1>1, <1>4, <1>6, AppendOnce DEF M2Types, PlacesInv, Once, InRes
<1>8. InReq' = InReq /\ Answered' = Answered
  BY <1>2 DEF InReq, Answered
<1>9. Once'
  BY <1>2, <1>5, <1>7 DEF PlacesInv, Once
<1>10. Disjoint'
  BY <1>5, <1>6, <1>7, <1>8 DEF PlacesInv, Disjoint
<1>11. Somewhere' /\ Numbered'
  BY <1>2, <1>5, <1>7, <1>8 DEF PlacesInv, Somewhere, Numbered
<1>12. Lengths'
  <2>1. Len(replied) \in Nat /\ Len(resData) \in Nat /\ Len(reqData) \in Nat
    BY <1>1 DEF M2Types
  <2>2. QED
    BY <1>2, <1>5, <1>7, <2>1 DEF PlacesInv, Lengths
<1>13. NobodyWorks'
  BY <1>2 DEF NobodyWorks, Running
<1>14. QED
  BY <1>9, <1>10, <1>11, <1>12, <1>13 DEF PlacesInv

LEMMA ResponderPopPlaces ==
  ASSUME M2Inv, PlacesInv, Res!Pop(Responder), hand' = [hand EXCEPT ![Responder] = Head(resData)],
         UNCHANGED <<reqQueue, helper, accepted, replied>>
  PROVE  PlacesInv'
<1>1. M2Types
  BY DEF M2Inv
<1>2. /\ resPC[Responder] = "deq_crit" /\ resData # <<>>
      /\ UNCHANGED <<reqData, helper, accepted, replied>>
  BY DEF Res!Pop, Res!Move, Res!IsEmpty, reqQueue
<1>3. hand[Responder] = None
  BY <1>2, Threads DEF M2Inv, HandsFit, Dequeuing
<1>4. PICK x \in Request : x = Head(resData)
  BY <1>1, <1>2, TailOnce DEF M2Types
<1>5. resData' = Tail(resData) /\ hand' = [hand EXCEPT ![Responder] = x]
  BY <1>4 DEF Res!Pop
<1>6. /\ InRes = {x} \cup InRes' /\ x \notin InRes' /\ IsInjective(resData')
      /\ Len(resData') = Len(resData) - 1
  BY <1>1, <1>2, <1>4, <1>5, TailOnce DEF M2Types, PlacesInv, Once, InRes
<1>7. x \notin Held \cup InReq \cup Answered
  BY <1>6 DEF PlacesInv, Disjoint
<1>8. /\ Held' = Held \cup {x} /\ Cardinality(Busy') = Cardinality(Busy) + 1
      /\ \A u, v \in Busy' : hand'[u] = hand'[v] => u = v
  BY <1>1, <1>3, <1>5, <1>7, Threads, HandTakes DEF PlacesInv
<1>9. InReq' = InReq /\ Answered' = Answered
  BY <1>2 DEF InReq, Answered
<1>10. Once'
  BY <1>2, <1>6, <1>8 DEF PlacesInv, Once
<1>11. Disjoint'
  BY <1>6, <1>7, <1>8, <1>9 DEF PlacesInv, Disjoint
<1>12. Somewhere' /\ Numbered'
  BY <1>2, <1>6, <1>8, <1>9 DEF PlacesInv, Somewhere, Numbered
<1>13. Lengths'
  <2>1. Len(replied) \in Nat /\ Len(resData) \in Nat /\ Len(reqData) \in Nat
    BY <1>1 DEF M2Types
  <2>2. QED
    BY <1>2, <1>6, <1>8, <2>1, BusyIsFinite DEF PlacesInv, Lengths
<1>14. NobodyWorks'
  <2>1. Running # {} /\ Running' = Running
    BY <1>2 DEF PlacesInv, NobodyWorks, Running
  <2>2. QED
    BY <2>1 DEF NobodyWorks
<1>15. QED
  BY <1>10, <1>11, <1>12, <1>13, <1>14 DEF PlacesInv

LEMMA ReplyPlaces ==
  ASSUME M2Inv, PlacesInv, Reply
  PROVE  PlacesInv'
<1>1. M2Types
  BY DEF M2Inv
<1>2. /\ hand[Responder] # None /\ hand' = [hand EXCEPT ![Responder] = None]
      /\ UNCHANGED <<reqData, resData, helper, accepted>>
  BY DEF Reply, reqQueue, resQueue
<1>3. PICK x \in Request : x = hand[Responder]
  BY <1>1, <1>2, Threads DEF M2Types
<1>4. replied' = Append(replied, x)
  BY <1>3 DEF Reply
<1>5. /\ x \in Held /\ Held' = Held \ {x}
      /\ \A u, v \in Busy' : hand'[u] = hand'[v] => u = v
      /\ Cardinality(Busy) = Cardinality(Busy') + 1 /\ Cardinality(Busy') \in Nat
  BY <1>1, <1>2, <1>3, Threads, HandLetsGo DEF PlacesInv
<1>6. x \notin InReq \cup InRes \cup Answered
  BY <1>5 DEF PlacesInv, Disjoint
<1>7. Answered' = Answered \cup {x} /\ IsInjective(replied') /\ Len(replied') = Len(replied) + 1
  BY <1>1, <1>4, <1>6, AppendOnce DEF M2Types, PlacesInv, Once, Answered
<1>8. InReq' = InReq /\ InRes' = InRes
  BY <1>2 DEF InReq, InRes
<1>9. Once'
  BY <1>2, <1>5, <1>7 DEF PlacesInv, Once
<1>10. Disjoint'
  BY <1>5, <1>6, <1>7, <1>8 DEF PlacesInv, Disjoint
<1>11. Somewhere' /\ Numbered'
  BY <1>2, <1>5, <1>7, <1>8 DEF PlacesInv, Somewhere, Numbered
<1>12. Lengths'
  <2>1. Len(replied) \in Nat /\ Len(resData) \in Nat /\ Len(reqData) \in Nat
    BY <1>1 DEF M2Types
  <2>2. QED
    BY <1>2, <1>5, <1>7, <2>1 DEF PlacesInv, Lengths
<1>13. NobodyWorks'
  <2>1. Running # {} /\ Running' = Running
    BY <1>2 DEF PlacesInv, NobodyWorks, Running
  <2>2. QED
    BY <2>1 DEF NobodyWorks
<1>14. QED
  BY <1>9, <1>10, <1>11, <1>12, <1>13 DEF PlacesInv

(* A thread that starts late finds the pipeline empty.                     *)
LEMMA SpawnPlaces ==
  ASSUME M2Inv, PlacesInv, NEW t \in Helper, Spawn(t)
  PROVE  PlacesInv'
<1>1. NothingYet
  BY DEF M2Inv, StartFirst, Spawn
<1>2. UNCHANGED <<reqData, resData, hand, accepted, replied>>
  BY DEF Spawn, reqQueue, resQueue, history
<1>3. NobodyWorks'
  BY <1>1, <1>2, Threads DEF NothingYet, NobodyWorks
<1>4. QED
  BY <1>2, <1>3 DEF PlacesInv, Once, Disjoint, Numbered, Somewhere, Lengths, Held, InReq, InRes,
                    Answered, Busy

LEMMA NextPlaces == M2Inv /\ PlacesInv /\ [Next]_vars => PlacesInv'
<1> SUFFICES ASSUME M2Inv, PlacesInv, [Next]_vars PROVE PlacesInv'
  OBVIOUS
<1>1. CASE UNCHANGED vars
  BY <1>1, NothingMoves DEF vars, reqQueue, resQueue, history
<1>2. CASE \E t \in Helper : Spawn(t)
  BY <1>2, SpawnPlaces
<1>3. CASE Recv
  BY <1>3, RecvPlaces
<1>4. CASE MainEnqueues
  <2>1. UNCHANGED <<resQueue, helper, accepted, replied>>
    BY <1>4 DEF MainEnqueues, history
  <2>2. CASE Req!Push(Main, hand[Main]) /\ hand' = [hand EXCEPT ![Main] = None]
    BY <2>1, <2>2, MainPushPlaces
  <2>3. CASE /\ \/ Req!CallEnqueue(Main) \/ Req!Lock(Main) \/ Req!WaitFull(Main)
                \/ Req!NotifyEmpty(Main)
             /\ UNCHANGED hand
    BY <2>1, <2>3, NothingMoves
       DEF resQueue, Req!CallEnqueue, Req!Lock, Req!WaitFull, Req!NotifyEmpty
  <2>4. QED
    BY <1>4, <2>2, <2>3 DEF MainEnqueues
<1>5. ASSUME NEW w \in Worker, WorkerDequeues(w) PROVE PlacesInv'
  <2>1. UNCHANGED <<resQueue, helper, accepted, replied>> /\ helper[w] = "running"
    BY <1>5 DEF WorkerDequeues, history
  <2>2. CASE Req!Pop(w) /\ hand' = [hand EXCEPT ![w] = Head(reqData)]
    BY <2>1, <2>2, WorkerPopPlaces
  <2>3. CASE /\ \/ Req!CallDequeue(w) \/ Req!Lock(w) \/ Req!WaitEmpty(w) \/ Req!NotifyFull(w)
             /\ UNCHANGED hand
    BY <2>1, <2>3, NothingMoves
       DEF resQueue, Req!CallDequeue, Req!Lock, Req!WaitEmpty, Req!NotifyFull
  <2>4. QED
    BY <1>5, <2>2, <2>3 DEF WorkerDequeues
<1>6. ASSUME NEW w \in Worker, WorkerAnswers(w) PROVE PlacesInv'
  <2>1. UNCHANGED <<reqQueue, helper, accepted, replied>> /\ helper[w] = "running"
    BY <1>6 DEF WorkerAnswers, history
  <2>2. CASE Res!Push(w, hand[w]) /\ hand' = [hand EXCEPT ![w] = None]
    BY <2>1, <2>2, WorkerPushPlaces
  <2>3. CASE /\ \/ Res!CallEnqueue(w) \/ Res!Lock(w) \/ Res!WaitFull(w) \/ Res!NotifyEmpty(w)
             /\ UNCHANGED hand
    BY <2>1, <2>3, NothingMoves
       DEF reqQueue, Res!CallEnqueue, Res!Lock, Res!WaitFull, Res!NotifyEmpty
  <2>4. QED
    BY <1>6, <2>2, <2>3 DEF WorkerAnswers
<1>7. CASE ResponderDequeues
  <2>1. UNCHANGED <<reqQueue, helper, accepted, replied>>
    BY <1>7 DEF ResponderDequeues, history
  <2>2. CASE Res!Pop(Responder) /\ hand' = [hand EXCEPT ![Responder] = Head(resData)]
    BY <2>1, <2>2, ResponderPopPlaces
  <2>3. CASE /\ \/ Res!CallDequeue(Responder) \/ Res!Lock(Responder) \/ Res!WaitEmpty(Responder)
                \/ Res!NotifyFull(Responder)
             /\ UNCHANGED hand
    BY <2>1, <2>3, NothingMoves
       DEF reqQueue, Res!CallDequeue, Res!Lock, Res!WaitEmpty, Res!NotifyFull
  <2>4. QED
    BY <1>7, <2>2, <2>3 DEF ResponderDequeues
<1>8. CASE Reply
  BY <1>8, ReplyPlaces
<1>9. ASSUME NEW t \in Thread, Spurious(t) PROVE PlacesInv'
  BY <1>9, NothingMoves DEF Spurious, Req!SpuriousWakeup, Res!SpuriousWakeup, reqQueue, resQueue
<1>10. QED
  BY <1>1, <1>2, <1>3, <1>4, <1>5, <1>6, <1>7, <1>8, <1>9 DEF Next

LEMMA PositionsOnce ==
  ASSUME NEW s \in Seq(Request), IsInjective(s), NEW r
  PROVE  Cardinality(Positions(s, r)) = IF r \in Range(s) THEN 1 ELSE 0
<1>1. CASE r \in Range(s)
  <2>1. PICK n \in DOMAIN s : s[n] = r
    BY <1>1 DEF Range
  <2>2. Positions(s, r) = {n}
    BY <2>1 DEF Positions, IsInjective
  <2>3. QED
    BY <1>1, <2>2, FS_Singleton
<1>2. CASE r \notin Range(s)
  <2>1. Positions(s, r) = {}
    BY <1>2 DEF Positions, Range
  <2>2. QED
    BY <1>2, <2>1, FS_EmptySet
<1>3. QED
  BY <1>1, <1>2

LEMMA OneCopy ==
  ASSUME M2Types, PlacesInv, NEW r \in Request
  PROVE  Copies(r) = IF r \in Range(accepted) THEN 1 ELSE 0
<1>1. /\ Cardinality(Positions(reqData, r)) = IF r \in InReq THEN 1 ELSE 0
      /\ Cardinality(Positions(resData, r)) = IF r \in InRes THEN 1 ELSE 0
      /\ Cardinality(Positions(replied, r)) = IF r \in Answered THEN 1 ELSE 0
  BY PositionsOnce DEF M2Types, PlacesInv, Once, InReq, InRes, Answered
<1>2. Cardinality(Holders(r)) = IF r \in Held THEN 1 ELSE 0
  <2>0. r # None
    BY NoneIsNoRequest
  <2>1. CASE r \in Held
    <3>1. PICK t \in Thread : hand[t] = r
      BY <2>1 DEF Held
    <3>2. \A u \in Holders(r) : u \in Busy /\ t \in Busy /\ hand[u] = hand[t]
      BY <2>0, <3>1 DEF Holders, Busy
    <3>3. Holders(r) = {t}
      BY <3>1, <3>2 DEF Holders, PlacesInv, Once
    <3>4. QED
      BY <2>1, <3>3, FS_Singleton
  <2>2. CASE r \notin Held
    <3>1. Holders(r) = {}
      BY <2>0, <2>2 DEF Held, Holders
    <3>2. QED
      BY <2>2, <3>1, FS_EmptySet
  <2>3. QED
    BY <2>1, <2>2
<1>3. r \in Range(accepted) <=> r \in Held \/ r \in InReq \/ r \in InRes \/ r \in Answered
  BY DEF PlacesInv, Somewhere
<1>4. /\ r \in Held => r \notin InReq /\ r \notin InRes /\ r \notin Answered
      /\ r \in InReq => r \notin InRes /\ r \notin Answered
      /\ r \in InRes => r \notin Answered
  BY DEF PlacesInv, Disjoint
<1>5. QED
  BY <1>1, <1>2, <1>3, <1>4 DEF Copies

(* What the server holds: the queues are within their capacity, and only   *)
(* main, the response thread and the running workers hold a request.       *)
LEMMA BoundedBacklog ==
  ASSUME M2Inv, PlacesInv, Len(reqData) <= QueueCapacity, Len(resData) <= QueueCapacity
  PROVE  Len(accepted) - Len(replied) <= IF Running = {} THEN QueueCapacity + 1
                                         ELSE 2 * QueueCapacity + Cardinality(Running) + 2
<1>1. /\ Len(replied) \in Nat /\ Len(resData) \in Nat /\ Len(reqData) \in Nat
      /\ Len(accepted) \in Nat /\ QueueCapacity \in Nat
  BY M2Assumption DEF M2Inv, M2Types, M2Assumption
<1>2. Len(accepted) = Len(replied) + Len(resData) + Len(reqData) + Cardinality(Busy)
  BY DEF PlacesInv, Lengths
<1>3. Busy \subseteq (Running \cup {Responder}) \cup {Main}
  BY DEF Busy, Running, Thread, Helper, M2Inv, HandsFit
<1>4. CASE Running = {}
  <2>1. resData = <<>> /\ Busy \subseteq {Main}
    BY <1>3, <1>4 DEF PlacesInv, NobodyWorks, Busy
  <2>2. Cardinality(Busy) <= 1
    <3>1. IsFiniteSet({Main}) /\ Cardinality({Main}) = 1
      BY FS_Singleton
    <3>2. Cardinality(Busy) <= Cardinality({Main})
      BY <2>1, <3>1, FS_Subset
    <3>3. QED
      BY <3>1, <3>2
  <2>3. QED
    BY <1>1, <1>2, <1>4, <2>1, <2>2, BusyIsFinite
<1>5. CASE Running # {}
  <2>1. IsFiniteSet(Running)
    BY M2Assumption, FS_Subset DEF M2Assumption, Running
  <2>2. /\ IsFiniteSet(Running \cup {Responder})
        /\ Cardinality(Running \cup {Responder}) = Cardinality(Running) + 1
    BY <2>1, FS_AddElement, Threads DEF Running
  <2>3. /\ IsFiniteSet((Running \cup {Responder}) \cup {Main})
        /\ Cardinality((Running \cup {Responder}) \cup {Main}) = Cardinality(Running) + 1 + 1
    <3>1. Main \notin Running \cup {Responder}
      BY Threads DEF Running
    <3>2. QED
      BY <2>2, <3>1, FS_AddElement
  <2>4. Cardinality(Busy) <= Cardinality(Running) + 1 + 1
    BY <1>3, <2>3, FS_Subset
  <2>5. Cardinality(Running) \in Nat
    BY <2>1, FS_CardinalityType
  <2>6. QED
    BY <1>1, <1>2, <1>5, <2>4, <2>5, BusyIsFinite
<1>6. QED
  BY <1>4, <1>5

(* No request is lost, duplicated or answered twice on its way through the *)
(* server, and the server never holds more than its queues and the threads *)
(* that were started have room for.                                        *)
THEOREM RequestsStayInOnePlace == Spec => []EachRequestInOnePlace
<1>1. Init => M2Inv /\ PlacesInv
  BY InitM2Inv, InitPlaces
<1>2. M2Inv /\ PlacesInv /\ [Next]_vars => M2Inv' /\ PlacesInv'
  BY NextM2Inv, NextPlaces
<1>3. M2Inv /\ PlacesInv /\ TypeOK => EachRequestInOnePlace
  <2> SUFFICES ASSUME M2Inv, PlacesInv, TypeOK PROVE EachRequestInOnePlace
    OBVIOUS
  <2>1. Len(reqData) <= QueueCapacity /\ Len(resData) <= QueueCapacity
    BY M2Assumption DEF M2Assumption, TypeOK, Req!TypeOK, Res!TypeOK
  <2>2. \A r \in Request : Copies(r) = IF r \in Range(accepted) THEN 1 ELSE 0
    BY OneCopy DEF M2Inv
  <2>3. QED
    BY <2>1, <2>2, BoundedBacklog DEF EachRequestInOnePlace
<1>4. QED
  BY <1>1, <1>2, <1>3, TypeCorrect, PTL DEF Spec
=============================================================================
