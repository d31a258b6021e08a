-------------------------- MODULE CanonicalizerM2 --------------------------
(***************************************************************************)
(* The threads of c/disambig/canonicalizer_m2.cpp.  main receives requests *)
(* from Mongrel2 and enqueues them to __req_queue; NUM_DOWNLOAD_THREADS    *)
(* workers dequeue a request, resolve its concepts and enqueue the answer  *)
(* to __res_queue; one thread dequeues answers and replies.  Both queues   *)
(* are ThreadSafeQueues with a capacity, so a slow stage blocks the stages *)
(* before it.  A pthread_create that fails is reported and ignored: the    *)
(* server then runs with fewer workers, or without anyone to reply.        *)
(*                                                                         *)
(* An answer is represented by its request: conceptualize copies req into  *)
(* the ReqRes beside the JSON, and nothing looks at the JSON.              *)
(***************************************************************************)
EXTENDS Naturals, Sequences, FiniteSets, Functions

CONSTANTS
  NumRequests,   (* bound: the requests Mongrel2 sends in a behaviour      *)
  Worker,        (* the download threads                                   *)
  Main,          (* the thread of main()                                   *)
  Responder,     (* the thread of respond()                                *)
  QueueCapacity, (* capacity of __req_queue and __res_queue, 1000 in code  *)
  MaxSpurious,   (* bound: wake-ups without a broadcast in a behaviour     *)
  None           (* no request, no thread                                  *)

ASSUME M2Assumption ==
  /\ QueueCapacity \in Nat \ {0} /\ IsFiniteSet(Worker)
  /\ {NumRequests, MaxSpurious} \subseteq Nat
  /\ Main # Responder /\ {Main, Responder} \cap Worker = {}
  /\ None \notin Nat \cup Worker \cup {Main, Responder}

Request == 1..NumRequests      (* numbered in the order of their arrival   *)
Helper == Worker \cup {Responder}
Thread == Helper \cup {Main}

VARIABLES
  reqData, reqMutex, reqPC,   (* __req_queue                               *)
  resData, resMutex, resPC,   (* __res_queue                               *)
  hand,       (* the request each thread's local variable holds            *)
  helper,     (* what pthread_create has done about each helper thread     *)
  accepted,   (* history: requests conn.recv() has returned, in order      *)
  replied,    (* history: requests conn->reply_http() has answered         *)
  spurious    (* spurious wake-ups so far                                  *)

reqQueue == <<reqData, reqMutex, reqPC>>
resQueue == <<resData, resMutex, resPC>>
history  == <<accepted, replied, spurious>>
vars == <<reqQueue, resQueue, hand, helper, history>>

Req == INSTANCE ThreadSafeQueue WITH
         Thread <- Worker \cup {Main}, Value <- Request, Capacity <- QueueCapacity,
         NoThread <- None, data <- reqData, mutex <- reqMutex, pc <- reqPC

Res == INSTANCE ThreadSafeQueue WITH
         Thread <- Helper, Value <- Request, Capacity <- QueueCapacity,
         NoThread <- None, data <- resData, mutex <- resMutex, pc <- resPC

TypeOK ==
  /\ Req!TypeOK
  /\ Res!TypeOK
  /\ hand \in [Thread -> Request \cup {None}]
  /\ helper \in [Helper -> {"unborn", "running", "failed"}]
  /\ accepted \in Seq(Request)
  /\ replied \in Seq(Request)
  /\ spurious \in 0..MaxSpurious

Init ==
  /\ Req!Init
  /\ Res!Init
  /\ hand = [t \in Thread |-> None]
  /\ helper = [t \in Helper |-> "unborn"]
  /\ accepted = <<>>
  /\ replied = <<>>
  /\ spurious = 0

-----------------------------------------------------------------------------
(* main                                                                    *)

(* One pthread_create: the workers first, then the response thread.        *)
Spawn(t) ==
  /\ helper[t] = "unborn"
  /\ t = Responder => \A w \in Worker : helper[w] # "unborn"
  /\ \E outcome \in {"running", "failed"} : helper' = [helper EXCEPT ![t] = outcome]
  /\ UNCHANGED <<reqQueue, resQueue, hand, history>>

(* conn.recv() returns a request.                                          *)
Recv ==
  /\ \A t \in Helper : helper[t] # "unborn"
  /\ hand[Main] = None
  /\ reqPC[Main] = "out"
  /\ Len(accepted) < NumRequests
  /\ accepted' = Append(accepted, Len(accepted) + 1)
  /\ hand' = [hand EXCEPT ![Main] = Len(accepted) + 1]
  /\ UNCHANGED <<reqQueue, resQueue, helper, replied, spurious>>

(* __req_queue.enqueue(req)                                                *)
MainEnqueues ==
  /\ \/ hand[Main] # None /\ Req!CallEnqueue(Main) /\ UNCHANGED hand
     \/ Req!Lock(Main) /\ UNCHANGED hand
     \/ Req!WaitFull(Main) /\ UNCHANGED hand
     \/ Req!Push(Main, hand[Main]) /\ hand' = [hand EXCEPT ![Main] = None]
     \/ Req!NotifyEmpty(Main) /\ UNCHANGED hand
  /\ UNCHANGED <<resQueue, helper, history>>

-----------------------------------------------------------------------------
(* download, on each worker                                                *)

(* __req_queue.dequeue()                                                   *)
WorkerDequeues(w) ==
  /\ helper[w] = "running"
  /\ \/ hand[w] = None /\ resPC[w] = "out" /\ Req!CallDequeue(w) /\ UNCHANGED hand
     \/ Req!Lock(w) /\ UNCHANGED hand
     \/ Req!WaitEmpty(w) /\ UNCHANGED hand
     \/ Req!Pop(w) /\ hand' = [hand EXCEPT ![w] = Head(reqData)]
     \/ Req!NotifyFull(w) /\ UNCHANGED hand
  /\ UNCHANGED <<resQueue, helper, history>>

(* conceptualize(req): resolve, then __res_queue.enqueue(rr)               *)
WorkerAnswers(w) ==
  /\ helper[w] = "running"
  /\ \/ hand[w] # None /\ reqPC[w] = "out" /\ Res!CallEnqueue(w) /\ UNCHANGED hand
     \/ Res!Lock(w) /\ UNCHANGED hand
     \/ Res!WaitFull(w) /\ UNCHANGED hand
     \/ Res!Push(w, hand[w]) /\ hand' = [hand EXCEPT ![w] = None]
     \/ Res!NotifyEmpty(w) /\ UNCHANGED hand
  /\ UNCHANGED <<reqQueue, helper, history>>

-----------------------------------------------------------------------------
(* respond                                                                 *)

(* __res_queue.dequeue()                                                   *)
ResponderDequeues ==
  /\ helper[Responder] = "running"
  /\ \/ hand[Responder] = None /\ Res!CallDequeue(Responder) /\ UNCHANGED hand
     \/ Res!Lock(Responder) /\ UNCHANGED hand
     \/ Res!WaitEmpty(Responder) /\ UNCHANGED hand
     \/ Res!Pop(Responder) /\ hand' = [hand EXCEPT ![Responder] = Head(resData)]
     \/ Res!NotifyFull(Responder) /\ UNCHANGED hand
  /\ UNCHANGED <<reqQueue, helper, history>>

(* conn->reply_http(rr.req, rr.res)                                        *)
Reply ==
  /\ hand[Responder] # None
  /\ resPC[Responder] = "out"
  /\ replied' = Append(replied, hand[Responder])
  /\ hand' = [hand EXCEPT ![Responder] = None]
  /\ UNCHANGED <<reqQueue, resQueue, helper, accepted, spurious>>

-----------------------------------------------------------------------------

Spurious(t) ==
  /\ spurious < MaxSpurious
  /\ spurious' = spurious + 1
  /\ \/ t # Responder /\ Req!SpuriousWakeup(t) /\ UNCHANGED resQueue
     \/ t # Main /\ Res!SpuriousWakeup(t) /\ UNCHANGED reqQueue
  /\ UNCHANGED <<hand, helper, accepted, replied>>

Next ==
  \/ \E t \in Helper : Spawn(t)
  \/ Recv
  \/ MainEnqueues
  \/ \E w \in Worker : WorkerDequeues(w) \/ WorkerAnswers(w)
  \/ ResponderDequeues
  \/ Reply
  \/ \E t \in Thread : Spurious(t)

(* Every thread that can run keeps running.  Nothing is assumed about the  *)
(* arrival of requests, nor about who gets a contended mutex.              *)
Fairness ==
  /\ \A t \in Helper : WF_vars(Spawn(t))
  /\ WF_vars(MainEnqueues)
  /\ \A w \in Worker : WF_vars(WorkerDequeues(w)) /\ WF_vars(WorkerAnswers(w))
  /\ WF_vars(ResponderDequeues)
  /\ WF_vars(Reply)

Spec == Init /\ [][Next]_vars /\ Fairness

-----------------------------------------------------------------------------
(* Properties                                                              *)

(* Where a request is: in a thread's hand, in a queue, or answered.        *)
Positions(s, r) == {i \in DOMAIN s : s[i] = r}
Holders(r) == {t \in Thread : hand[t] = r}
Copies(r) == Cardinality(Holders(r)) + Cardinality(Positions(reqData, r))
               + Cardinality(Positions(resData, r)) + Cardinality(Positions(replied, r))

Running == {w \in Worker : helper[w] = "running"}

(* No request is lost, duplicated or answered twice on its way through     *)
(* main, __req_queue, a worker, __res_queue and the response thread.  And  *)
(* a burst is stopped at the socket: the server never holds more requests  *)
(* than its two queues, its running workers, main and the response thread  *)
(* can carry, and if no worker could be started it takes one request more  *)
(* than __req_queue holds and then stops receiving.                        *)
EachRequestInOnePlace ==
  /\ TypeOK
  /\ \A r \in Request : Copies(r) = IF r \in Range(accepted) THEN 1 ELSE 0
  /\ Len(accepted) - Len(replied) <= IF Running = {} THEN QueueCapacity + 1
                                     ELSE 2 * QueueCapacity + Cardinality(Running) + 2

(* With a single worker the answers leave in the order the requests came   *)
(* in; only several workers may overtake each other in conceptualize.      *)
SingleWorkerKeepsOrder ==
  Cardinality(Running) <= 1 => \A i \in DOMAIN replied : replied[i] = accepted[i]

(* If at least one worker and the response thread could be started, every  *)
(* request that was received is answered: the bounded queues cannot lock   *)
(* the three stages against each other.                                    *)
EveryRequestAnswered ==
  \A r \in Request :
    (r \in Range(accepted) /\ Running # {} /\ helper[Responder] = "running")
      ~> (r \in Range(replied))
=============================================================================
