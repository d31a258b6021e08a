--------------------------- MODULE PageParseQueue ---------------------------
(***************************************************************************)
(* The wiki-text pipeline of c/wikipedia: page_parse_enqueuer reads a dump *)
(* and sends its pages in batches to page_parse_queue_server, from which   *)
(* any number of page_parse_dequeuers fetch chunks and import them.        *)
(*                                                                         *)
(* The server is a Thrift TSimpleServer: it serves one connection at a     *)
(* time, in the order the clients connected, until that client closes it.  *)
(* A connection whose client has given up stays in that line with its      *)
(* request already sent, and is served like any other; only its reply      *)
(* reaches nobody.                                                         *)
(***************************************************************************)
EXTENDS Naturals, Sequences, FiniteSets, SequencesExt

CONSTANTS
  NumPages,     (* the dump holds the pages 1..NumPages                     *)
  BatchSize,    (* pages per enqueue call, 1000 in the enqueuer             *)
  ChunkSize,    (* CHUNK_SIZE of the server, 1000                           *)
  QueueSize,    (* QUEUE_SIZE of the server, 50000                          *)
  Enqueuer,     (* the one enqueuer process                                 *)
  Dequeuer,     (* the dequeuer processes                                   *)
  Nothing,      (* no connection, no reply                                  *)
  MaxFailures,  (* bound: connections refused or broken in a behaviour      *)
  MaxTimeouts,  (* bound: receive time-outs of dequeuers in a behaviour     *)
  MaxSignals,   (* bound: SIGINTs of all processes in a behaviour           *)
  MaxFaults     (* bound: all of the above together                         *)

ASSUME PipelineAssumption ==
  /\ NumPages \in Nat
  /\ {BatchSize, ChunkSize, QueueSize} \subseteq Nat \ {0}
  /\ {MaxFailures, MaxTimeouts, MaxSignals, MaxFaults} \subseteq Nat
  /\ Enqueuer \notin Dequeuer

Client == Dequeuer \cup {Enqueuer}
Page == 1..NumPages

VARIABLES
  rawPages,    (* the server's raw_pages_                                   *)
  backlog,     (* connections accept() has not returned yet, oldest first   *)
  serving,     (* the connection being served, or Nothing                   *)
  reply,       (* the answer on its way to each client, or Nothing          *)
  phase,       (* where each client is in its loop                          *)
  pages,       (* the enqueuer's vector / each dequeuer's work_units        *)
  nextPage,    (* the enqueuer's place in the dump                          *)
  signals,     (* SIGINTs each client has received                          *)
  given,       (* history: pages append_page took into a batch              *)
  accepted,    (* history: pages the server has enqueued                    *)
  imported,    (* history: pages each dequeuer has handled, in order        *)
  failures,    (* connections refused or broken so far                      *)
  timeouts     (* receive time-outs so far                                  *)

server == <<rawPages, backlog, serving, accepted>>
counts == <<failures, timeouts>>
batches == <<phase, pages, nextPage, given>>
vars == <<server, reply, batches, signals, imported, counts>>

Conn == [client : Client, body : Seq(Page), live : BOOLEAN, answered : BOOLEAN]
Answer == [full : BOOLEAN, body : Seq(Page)]
Phase == {"run", "connect", "wait", "handle", "exit"}

(* Nothing is no connection and no answer, whatever pages they carry.      *)
ASSUME NothingAssumption ==
  Nothing \notin [client : Client, body : Seq(Nat), live : BOOLEAN, answered : BOOLEAN]
                   \cup [full : BOOLEAN, body : Seq(Nat)]

TypeOK ==
  /\ rawPages \in Seq(Page)
  /\ Len(rawPages) <= QueueSize
  /\ backlog \in Seq(Conn)
  /\ serving \in Conn \cup {Nothing}
  /\ reply \in [Client -> Answer \cup {Nothing}]
  /\ phase \in [Client -> Phase]
  /\ pages \in [Client -> Seq(Page)]
  /\ Len(pages[Enqueuer]) <= BatchSize
  /\ \A d \in Dequeuer : Len(pages[d]) <= ChunkSize
  /\ nextPage \in 1..NumPages + 1
  /\ signals \in [Client -> 0..2]
  /\ accepted \subseteq given /\ given \subseteq Page
  /\ imported \in [Dequeuer -> Seq(Page)]
  /\ failures \in 0..MaxFailures
  /\ timeouts \in 0..MaxTimeouts

Init ==
  /\ rawPages = <<>> /\ backlog = <<>> /\ serving = Nothing
  /\ reply = [c \in Client |-> Nothing]
  /\ phase = [c \in Client |-> IF c = Enqueuer THEN "run" ELSE "connect"]
  /\ pages = [c \in Client |-> <<>>]
  /\ nextPage = 1
  /\ signals = [c \in Client |-> 0]
  /\ accepted = {} /\ given = {}
  /\ imported = [d \in Dequeuer |-> <<>>]
  /\ failures = 0 /\ timeouts = 0

-----------------------------------------------------------------------------
(* Thrift connections, as both clients use them                            *)

(* transport->open() and the request: the connection joins the line.       *)
Connect(c) ==
  /\ backlog' = Append(backlog, [client |-> c, live |-> TRUE, answered |-> FALSE,
                                 body |-> IF c = Enqueuer THEN pages[c] ELSE <<>>])
  /\ phase' = [phase EXCEPT ![c] = "wait"]
  /\ UNCHANGED <<rawPages, serving, accepted, reply>>

(* transport->close(), or the end of the process.                          *)
Dead(conn, c) == IF conn.client = c THEN [conn EXCEPT !.live = FALSE] ELSE conn
Disconnect(c) ==
  /\ backlog' = [i \in DOMAIN backlog |-> Dead(backlog[i], c)]
  /\ serving' = IF serving = Nothing THEN Nothing ELSE Dead(serving, c)
  /\ reply' = [reply EXCEPT ![c] = Nothing]
  /\ UNCHANGED <<rawPages, accepted>>

FaultsLeft == SumFunction(signals) + failures + timeouts < MaxFaults

NoCall == UNCHANGED <<server, reply>>

-----------------------------------------------------------------------------
(* page_parse_queue_server                                                 *)

Accept ==
  /\ serving = Nothing
  /\ backlog # <<>>
  /\ serving' = Head(backlog)
  /\ backlog' = Tail(backlog)
  /\ UNCHANGED <<rawPages, accepted, reply, batches, signals, imported, counts>>

(* The reply is written; a client that has gone never reads it.            *)
AnswerWith(answer) ==
  /\ serving' = [serving EXCEPT !.answered = TRUE]
  /\ reply' = IF serving.live THEN [reply EXCEPT ![serving.client] = answer] ELSE reply
  /\ UNCHANGED <<backlog, batches, signals, imported, counts>>

Asked(client) == serving # Nothing /\ ~serving.answered /\ serving.client = client
Amount == IF Len(rawPages) > ChunkSize THEN ChunkSize ELSE Len(rawPages)

(* PageParseQueueHandler::dequeue                                          *)
HandleDequeue(d) ==
  /\ Asked(d)
  /\ rawPages' = SubSeq(rawPages, Amount + 1, Len(rawPages))
  /\ UNCHANGED accepted
  /\ AnswerWith([full |-> FALSE, body |-> SubSeq(rawPages, 1, Amount)])

(* PageParseQueueHandler::enqueue takes the whole batch or, with a         *)
(* QueueFullException, nothing.                                            *)
Full(batch) == Len(rawPages) + Len(batch) > QueueSize

EnqueuePartly ==                                               (* mutant *)
  LET room == QueueSize - Len(rawPages)
      batch == IF Full(serving.body) THEN SubSeq(serving.body, 1, room) ELSE serving.body
  IN  /\ Asked(Enqueuer)
      /\ rawPages' = rawPages \o batch
      /\ accepted' = accepted \cup ToSet(batch)
      /\ AnswerWith([full |-> Full(serving.body), body |-> <<>>])

HandleEnqueue ==
  LET batch == IF Full(serving.body) THEN <<>> ELSE serving.body
  IN  /\ Asked(Enqueuer)
      /\ rawPages' = rawPages \o batch
      /\ accepted' = accepted \cup ToSet(batch)
      /\ AnswerWith([full |-> Full(serving.body), body |-> <<>>])

(* TSimpleServer leaves a connection when its client has closed it.        *)
Hangup ==
  /\ serving # Nothing /\ serving.answered /\ ~serving.live
  /\ serving' = Nothing
  /\ UNCHANGED <<rawPages, backlog, accepted, reply, batches, signals, imported,
                 counts>>

-----------------------------------------------------------------------------
(* page_parse_enqueuer.  Its SIGINT flag is set but never read.            *)

(* append_page on the next page of the dump, which useful_title may reject. *)
AppendPage(useful) ==
  LET batch == IF useful THEN Append(pages[Enqueuer], nextPage) ELSE pages[Enqueuer]
  IN  /\ phase[Enqueuer] = "run"
      /\ nextPage <= NumPages
      /\ nextPage' = nextPage + 1
      /\ given' = IF useful THEN given \cup {nextPage} ELSE given
      /\ pages' = [pages EXCEPT ![Enqueuer] = batch]
      /\ phase' = [phase EXCEPT ![Enqueuer] =
                     IF Len(batch) = BatchSize THEN "connect" ELSE "run"]
      /\ NoCall
      /\ UNCHANGED <<signals, imported, counts>>

(* The dump is finished: main sends what is left, if only an empty batch.  *)
LastBatch ==
  /\ phase[Enqueuer] = "run"
  /\ nextPage = NumPages + 1
  /\ phase' = [phase EXCEPT ![Enqueuer] = "connect"]
  /\ NoCall
  /\ UNCHANGED <<pages, nextPage, given, signals, imported, counts>>

EnqueuerCalls ==
  /\ phase[Enqueuer] = "connect"
  /\ Connect(Enqueuer)
  /\ UNCHANGED <<pages, nextPage, given, signals, imported, counts>>

(* enqueue() returns: the batch is cleared and the dump goes on, except    *)
(* that main exits after its last call, the only one with a short batch.   *)
BatchDone ==
  /\ pages' = [pages EXCEPT ![Enqueuer] = <<>>]
  /\ phase' = [phase EXCEPT ![Enqueuer] =
                 IF nextPage > NumPages /\ Len(pages[Enqueuer]) < BatchSize
                 THEN "exit" ELSE "run"]
  /\ UNCHANGED <<nextPage, given, signals, imported, timeouts>>

EnqueuerReturnsHolding ==                                      (* mutant *)
  /\ phase[Enqueuer] = "wait"
  /\ reply[Enqueuer] # Nothing
  /\ \/ /\ ~reply[Enqueuer].full
        /\ Disconnect(Enqueuer)
        /\ BatchDone
        /\ UNCHANGED failures
     \/ /\ reply[Enqueuer].full
        /\ reply' = [reply EXCEPT ![Enqueuer] = Nothing]
        /\ phase' = [phase EXCEPT ![Enqueuer] = "connect"]
        /\ UNCHANGED <<server, pages, nextPage, given, signals, imported, counts>>

(* The reply: on QueueFullException close, sleep and retry the same batch. *)
EnqueuerReturns ==
  /\ phase[Enqueuer] = "wait"
  /\ reply[Enqueuer] # Nothing
  /\ Disconnect(Enqueuer)
  /\ \/ /\ ~reply[Enqueuer].full
        /\ BatchDone
        /\ UNCHANGED failures
     \/ /\ reply[Enqueuer].full
        /\ phase' = [phase EXCEPT ![Enqueuer] = "connect"]
        /\ UNCHANGED <<pages, nextPage, given, signals, imported, counts>>

(* Any other TException is printed as "Sleeping for 10s before retry", and *)
(* then enqueue() returns.  The connection was refused, or broke while the *)
(* enqueuer waited for the reply.                                          *)
EnqueuerFails ==
  /\ FaultsLeft
  /\ failures < MaxFailures
  /\ failures' = failures + 1
  /\ \/ phase[Enqueuer] = "connect" /\ NoCall
     \/ phase[Enqueuer] = "wait" /\ Disconnect(Enqueuer)
  /\ BatchDone

-----------------------------------------------------------------------------
(* page_parse_dequeuer                                                     *)

(* The top of the loop: quit if SIGINT came, else call client.dequeue.     *)
DequeuerCalls(d) ==
  /\ phase[d] = "connect"
  /\ \/ /\ signals[d] >= 1
        /\ phase' = [phase EXCEPT ![d] = "exit"]
        /\ NoCall
     \/ /\ signals[d] = 0
        /\ Connect(d)
  /\ UNCHANGED <<pages, nextPage, given, signals, imported, counts>>

DequeuerReceives(d) ==
  /\ phase[d] = "wait"
  /\ reply[d] # Nothing
  /\ Disconnect(d)
  /\ pages' = [pages EXCEPT ![d] = reply[d].body]
  /\ phase' = [phase EXCEPT ![d] = IF reply[d].body = <<>> THEN "connect" ELSE "handle"]
  /\ UNCHANGED <<nextPage, given, signals, imported, counts>>

HandlePageOrQuit(d) ==                                         (* mutant *)
  /\ phase[d] = "handle"
  /\ imported' = [imported EXCEPT ![d] = Append(@, Head(pages[d]))]
  /\ pages' = [pages EXCEPT ![d] = Tail(@)]
  /\ phase' = [phase EXCEPT ![d] = IF signals[d] = 1 THEN "exit"
                                   ELSE IF Len(pages[d]) = 1 THEN "connect" ELSE "handle"]
  /\ NoCall
  /\ UNCHANGED <<nextPage, given, signals, counts>>

(* handle_raw_page on the next of work_units.                              *)
HandlePage(d) ==
  /\ phase[d] = "handle"
  /\ imported' = [imported EXCEPT ![d] = Append(@, Head(pages[d]))]
  /\ pages' = [pages EXCEPT ![d] = Tail(@)]
  /\ phase' = [phase EXCEPT ![d] = IF Len(pages[d]) = 1 THEN "connect" ELSE "handle"]
  /\ NoCall
  /\ UNCHANGED <<nextPage, given, signals, counts>>

(* TException: nobody listens, or one second passed without the reply.     *)
(* Close, sleep, and go round the loop again.                              *)
DequeuerFails(d) ==
  /\ FaultsLeft
  /\ \/ /\ phase[d] = "connect" /\ signals[d] = 0
        /\ failures < MaxFailures
        /\ failures' = failures + 1
        /\ NoCall
        /\ UNCHANGED timeouts
     \/ /\ phase[d] = "wait"
        /\ timeouts < MaxTimeouts
        /\ timeouts' = timeouts + 1
        /\ Disconnect(d)
        /\ UNCHANGED failures
  /\ phase' = [phase EXCEPT ![d] = "connect"]
  /\ UNCHANGED <<pages, nextPage, given, signals, imported>>

-----------------------------------------------------------------------------
(* handle_sigint: the first one sets a flag, the second one is exit(0).    *)
Sigint(c) ==
  /\ phase[c] # "exit"
  /\ FaultsLeft
  /\ SumFunction(signals) < MaxSignals
  /\ signals' = [signals EXCEPT ![c] = @ + 1]
  /\ \/ signals[c] = 0 /\ NoCall /\ UNCHANGED phase
     \/ signals[c] = 1 /\ Disconnect(c) /\ phase' = [phase EXCEPT ![c] = "exit"]
  /\ UNCHANGED <<pages, nextPage, given, imported, counts>>

ServerStep ==
  Accept \/ (\E d \in Dequeuer : HandleDequeue(d)) \/ HandleEnqueue \/ Hangup
EnqueuerStep ==
  (\E useful \in BOOLEAN : AppendPage(useful)) \/ LastBatch \/ EnqueuerCalls \/ EnqueuerReturns
DequeuerStep(d) == DequeuerCalls(d) \/ DequeuerReceives(d) \/ HandlePage(d)

Next ==
  \/ ServerStep
  \/ EnqueuerStep
  \/ EnqueuerFails
  \/ \E d \in Dequeuer : DequeuerStep(d) \/ DequeuerFails(d)
  \/ \E c \in Client : Sigint(c)

(* The processes keep running; failures, time-outs and signals need not    *)
(* ever happen.                                                            *)
Fairness ==
  /\ WF_vars(ServerStep)
  /\ WF_vars(EnqueuerStep)
  /\ \A d \in Dequeuer : WF_vars(DequeuerStep(d))

Spec == Init /\ [][Next]_vars /\ Fairness
-----------------------------------------------------------------------------
(* Properties                                                              *)

(* The pages a dequeuer has, had, or is being sent, oldest first.          *)
OnItsWay(d) == IF reply[d] = Nothing THEN <<>> ELSE reply[d].body
Got(d) == imported[d] \o pages[d] \o OnItsWay(d)

Increasing(s) == \A i, j \in DOMAIN s : i < j => s[i] < s[j]

(* No page is imported twice, whatever is retried, timed out or abandoned: *)
(* an accepted page is in the queue or with at most one dequeuer, once.    *)
(* The server hands the pages out in the order of the dump, also to each   *)
(* dequeuer.                                                               *)
AtMostOnceInDumpOrder ==
  /\ Increasing(rawPages)
  /\ \A d \in Dequeuer :
       /\ Increasing(Got(d))
       /\ ToSet(Got(d)) \cap ToSet(rawPages) = {}
       /\ \A e \in Dequeuer \ {d} : ToSet(Got(d)) \cap ToSet(Got(e)) = {}

(* Pages the server accepted that nobody has any more.                     *)
Kept(d) == IF phase[d] # "exit" THEN Got(d) ELSE imported[d]
Lost == accepted \ (ToSet(rawPages) \cup UNION {ToSet(Kept(d)) : d \in Dequeuer})
Killed == {d \in Dequeuer : signals[d] = 2}

NeverSent == given \ (accepted \cup (IF phase[Enqueuer] = "exit" THEN {} ELSE ToSet(pages[Enqueuer])))
Stopped(c) == IF signals[c] = 2 THEN 1 ELSE 0

(* What the pipeline loses it loses by the chunk and by the batch: a chunk *)
(* for each dequeue call given up after its time-out and for each dequeuer *)
(* killed by a second SIGINT, and a batch for each enqueue call that fails *)
(* (the enqueuer announces a retry, but goes on) or is killed.  Nothing    *)
(* else loses a page, and in particular not the first SIGINT, a full       *)
(* queue, a refused dequeue, or the line in which abandoned connections    *)
(* wait to be served.                                                      *)
BoundedLoss ==
  /\ TypeOK
  /\ Cardinality(Lost) <= ChunkSize * (timeouts + Cardinality(Killed))
  /\ Cardinality(NeverSent) <= BatchSize * (failures + Stopped(Enqueuer))

(* As long as one dequeuer stays, the enqueuer gets through the dump,      *)
(* although the queue is full from time to time, and every page the server *)
(* accepted is imported, but for those BoundedLoss speaks of.              *)
Imported == UNION {ToSet(imported[d]) : d \in Dequeuer}
PipelineDrains ==
  <>[](\/ \A d \in Dequeuer : phase[d] = "exit"
       \/ phase[Enqueuer] = "exit" /\ accepted \subseteq Imported \cup Lost)
=============================================================================
