-------------------------- MODULE RelationshipClient --------------------------
(***************************************************************************)
(* RelationshipClient of c/relationship_client: a call opens a connection, *)
(* sends one request, reads the reply, and returns.  It works with 32-bit  *)
(* words; send and recv may do part of what they are asked for, and the    *)
(* connection may break at any time.                                       *)
(*                                                                         *)
(* The server's network part is not in the repository: a request is        *)
(* <<payload size, operation>> and ids, the reply <<payload size, status>> *)
(* and the close sites or the triples of the distances.  Sizes are counted *)
(* in words here.                                                          *)
(***************************************************************************)
EXTENDS Naturals, Sequences, FiniteSets, SequencesExt, FiniteSetsExt

CONSTANTS
  ClientCalls,    (* the calls: [op, ids], op one of "sites_close_to",     *)
                  (* "distances" (of a vector) and "distances_raw"         *)
  NearSites,      (* what the server knows: of each id, a sequence of ids  *)
  PairDistances,  (* and a sequence of triples <<id, larger id, distance>> *)
  HeapWords,      (* the words malloc may find in its memory               *)
  FdLimit,        (* descriptors a process may have open                   *)
  MaxCalls        (* bound: calls in a behaviour                           *)

ASSUME ClientAssumption ==
  /\ \A c \in ClientCalls : c.ids \in Seq(Nat)
  /\ \A id \in DOMAIN NearSites : NearSites[id] \in Seq(Nat)
  /\ PairDistances \in Seq(Nat \X Nat \X Nat)
  /\ HeapWords \subseteq Nat

VARIABLES
  call, calls,    (* the current call, and the number of calls             *)
  client,         (* where the program is                                  *)
  fds,            (* the open descriptors                                  *)
  connection,     (* "none", "up" or "broken"                              *)
  toSend,         (* the words not yet sent                                *)
  request,        (* the words the server has read                         *)
  reply,          (* the words on their way to the client                  *)
  buffer,         (* the words buffered_read has read                      *)
  results,        (* what the call returned                                *)
  disturbed       (* history: something went wrong in this call            *)

clientVars == <<call, calls, client, fds, connection, toSend, request, reply, buffer, results, disturbed>>
stream == <<connection, toSend, request, reply, buffer>>

InitClient ==
  /\ call = [op |-> "none", ids |-> <<>>] /\ calls = 0 /\ client = "idle"
  /\ fds = 0 /\ connection = "none" /\ toSend = <<>> /\ request = <<>> /\ reply = <<>>
  /\ buffer = <<>> /\ results = <<>> /\ disturbed = FALSE

-----------------------------------------------------------------------------
(* The server, for requests that have arrived whole.                       *)

Operation(op) == IF op = "sites_close_to" THEN 2 ELSE 1
CloseTo2(ids) == IF Len(ids) = 1 /\ ids[1] \in DOMAIN NearSites THEN NearSites[ids[1]] ELSE <<>>
TriplesAmong(ids) ==
  FoldLeft(LAMBDA found, t : IF {t[1], t[2]} \subseteq ToSet(ids) THEN found \o t ELSE found, <<>>, PairDistances)
AnswerTo(operation, ids) == IF operation = 2 THEN CloseTo2(ids) ELSE TriplesAmong(ids)

ServeRequest ==
  /\ connection = "up" /\ reply = <<>> /\ buffer = <<>>
  /\ Len(request) >= 2 /\ Len(request) = request[1] + 2
  /\ LET answer == AnswerTo(request[2], SubSeq(request, 3, Len(request)))
     IN  reply' = <<Len(answer), 0>> \o answer
  /\ request' = <<>>
  /\ UNCHANGED <<call, calls, client, fds, connection, toSend, buffer, results, disturbed>>
ConnectionBreaks ==
  /\ connection = "up" /\ connection' = "broken"
  /\ disturbed' = TRUE
  /\ \E left \in {<<>>, reply} : reply' = left
  /\ UNCHANGED <<call, calls, client, fds, toSend, request, buffer, results>>

-----------------------------------------------------------------------------
(* The calls                                                               *)

Return(what, close) ==
  /\ client' = "idle" /\ results' = what
  /\ fds' = IF close THEN fds - 1 ELSE fds
  /\ connection' = "none" /\ toSend' = <<>> /\ request' = <<>> /\ reply' = <<>> /\ buffer' = <<>>

(* distances_raw needs no server for fewer than two ids.                   *)
Call(c) ==
  /\ client = "idle" /\ calls < MaxCalls /\ calls' = calls + 1
  /\ call' = c /\ disturbed' = FALSE /\ results' = <<>>
  /\ client' = IF c.op = "distances_raw" /\ Len(c.ids) < 2 THEN "idle" ELSE "net_connect"
  /\ UNCHANGED <<fds, stream>>

(* The ids without duplicates, in the order of a hash set.  distances of a *)
(* vector writes each of them over the one before: it never counts, and    *)
(* leaves the rest of the message as malloc found it.                      *)
Payloads(c) ==
  LET dups == ToSet(c.ids)
      places == 1..Cardinality(dups)
      orders == {s \in [places -> dups] : ToSet(s) = dups}
  IN  IF c.op # "distances" THEN orders
      ELSE {[n \in places |-> IF n = 1 THEN s[Len(s)] ELSE heap[n]] : s \in orders, heap \in [places -> HeapWords]}

(* A failure in net_connect, such as the want of a descriptor, ends the    *)
(* program; so does the id 0, the empty key of the hash set.               *)
NetConnect ==
  /\ client = "net_connect"
  /\ IF fds < FdLimit /\ (0 \notin ToSet(call.ids) \/ call.op = "sites_close_to")
     THEN /\ fds' = fds + 1 /\ connection' = "up" /\ client' = "buffered_write"
          /\ \E payload \in Payloads(call) : toSend' = <<Len(payload), Operation(call.op)>> \o payload
     ELSE client' = "exited" /\ UNCHANGED <<fds, connection, toSend>>
  /\ UNCHANGED <<call, calls, request, reply, buffer, results, disturbed>>
ConnectFails ==
  /\ client = "net_connect" /\ client' = "exited"
  /\ disturbed' = TRUE
  /\ UNCHANGED <<call, calls, fds, stream, results>>

BufferedWrite ==
  /\ client = "buffered_write" /\ connection = "up"
  /\ \E n \in 1..Len(toSend) :
       /\ request' = request \o SubSeq(toSend, 1, n)
       /\ toSend' = SubSeq(toSend, n + 1, Len(toSend))
       /\ client' = IF n = Len(toSend) THEN "header" ELSE "buffered_write"
  /\ UNCHANGED <<call, calls, fds, connection, reply, buffer, results, disturbed>>
(* Only distances_raw gives up; the other two go on to read.  A program    *)
(* that does not ignore SIGPIPE ends here.                                 *)
WriteFails ==
  /\ client = "buffered_write" /\ connection = "broken"
  /\ \/ IF call.op = "distances_raw" THEN Return(<<>>, FALSE)
        ELSE client' = "header" /\ UNCHANGED <<fds, stream, results>>
     \/ client' = "exited" /\ UNCHANGED <<fds, stream, results>>
  /\ UNCHANGED <<call, calls, disturbed>>

(* buffered_read of the header and of the payload.                         *)
Expected == IF client = "header" THEN 2 ELSE buffer[1] + 2
ReadAllOnce(words) == words # <<>>                             (* mutant *)
ReadAll(words) == Len(words) = Expected
BufferedRead ==
  /\ client \in {"header", "payload"} /\ reply # <<>>
  /\ \E n \in 1..Min({Len(reply), Expected - Len(buffer)}) :
       LET words == buffer \o SubSeq(reply, 1, n)
       IN  IF ~ReadAll(words)
           THEN /\ buffer' = words /\ reply' = SubSeq(reply, n + 1, Len(reply))
                /\ UNCHANGED <<client, fds, connection, toSend, request, results>>
           ELSE IF client = "header" /\ words[1] > 0
           THEN /\ client' = "payload"
                /\ buffer' = words /\ reply' = SubSeq(reply, n + 1, Len(reply))
                /\ UNCHANGED <<fds, connection, toSend, request, results>>
           ELSE Return(SubSeq(words, 3, Len(words)), call.op = "distances_raw")
  /\ UNCHANGED <<call, calls, disturbed>>
ReadFails ==
  /\ client \in {"header", "payload"} /\ connection = "broken"
  /\ Return(<<>>, FALSE)
  /\ UNCHANGED <<call, calls, disturbed>>

NextClient ==
  \/ (\E c \in ClientCalls : Call(c))
  \/ NetConnect \/ ConnectFails \/ BufferedWrite \/ WriteFails \/ BufferedRead \/ ReadFails
  \/ ServeRequest \/ ConnectionBreaks

-----------------------------------------------------------------------------
(* Properties                                                              *)

(* However send and recv cut the streams, a call that is not disturbed     *)
(* returns all that the server has for a request the call sends, and a     *)
(* disturbed one that or nothing, never a part.  That is the answer for    *)
(* the ids the call was given, repeated or not, when the request carries   *)
(* them: distances of a vector of several sends one of them and garbage.   *)
(* The descriptors never exceed the calls, and distances_raw leaves its    *)
(* own open only when it is disturbed.                                     *)
Answers(c) ==
  IF c.op = "distances_raw" /\ Len(c.ids) < 2 THEN {<<>>}
  ELSE {AnswerTo(Operation(c.op), payload) : payload \in Payloads(c)}
Carried(c) == c.op # "distances" \/ Cardinality(ToSet(c.ids)) <= 1
ClientGetsWholeAnswer ==
  /\ client = "idle" /\ calls > 0 =>
       \/ /\ results \in Answers(call)
          /\ Carried(call) => results = IF call.op = "distances_raw" /\ Len(call.ids) < 2 THEN <<>>
                                        ELSE AnswerTo(Operation(call.op), SetToSeq(ToSet(call.ids)))
       \/ disturbed /\ results = <<>>
  /\ fds <= calls
  /\ calls = 1 /\ client = "idle" /\ call.op = "distances_raw" /\ ~disturbed => fds = 0
=============================================================================
