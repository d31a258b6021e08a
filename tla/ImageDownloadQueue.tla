------------------------- MODULE ImageDownloadQueue -------------------------
(***************************************************************************)
(* The resizing of images: image_resizer_producer sends the names of the   *)
(* images that are not in the destination bucket to                        *)
(* image_download_queue_server, in batches; image_resizer_worker processes *)
(* take chunks of them and resize one after the other.  Every call opens   *)
(* the transport, asks, and closes it; on an exception producer and worker *)
(* sleep and try again WITHOUT closing it.                                 *)
(*                                                                         *)
(* Thrift is a library outside the repository.  A call may fail before the *)
(* server has served it or after; some errors close the socket, after the  *)
(* others open() refuses it for good (stuck).  The server keeps its queue  *)
(* in memory only.                                                         *)
(***************************************************************************)
EXTENDS Naturals, Sequences, SequencesExt, FiniteSetsExt, Functions

CONSTANTS
  Name,           (* the names of images                                   *)
  SourceLists,    (* what ls of the source bucket may return               *)
  Processed,      (* the names in the destination bucket                   *)
  BatchSize,      (* 10000: units per call of enqueue                      *)
  ChunkSize,      (* CHUNK_SIZE, 35                                        *)
  ResizeWorker,   (* worker processes                                      *)
  MaxFaults       (* bound: failed calls, stops of the server              *)

(* A bucket lists each of its images once.                                 *)
ASSUME ResizeAssumption ==
  /\ IsFiniteSet(Name) /\ IsFiniteSet(ResizeWorker) /\ Processed \subseteq Name
  /\ SourceLists \subseteq Seq(Name) /\ \A list \in SourceLists : IsInjective(list)
  /\ {BatchSize, ChunkSize} \subseteq Nat \ {0} /\ MaxFaults \in Nat

VARIABLES
  sourceFiles,    (* the names the producer has not looked at yet          *)
  units,          (* the units in its hand                                 *)
  counter,
  producer,       (* where it is                                           *)
  images,         (* __images of the server                                *)
  transport,      (* of each process                                       *)
  worker,         (* where each worker is                                  *)
  workUnits,      (* the units in its hand                                 *)
  gracefullyQuit,
  resized,        (* how often each image was worked on                    *)
  faults,         (* failed calls and stops so far                         *)
  wanted,         (* history: the images to send                           *)
  accepted,       (* history: how often the server accepted each           *)
  resent,         (* history: batches accepted without an answer           *)
  dropped         (* history: how often each was lost, by                  *)
                  (* "reply", "kill" or "stop"                             *)

producing == <<sourceFiles, units, counter, producer, wanted, accepted, resent>>
working == <<worker, workUnits, gracefullyQuit, resized>>
resizeVars == <<producing, working, images, transport, faults, dropped>>

Producer == "producer"
Occurrences(seq, n) == Cardinality({k \in DOMAIN seq : seq[k] = n})
Adding(count, seq) == [n \in Name |-> count[n] + Occurrences(seq, n)]
NoneOf == [n \in Name |-> 0]
Drop(cause, seq) == dropped' = [dropped EXCEPT ![cause] = Adding(@, seq)]

InitResize ==
  /\ sourceFiles \in SourceLists /\ wanted = ToSet(sourceFiles) \ Processed
  /\ units = <<>> /\ counter = 0 /\ producer = "scan"
  /\ images = <<>>
  /\ transport = [p \in ResizeWorker \cup {Producer} |-> "closed"]
  /\ worker = [w \in ResizeWorker |-> "ready"] /\ workUnits = [w \in ResizeWorker |-> <<>>]
  /\ gracefullyQuit = [w \in ResizeWorker |-> FALSE]
  /\ resized = NoneOf /\ accepted = NoneOf /\ resent = 0 /\ faults = 0
  /\ dropped = [cause \in {"reply", "kill", "stop"} |-> NoneOf]

(* An exception leaves the transport of p open or closed; if open, open()  *)
(* throws before anything is sent, every time.                             *)
Throws(p) ==
  /\ transport[p] = "closed" /\ faults < MaxFaults /\ faults' = faults + 1
  /\ \E after \in {"closed", "stuck"} : transport' = [transport EXCEPT ![p] = after]
Answered(p) == transport[p] = "closed" /\ UNCHANGED <<transport, faults>>

-----------------------------------------------------------------------------
(* The producer                                                            *)

ScanImage ==
  /\ producer = "scan"
  /\ IF sourceFiles = <<>> THEN producer' = "outer_retry" /\ UNCHANGED <<sourceFiles, units, counter>>
     ELSE LET name == Head(sourceFiles)
          IN  /\ sourceFiles' = Tail(sourceFiles)
              /\ IF name \in Processed THEN UNCHANGED <<units, counter, producer>>
                 ELSE /\ units' = Append(units, name)
                      /\ counter' = counter + 1
                      /\ producer' = IF (counter + 1) % BatchSize = 0 THEN "inner_retry" ELSE "scan"
  /\ UNCHANGED <<wanted, accepted, resent, working, images, transport, faults, dropped>>

(* The handler of enqueue in the server.                                   *)
ServeEnqueue == images' = images \o units /\ accepted' = Adding(accepted, units)

SentKeepingUnits ==                                            (* mutant *)
  /\ producer \in {"inner_retry", "outer_retry"} /\ Answered(Producer) /\ ServeEnqueue
  /\ producer' = IF producer = "inner_retry" THEN "scan" ELSE "done"
  /\ UNCHANGED <<sourceFiles, units, counter, wanted, resent, working, dropped>>
Sent ==
  /\ producer \in {"inner_retry", "outer_retry"}
  /\ Answered(Producer) /\ ServeEnqueue
  /\ IF producer = "inner_retry" THEN producer' = "scan" /\ units' = <<>>
     ELSE producer' = "done" /\ UNCHANGED units
  /\ UNCHANGED <<sourceFiles, counter, wanted, resent, working, dropped>>

(* The retry sends the same units again.                                   *)
SendFails ==
  /\ producer \in {"inner_retry", "outer_retry"}
  /\ Throws(Producer)
  /\ \/ UNCHANGED <<images, accepted, resent>>
     \/ ServeEnqueue /\ resent' = resent + 1
  /\ UNCHANGED <<sourceFiles, units, counter, producer, wanted, working, dropped>>

-----------------------------------------------------------------------------
(* The server stops, and is started again with an empty queue.             *)
ServerRestarts ==
  /\ faults < MaxFaults /\ faults' = faults + 1
  /\ images # <<>> /\ images' = <<>>
  /\ Drop("stop", images)
  /\ UNCHANGED <<producing, working, transport>>

-----------------------------------------------------------------------------
(* A worker                                                                *)

(* The handler of dequeue: up to CHUNK_SIZE units.                         *)
ChunkOf(seq) == SubSeq(seq, 1, Min({ChunkSize, Len(seq)}))
ServeDequeue == images' = SubSeq(images, Len(ChunkOf(images)) + 1, Len(images))

Quit(w) ==
  /\ worker[w] = "ready" /\ gracefullyQuit[w]
  /\ worker' = [worker EXCEPT ![w] = "exited"]
  /\ UNCHANGED <<producing, workUnits, gracefullyQuit, resized, images, transport, faults, dropped>>

DequeueUnits(w) ==
  /\ worker[w] = "ready" /\ ~gracefullyQuit[w]
  /\ Answered(w) /\ ServeDequeue
  /\ workUnits' = [workUnits EXCEPT ![w] = ChunkOf(images)]
  /\ worker' = [worker EXCEPT ![w] = IF images = <<>> THEN "ready" ELSE "work"]
  /\ UNCHANGED <<producing, gracefullyQuit, resized, dropped>>

DequeueFails(w) ==
  /\ worker[w] = "ready" /\ ~gracefullyQuit[w]
  /\ Throws(w)
  /\ \/ UNCHANGED <<images, dropped>>
     \/ ServeDequeue /\ Drop("reply", ChunkOf(images))
  /\ UNCHANGED <<producing, working>>

(* get, resize, and no put: it is commented out.                           *)
ResizeImage(w) ==
  /\ worker[w] = "work"
  /\ resized' = Adding(resized, <<Head(workUnits[w])>>)
  /\ workUnits' = [workUnits EXCEPT ![w] = Tail(@)]
  /\ worker' = [worker EXCEPT ![w] = IF Len(workUnits[w]) = 1 THEN "ready" ELSE "work"]
  /\ UNCHANGED <<producing, gracefullyQuit, images, transport, faults, dropped>>

(* handle_sigint: the second signal ends the process at once.              *)
Interrupt(w) ==
  /\ worker[w] # "exited"
  /\ IF gracefullyQuit[w]
     THEN /\ worker' = [worker EXCEPT ![w] = "exited"]
          /\ workUnits' = [workUnits EXCEPT ![w] = <<>>]
          /\ Drop("kill", workUnits[w])
          /\ UNCHANGED gracefullyQuit
     ELSE /\ gracefullyQuit' = [gracefullyQuit EXCEPT ![w] = TRUE]
          /\ UNCHANGED <<worker, workUnits, dropped>>
  /\ UNCHANGED <<producing, resized, images, transport, faults>>

(* Both signals during a call of dequeue: the server has taken the chunk   *)
(* off its queue, and the process ends before it has the answer.  Had the  *)
(* first come before the call, there would be none (Quit).                 *)
InterruptInCall(w) ==
  /\ worker[w] = "ready" /\ ~gracefullyQuit[w] /\ transport[w] = "closed"
  /\ ServeDequeue /\ Drop("kill", ChunkOf(images))
  /\ worker' = [worker EXCEPT ![w] = "exited"]
  /\ gracefullyQuit' = [gracefullyQuit EXCEPT ![w] = TRUE]
  /\ UNCHANGED <<producing, workUnits, resized, transport, faults>>

NextResize ==
  \/ ScanImage \/ Sent \/ SendFails \/ ServerRestarts
  \/ \E w \in ResizeWorker :
       \/ Quit(w) \/ DequeueUnits(w) \/ DequeueFails(w) \/ ResizeImage(w)
       \/ Interrupt(w) \/ InterruptInCall(w)

-----------------------------------------------------------------------------
(* Properties                                                              *)

Sum(count) == MapThenSumSet(LAMBDA n : count[n], Name)
InHand(n) == MapThenSumSet(LAMBDA w : Occurrences(workUnits[w], n), ResizeWorker)

(* The server gets every image that is not in the destination bucket, no   *)
(* other, and no more often than one time and once for each call whose     *)
(* answer was lost; what it got is in its queue, with a worker, resized,   *)
(* or lost by a failed answer, a worker interrupted twice, in the middle   *)
(* of a call too, or a stop of the server, at most a chunk for each of the *)
(* first two; and a worker that is interrupted once loses nothing.         *)
UnitsAccounted ==
  /\ \A n \in Name :
       /\ accepted[n] = Occurrences(images, n) + InHand(n) + resized[n]
                         + dropped["reply"][n] + dropped["kill"][n] + dropped["stop"][n]
       /\ accepted[n] <= IF n \in wanted THEN 1 + resent ELSE 0
       /\ producer = "done" /\ n \in wanted => accepted[n] > 0
  /\ Sum(dropped["reply"]) <= ChunkSize * (faults - resent)
  /\ Sum(dropped["kill"]) <= ChunkSize * Cardinality({w \in ResizeWorker : worker[w] = "exited"})
  /\ \A w \in ResizeWorker : worker[w] = "exited" => workUnits[w] = <<>>
=============================================================================
