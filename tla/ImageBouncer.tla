---------------------------- MODULE ImageBouncer ----------------------------
(***************************************************************************)
(* c/wikipedia/wikipedia_image_bouncer.cpp: main puts every image that is  *)
(* not in S3 yet on __download_q, download threads fetch the images and    *)
(* put them on __upload_q, one thread uploads them, one reports.  Nobody   *)
(* tells the threads that there is no more work: a download thread ends    *)
(* when it finds its queue empty, the upload thread when it has found its  *)
(* queue empty and then finds that main has joined the download threads.   *)
(*                                                                         *)
(* The queues are those of a library outside the repository: dequeue       *)
(* throws QueueEmptyException on an empty queue, and enqueue waits while a *)
(* queue with a capacity is full.  The flags are plain globals, read and   *)
(* written without a lock; every read is from memory, as each loop calls   *)
(* functions the compiler cannot see through.                              *)
(***************************************************************************)
EXTENDS Naturals, Sequences, FiniteSets, SequencesExt

CONSTANTS
  Url,          (* image paths                                             *)
  TupleLists,   (* the paths __tim->map may call back with, in order       *)
  Downloader,   (* the download threads                                    *)
  UploadLimit,  (* the capacity of __upload_q, 1000                        *)
  None

ASSUME BouncerAssumption ==
  /\ TupleLists \subseteq Seq(Url)
  /\ UploadLimit \in Nat \ {0} /\ Downloader # {}
  /\ None \notin Url \cup Downloader

VARIABLES
  tuples,        (* the paths main has not looked at yet                   *)
  s3,            (* what the bucket holds                                  *)
  keySet,        (* __key_set: what it held when main started              *)
  nameSet,       (* __image_name_set                                       *)
  downloadQ, uploadQ,
  image,         (* img of each download thread, None outside the loop     *)
  uploading,     (* image of the upload thread                             *)
  disk,          (* the files written                                      *)
  pc,            (* of the download threads                                *)
  uploadPc, statusPc, mainPc,
  downloadComplete, uploadComplete,
  counts,        (* success_count, failure_count                           *)
  mutex,         (* the owners of success_m and failure_m                  *)
  read,          (* the value of a count a thread is incrementing          *)
  failed,        (* history: the images given up                           *)
  late           (* history: put on __upload_q since the upload thread     *)
                 (* last turned from it to download_complete               *)

queues == <<downloadQ, uploadQ>>
upload == <<uploading, uploadPc, s3, uploadComplete>>
main == <<tuples, keySet, nameSet, mainPc, downloadComplete>>
tallies == <<counts, mutex, read>>
vars == <<main, queues, image, disk, pc, upload, statusPc, tallies, failed, late>>

Counter == {"success", "failure"}

Init ==
  /\ tuples \in TupleLists
  /\ s3 \in SUBSET Url /\ keySet = s3 /\ nameSet = {}
  /\ downloadQ = <<>> /\ uploadQ = <<>>
  /\ image = [d \in Downloader |-> None] /\ uploading = None
  /\ disk = {}
  /\ pc = [d \in Downloader |-> "unborn"]
  /\ uploadPc = "unborn" /\ statusPc = "unborn" /\ mainPc = "enqueue"
  /\ downloadComplete = FALSE /\ uploadComplete = FALSE
  /\ counts = [c \in Counter |-> 0]
  /\ mutex = [c \in Counter |-> None]
  /\ read = [d \in Downloader |-> 0]
  /\ failed = {} /\ late = {}

-----------------------------------------------------------------------------
(* main                                                                    *)

WantedNew(u) == u \notin keySet                                (* mutant *)

Wanted(u) == u \notin keySet /\ u \notin nameSet

(* enqueue_image_to_download on the next path of the tuples.               *)
EnqueueImage ==
  /\ mainPc = "enqueue" /\ tuples # <<>>
  /\ LET u == Head(tuples)
     IN  IF Wanted(u)
         THEN downloadQ' = Append(downloadQ, u) /\ nameSet' = nameSet \cup {u}
         ELSE UNCHANGED <<downloadQ, nameSet>>
  /\ tuples' = Tail(tuples)
  /\ UNCHANGED <<uploadQ, keySet, mainPc, downloadComplete, image, disk, pc, upload, statusPc,
                 tallies, failed, late>>

StartThreads ==
  /\ mainPc = "enqueue" /\ tuples = <<>>
  /\ mainPc' = "join_download"
  /\ pc' = [d \in Downloader |-> "dequeue"]
  /\ uploadPc' = "dequeue" /\ statusPc' = "look"
  /\ UNCHANGED <<tuples, keySet, nameSet, downloadComplete, queues, image, disk, uploading,
                 s3, uploadComplete, tallies, failed, late>>

JoinDownloads ==
  /\ mainPc = "join_download"
  /\ \A d \in Downloader : pc[d] = "done"
  /\ mainPc' = "join_upload"
  /\ downloadComplete' = TRUE
  /\ UNCHANGED <<tuples, keySet, nameSet, queues, image, disk, pc, upload, statusPc,
                 tallies, failed, late>>

(* pthread_join of the upload and of the reporter thread; main returns.    *)
JoinOthers ==
  /\ mainPc = "join_upload"
  /\ uploadPc = "done" /\ statusPc = "done"
  /\ mainPc' = "exit"
  /\ UNCHANGED <<tuples, keySet, nameSet, downloadComplete, queues, image, disk, pc, upload,
                 statusPc, tallies, failed, late>>

-----------------------------------------------------------------------------
(* download                                                                *)

Dequeue(d) ==
  /\ pc[d] = "dequeue"
  /\ IF downloadQ = <<>>
     THEN pc' = [pc EXCEPT ![d] = "done"] /\ UNCHANGED <<downloadQ, image>>
     ELSE /\ pc' = [pc EXCEPT ![d] = "fetch_en"]
          /\ image' = [image EXCEPT ![d] = Head(downloadQ)]
          /\ downloadQ' = Tail(downloadQ)
  /\ UNCHANGED <<uploadQ, main, disk, upload, statusPc, tallies, failed, late>>

(* fetch_raw of one of the two links; a good reply is written to the disk  *)
(* (a path that is not /x/xy/name is not; no property looks there).        *)
Fetch(d) ==
  /\ pc[d] \in {"fetch_en", "fetch_commons"}
  /\ \/ /\ disk' = disk \cup {image[d]}
        /\ pc' = [pc EXCEPT ![d] = "enqueue"]
        /\ UNCHANGED failed
     \/ /\ pc[d] = "fetch_en"
        /\ pc' = [pc EXCEPT ![d] = "fetch_commons"]
        /\ UNCHANGED <<disk, failed>>
     \/ /\ pc[d] = "fetch_commons"
        /\ pc' = [pc EXCEPT ![d] = "lock_failure"]
        /\ failed' = failed \cup {image[d]}
        /\ UNCHANGED disk
  /\ UNCHANGED <<queues, main, image, upload, statusPc, tallies, late>>

(* __upload_q.enqueue                                                      *)
Offer(d) ==
  /\ pc[d] = "enqueue"
  /\ Len(uploadQ) < UploadLimit
  /\ uploadQ' = Append(uploadQ, image[d])
  /\ late' = late \cup {image[d]}
  /\ pc' = [pc EXCEPT ![d] = "lock_success"]
  /\ UNCHANGED <<downloadQ, main, image, disk, upload, statusPc, tallies, failed>>

LockPlace == [success |-> "lock_success", failure |-> "lock_failure"]
CountPlace == [success |-> "count_success", failure |-> "count_failure"]

LockNothing(d, c) ==                                           (* mutant *)
  /\ pc[d] = LockPlace[c]
  /\ UNCHANGED mutex
  /\ read' = [read EXCEPT ![d] = counts[c]]
  /\ pc' = [pc EXCEPT ![d] = CountPlace[c]]
  /\ UNCHANGED <<queues, main, image, disk, upload, statusPc, counts, failed, late>>

(* success_count++ or failure_count++: lock and read, then write and       *)
(* unlock, and round the loop.                                             *)
Lock(d, c) ==
  /\ pc[d] = LockPlace[c]
  /\ mutex[c] = None
  /\ mutex' = [mutex EXCEPT ![c] = d]
  /\ read' = [read EXCEPT ![d] = counts[c]]
  /\ pc' = [pc EXCEPT ![d] = CountPlace[c]]
  /\ UNCHANGED <<queues, main, image, disk, upload, statusPc, counts, failed, late>>

Count(d, c) ==
  /\ pc[d] = CountPlace[c]
  /\ counts' = [counts EXCEPT ![c] = read[d] + 1]
  /\ mutex' = [mutex EXCEPT ![c] = None]
  /\ read' = [read EXCEPT ![d] = 0]
  /\ image' = [image EXCEPT ![d] = None]
  /\ pc' = [pc EXCEPT ![d] = "dequeue"]
  /\ UNCHANGED <<queues, main, disk, upload, statusPc, failed, late>>

-----------------------------------------------------------------------------
(* upload                                                                  *)

Take ==
  /\ uploadPc = "dequeue"
  /\ IF uploadQ = <<>>
     THEN /\ uploadPc' = "check" /\ late' = {}
          /\ UNCHANGED <<uploadQ, uploading>>
     ELSE /\ uploadPc' = "put" /\ uploading' = Head(uploadQ)
          /\ uploadQ' = Tail(uploadQ)
          /\ UNCHANGED late
  /\ UNCHANGED <<downloadQ, main, image, disk, pc, s3, uploadComplete, statusPc, tallies, failed>>

Put ==
  /\ uploadPc = "put"
  /\ s3' = s3 \cup {uploading}
  /\ uploading' = None
  /\ uploadPc' = "dequeue"
  /\ UNCHANGED <<queues, main, image, disk, pc, uploadComplete, statusPc, tallies, failed, late>>

FinishQuietly ==                                               (* mutant *)
  /\ uploadPc = "check"
  /\ uploadPc' = IF downloadComplete THEN "done" ELSE "dequeue"
  /\ UNCHANGED <<queues, main, image, disk, pc, uploading, s3, uploadComplete, statusPc, tallies, failed, late>>

(* The handler of QueueEmptyException.                                     *)
FinishOrSleep ==
  /\ uploadPc = "check"
  /\ IF downloadComplete
     THEN uploadPc' = "done" /\ uploadComplete' = TRUE
     ELSE uploadPc' = "dequeue" /\ UNCHANGED uploadComplete
  /\ UNCHANGED <<queues, main, image, disk, pc, uploading, s3, statusPc, tallies, failed, late>>

(* status: look at the flag, then print and sleep.                         *)
Status ==
  /\ statusPc = "look"
  /\ statusPc' = IF uploadComplete THEN "done" ELSE "look"
  /\ UNCHANGED <<queues, main, image, disk, pc, upload, tallies, failed, late>>

MainStep == EnqueueImage \/ StartThreads \/ JoinDownloads \/ JoinOthers
DownloadStep(d) == Dequeue(d) \/ Fetch(d) \/ Offer(d) \/ \E c \in Counter : Lock(d, c) \/ Count(d, c)
UploadStep == Take \/ Put \/ FinishOrSleep
Exited == mainPc = "exit" /\ UNCHANGED vars

Next == MainStep \/ (\E d \in Downloader : DownloadStep(d)) \/ UploadStep \/ Status \/ Exited

(* Each thread runs on; a thread that waits for a mutex gets it, since     *)
(* every owner lets go of it for good after each of finitely many images.  *)
Fairness ==
  /\ WF_vars(MainStep) /\ WF_vars(UploadStep) /\ WF_vars(Status)
  /\ \A d \in Downloader : WF_vars(DownloadStep(d))

Spec == Init /\ [][Next]_vars /\ Fairness
-----------------------------------------------------------------------------
(* Properties                                                              *)

TypeOK ==
  /\ {s3, keySet, nameSet, disk, failed, late} \subseteq SUBSET Url
  /\ {tuples, downloadQ, uploadQ} \subseteq Seq(Url)
  /\ Len(uploadQ) <= UploadLimit
  /\ image \in [Downloader -> Url \cup {None}] /\ uploading \in Url \cup {None}
  /\ counts \in [Counter -> Nat] /\ read \in [Downloader -> Nat]
  /\ mutex \in [Counter -> Downloader \cup {None}]
  /\ {downloadComplete, uploadComplete} \subseteq BOOLEAN

Before(d) == pc[d] \in {"fetch_en", "fetch_commons", "enqueue"}
Positions(s, u) == {n \in DOMAIN s : s[n] = u}
Copies(u) ==
  Cardinality(Positions(downloadQ, u)) + Cardinality(Positions(uploadQ, u))
    + Cardinality({d \in Downloader : Before(d) /\ image[d] = u})
    + Cardinality({u} \cap {uploading})
    + Cardinality({u} \cap failed) + Cardinality({u} \cap (s3 \ keySet))

(* No image is fetched or uploaded twice in a run, however often the       *)
(* tuples name it: it waits in one queue, once, or one thread works on it, *)
(* and what has been uploaded or given up is back in no queue.             *)
(* And when the program ends, each image it set out to fetch has been      *)
(* uploaded or reported as failed, except those put on __upload_q after    *)
(* the upload thread found it empty for the last time: it asks whether the *)
(* downloads are complete only then, and the last of them may arrive in    *)
(* between.                                                                *)
EachImageOnce ==
  /\ \A u \in Url : Copies(u) = IF u \in nameSet THEN 1 ELSE 0
  /\ mainPc = "exit" => nameSet \subseteq s3 \cup failed \cup late

(* The counts the report prints add up in the end: no increment is lost.   *)
CountsAddUp ==
  /\ TypeOK
  /\ mainPc = "exit" =>
       /\ counts["failure"] = Cardinality(failed)
       /\ counts["success"] = Cardinality(nameSet \ failed)

(* The threads end without being told: the upload thread outlives the      *)
(* download threads, which may wait for room in its queue.                 *)
BouncerEnds == <>(mainPc = "exit")
=============================================================================
