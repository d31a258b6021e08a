--------------------------- MODULE Counting_proofs ---------------------------
(* Proofs about programs whose correctness is a matter of counting: the    *)
(* two that move images, the one that counts concepts, the load of the     *)
(* graph, and two whose tables are built by the same folds: the resolver   *)
(* and the graph of an index.                                              *)
(*                                                                         *)
(* ImageBouncer, for any tuples, any set of images and any number of       *)
(* download threads: no image is fetched or uploaded twice, none is lost   *)
(* except those the upload thread is known to miss, and the counts of the  *)
(* report are the numbers of images.  The invariant BouncerInv looks at    *)
(* the places of an image as sets: that they are apart is a matter of set  *)
(* algebra in every step, once the sequences are known to hold each image  *)
(* once.                                                                   *)
(*                                                                         *)
(* ImageDownloadQueue, for any images, workers, batches, chunks and        *)
(* faults: what the server accepted is accounted for.  The invariant       *)
(* ResizeInv counts the occurrences of each name in every place; sums over *)
(* names and workers are those of MapThenSumSet, whose order is first      *)
(* shown to make no difference.                                            *)
(*                                                                         *)
(* FrequencyCounter, for any tuples and pages: a concept counts once in    *)
(* every group of overlapping tuples.  The invariant CounterInv says what  *)
(* the program remembers of the group it is in, and sums over pages are    *)
(* those sums again.                                                       *)
(*                                                                         *)
(* SparseGraphLoad, for any cabinet and any order of its records: the      *)
(* graph is the one they describe.  The invariant LoadInv says it of the   *)
(* records read so far; what FoldLeft and FlattenSeq compute is found step *)
(* by step, from their definitions.                                        *)
(*                                                                         *)
(* ConceptResolver, for any files and inputs: ids and names are inverse,   *)
(* and comparing pointers tells which concepts share a text.  The          *)
(* invariant ResolverInv says what the entries loaded so far mean.         *)
(*                                                                         *)
(* WikipediaGraph, for any index: page_chain finds the cheapest chain.     *)
(* The invariant GraphInv says where the load and the search are; of the   *)
(* search, that the nearest page is taken first and that a page keeps the  *)
(* distance it was first given.                                            *)
EXTENDS ImageBouncer, ImageDownloadQueue, FrequencyCounter, SparseGraphLoad, ConceptResolver, WikipediaGraph,
        FiniteSetTheorems, WellFoundedInduction, TLAPS

-----------------------------------------------------------------------------
(* Sequences that hold each element once.                                  *)

LEMMA AppendOnce ==
  ASSUME NEW S, NEW s \in Seq(S), NEW u \in S
  PROVE  /\ Append(s, u) \in Seq(S)
         /\ ToSet(Append(s, u)) = ToSet(s) \cup {u}
         /\ IsInjective(s) /\ u \notin ToSet(s) => IsInjective(Append(s, u))
<1>1. Append(s, u) \in Seq(S) /\ Len(Append(s, u)) = Len(s) + 1 /\ Len(s) \in Nat
  OBVIOUS
<1>2. \A i \in 1..Len(s) : Append(s, u)[i] = s[i]
  OBVIOUS
<1>3. Append(s, u)[Len(s) + 1] = u
  OBVIOUS
<1>4. DOMAIN s = 1..Len(s) /\ DOMAIN Append(s, u) = 1..Len(s) + 1
  BY <1>1
<1>5. ToSet(Append(s, u)) = ToSet(s) \cup {u}
  BY <1>1, <1>2, <1>3, <1>4 DEF ToSet
<1>6. ASSUME IsInjective(s), u \notin ToSet(s)
      PROVE  IsInjective(Append(s, u))
  <2>1. \A i \in 1..Len(s) : s[i] # u
    BY <1>4, <1>6 DEF ToSet
  <2>2. \A i, j \in 1..Len(s) : s[i] = s[j] => i = j
    BY <1>4, <1>6 DEF IsInjective
  <2> SUFFICES ASSUME NEW i \in 1..Len(s) + 1, NEW j \in 1..Len(s) + 1,
                      Append(s, u)[i] = Append(s, u)[j]
               PROVE  i = j
    BY <1>4 DEF IsInjective
  <2>3. CASE i \in 1..Len(s) /\ j \in 1..Len(s)
    BY <2>2, <2>3, <1>2
  <2>4. CASE i \in 1..Len(s) /\ j = Len(s) + 1
    BY <2>1, <2>4, <1>2, <1>3
  <2>5. CASE i = Len(s) + 1 /\ j \in 1..Len(s)
    BY <2>1, <2>5, <1>2, <1>3
  <2>6. QED
    BY <1>1, <2>3, <2>4, <2>5
<1>7. QED
  BY <1>1, <1>5, <1>6

LEMMA TailOnce ==
  ASSUME NEW S, NEW s \in Seq(S), s # <<>>
  PROVE  /\ Head(s) \in S /\ Tail(s) \in Seq(S) /\ Len(Tail(s)) = Len(s) - 1
         /\ ToSet(s) = {Head(s)} \cup ToSet(Tail(s))
         /\ IsInjective(s) => IsInjective(Tail(s)) /\ Head(s) \notin ToSet(Tail(s))
<1>1. Head(s) = s[1] /\ Head(s) \in S /\ Len(s) \in Nat /\ Len(s) >= 1
  OBVIOUS
<1>2. Tail(s) \in Seq(S) /\ Len(Tail(s)) = Len(s) - 1 /\ \A i \in 1..Len(s) - 1 : Tail(s)[i] = s[i + 1]
  OBVIOUS
<1>3. DOMAIN s = 1..Len(s) /\ DOMAIN Tail(s) = 1..Len(s) - 1
  BY <1>2
<1>4. \A i \in 1..Len(s) - 1 : i + 1 \in 1..Len(s) /\ 1 # i + 1
  BY <1>1
<1>5. \A i \in 1..Len(s) : i = 1 \/ (i - 1 \in 1..Len(s) - 1 /\ Tail(s)[i - 1] = s[i])
  BY <1>1, <1>2
<1>6. ToSet(s) = {Head(s)} \cup ToSet(Tail(s))
  <2>1. ToSet(s) \subseteq {Head(s)} \cup ToSet(Tail(s))
    BY <1>1, <1>3, <1>5 DEF ToSet
  <2>2. {Head(s)} \cup ToSet(Tail(s)) \subseteq ToSet(s)
    BY <1>1, <1>2, <1>3, <1>4 DEF ToSet
  <2>3. QED
    BY <2>1, <2>2
<1>7. ASSUME IsInjective(s)
      PROVE  IsInjective(Tail(s)) /\ Head(s) \notin ToSet(Tail(s))
  <2>1. \A i, j \in 1..Len(s) : s[i] = s[j] => i = j
    BY <1>3, <1>7 DEF IsInjective
  <2>2. ASSUME NEW i \in 1..Len(s) - 1, NEW j \in 1..Len(s) - 1, Tail(s)[i] = Tail(s)[j]
        PROVE  i = j
    <3>1. i + 1 = j + 1
      BY <2>1, <2>2, <1>2, <1>4
    <3>2. QED
      BY <3>1
  <2>3. ASSUME NEW i \in 1..Len(s) - 1
        PROVE  s[1] # Tail(s)[i]
    <3>1. 1 \in 1..Len(s) /\ i + 1 \in 1..Len(s) /\ 1 # i + 1
      BY <1>1, <1>4
    <3>2. s[1] # s[i + 1]
      BY <2>1, <3>1
    <3>3. QED
      BY <3>2, <1>2
  <2>4. IsInjective(Tail(s))
    BY <2>2, <1>3 DEF IsInjective
  <2>5. Head(s) \notin ToSet(Tail(s))
    BY <2>3, <1>1, <1>3 DEF ToSet
  <2>6. QED
    BY <2>4, <2>5
<1>8. QED
  BY <1>1, <1>2, <1>6, <1>7

LEMMA EmptyOnce == <<>> \in Seq(Url) /\ ToSet(<<>>) = {} /\ IsInjective(<<>>)
BY DEF ToSet, IsInjective

(* How often an element is in such a sequence.                             *)
LEMMA PositionsOnce ==
  ASSUME NEW s \in Seq(Url), IsInjective(s), NEW u
  PROVE  Cardinality(Positions(s, u)) = IF u \in ToSet(s) THEN 1 ELSE 0
<1>1. CASE u \in ToSet(s)
  <2>1. PICK n \in DOMAIN s : s[n] = u
    BY <1>1 DEF ToSet
  <2>2. Positions(s, u) = {n}
    BY <2>1 DEF Positions, IsInjective
  <2>3. QED
    BY <1>1, <2>2, FS_Singleton
<1>2. CASE u \notin ToSet(s)
  <2>1. Positions(s, u) = {}
    BY <1>2 DEF Positions, ToSet
  <2>2. QED
    BY <1>2, <2>1, FS_EmptySet
<1>3. QED
  BY <1>1, <1>2

-----------------------------------------------------------------------------
(* The inductive invariant.                                                *)

InLoop == {"fetch_en", "fetch_commons", "enqueue"} \cup
          {"lock_success", "count_success", "lock_failure", "count_failure"}

BouncerTypes ==
  /\ tuples \in Seq(Url) /\ downloadQ \in Seq(Url) /\ uploadQ \in Seq(Url)
  /\ s3 \subseteq Url /\ keySet \subseteq Url /\ nameSet \subseteq Url
  /\ disk \subseteq Url /\ failed \subseteq Url /\ late \subseteq Url
  /\ Len(uploadQ) <= UploadLimit
  /\ image \in [Downloader -> Url \cup {None}] /\ uploading \in Url \cup {None}
  /\ pc \in [Downloader -> InLoop \cup {"unborn", "dequeue", "done"}]
  /\ counts \in [Counter -> Nat] /\ read \in [Downloader -> Nat]
  /\ mutex \in [Counter -> Downloader \cup {None}]
  /\ downloadComplete \in BOOLEAN /\ uploadComplete \in BOOLEAN

(* The places of an image, as sets.                                        *)
Waiting == ToSet(downloadQ)
Working == {image[d] : d \in Downloader} \ {None}
Fetching == {image[d] : d \in {e \in Downloader : Before(e)}}
Arrived == ToSet(uploadQ)
OnItsWay == {uploading} \ {None}
Uploaded == s3 \ keySet

(* Who holds an image, and when a thread may end.                          *)
Control ==
  /\ \A d \in Downloader : image[d] # None <=> pc[d] \in InLoop
  /\ uploading # None <=> uploadPc = "put"
  /\ mainPc = "enqueue" => uploadPc = "unborn" /\ \A d \in Downloader : pc[d] = "unborn"
  /\ \A d \in Downloader : pc[d] = "done" => downloadQ = <<>>
  /\ mainPc \in {"join_upload", "exit"} => \A d \in Downloader : pc[d] = "done"
  /\ mainPc = "exit" => uploadPc = "done"
  /\ uploadPc \in {"check", "done"} => Arrived \subseteq late

(* Each image is in one place: an image waits once, and no two threads     *)
(* work on the same one.                                                   *)
Once ==
  /\ IsInjective(downloadQ) /\ IsInjective(uploadQ)
  /\ \A d, e \in Downloader : image[d] = image[e] /\ image[d] # None => d = e
Apart ==
  /\ Waiting \cap (Working \cup Arrived \cup OnItsWay \cup failed \cup Uploaded) = {}
  /\ Fetching \cap (Arrived \cup OnItsWay \cup failed \cup Uploaded) = {}
  /\ Arrived \cap (OnItsWay \cup failed \cup Uploaded) = {}
  /\ OnItsWay \cap (failed \cup Uploaded) = {}
  /\ failed \cap Uploaded = {}
Everywhere ==
  /\ nameSet = Waiting \cup Fetching \cup Arrived \cup OnItsWay \cup failed \cup Uploaded
  /\ keySet \cap nameSet = {} /\ keySet \subseteq s3
  /\ Working \subseteq nameSet

(* What has been counted: the images with which no thread is concerned.    *)
Succeeded == (nameSet \ failed) \ (Waiting \cup Working)
Outcome ==
  \A d \in Downloader :
    /\ pc[d] \in {"lock_success", "count_success"} => image[d] \notin failed
    /\ pc[d] \in {"lock_failure", "count_failure"} => image[d] \in failed
Counting ==
  /\ IsFiniteSet(nameSet)
  /\ \A d \in Downloader, c \in Counter :
       pc[d] = CountPlace[c] => mutex[c] = d /\ read[d] = counts[c]
  /\ counts["success"] = Cardinality(Succeeded)
  /\ counts["failure"] = Cardinality(failed \ Working)

BouncerInv == BouncerTypes /\ Control /\ Once /\ Apart /\ Everywhere /\ Outcome /\ Counting

LEMMA InitBouncer == Init => BouncerInv
<1> SUFFICES ASSUME Init PROVE BouncerInv
  OBVIOUS
<1> USE BouncerAssumption DEF Init
<1>1. BouncerTypes
  <2>1. tuples \in Seq(Url) /\ downloadQ \in Seq(Url) /\ uploadQ \in Seq(Url)
    BY EmptyOnce DEF BouncerAssumption
  <2>2. Len(uploadQ) <= UploadLimit
    BY DEF BouncerAssumption
  <2>3. /\ image \in [Downloader -> Url \cup {None}] /\ uploading \in Url \cup {None}
        /\ pc \in [Downloader -> InLoop \cup {"unborn", "dequeue", "done"}]
        /\ counts \in [Counter -> Nat] /\ read \in [Downloader -> Nat]
        /\ mutex \in [Counter -> Downloader \cup {None}]
    OBVIOUS
  <2>4. QED
    BY <2>1, <2>2, <2>3 DEF BouncerTypes
<1>2. Control
  BY EmptyOnce DEF Control, InLoop, Arrived
<1>3. /\ Waiting = {} /\ Working = {} /\ Fetching = {} /\ Arrived = {} /\ OnItsWay = {} /\ Uploaded = {}
  BY EmptyOnce DEF Waiting, Working, Fetching, Arrived, OnItsWay, Uploaded, Before
<1>4. Once /\ Apart /\ Everywhere /\ Outcome
  BY <1>3, EmptyOnce DEF Once, Apart, Everywhere, Outcome
<1>5. Counting
  <2>1. Succeeded = {} /\ failed \ Working = {}
    BY <1>3 DEF Succeeded
  <2>2. QED
    BY <2>1, FS_EmptySet DEF Counting, Counter, CountPlace
<1>6. QED
  BY <1>1, <1>2, <1>4, <1>5 DEF BouncerInv

LEMMA EnqueueImageKeeps ==
  ASSUME BouncerInv, EnqueueImage
  PROVE  BouncerInv'
<1> USE DEF BouncerInv
<1>1. /\ mainPc = "enqueue" /\ tuples # <<>> /\ tuples' = Tail(tuples)
      /\ UNCHANGED <<uploadQ, keySet, mainPc, downloadComplete, image, disk, pc, uploading,
                     uploadPc, s3, uploadComplete, counts, mutex, read, failed, late>>
  BY DEF EnqueueImage, upload, tallies
<1>2. PICK u : u = Head(tuples)
  OBVIOUS
<1>3. u \in Url /\ tuples' \in Seq(Url)
  BY <1>1, <1>2, TailOnce DEF BouncerTypes
<1>4. /\ UNCHANGED <<Working, Arrived, OnItsWay, Uploaded>> /\ Fetching' = Fetching
  BY <1>1 DEF Working, Arrived, OnItsWay, Uploaded, Fetching, Before
<1>5. CASE Wanted(u)
  <2>1. downloadQ' = Append(downloadQ, u) /\ nameSet' = nameSet \cup {u}
    BY <1>2, <1>5 DEF EnqueueImage
  <2>2. u \notin nameSet /\ u \notin keySet
    BY <1>5 DEF Wanted
  <2>3. u \notin Waiting
    BY <2>2 DEF Everywhere
  <2>4. /\ downloadQ' \in Seq(Url) /\ Waiting' = Waiting \cup {u} /\ IsInjective(downloadQ')
    BY <1>3, <2>1, <2>3, AppendOnce DEF BouncerTypes, Once, Waiting
  <2>5. BouncerTypes'
    BY <1>1, <1>3, <2>1, <2>4 DEF BouncerTypes
  <2>6. Control'
    BY <1>1, <1>4 DEF Control
  <2>7. Once'
    BY <1>1, <2>4 DEF Once
  <2>8. Apart'
    BY <1>1, <1>4, <2>2, <2>4 DEF Apart, Everywhere
  <2>9. Everywhere'
    BY <1>1, <1>4, <2>1, <2>2, <2>4 DEF Everywhere
  <2>10. Outcome'
    BY <1>1 DEF Outcome
  <2>11. Counting'
    <3>1. Succeeded' = Succeeded /\ (failed \ Working)' = failed \ Working
      BY <1>1, <1>4, <2>1, <2>2, <2>4 DEF Succeeded, Everywhere
    <3>2. IsFiniteSet(nameSet')
      BY <2>1, FS_AddElement DEF Counting
    <3>3. QED
      BY <1>1, <3>1, <3>2 DEF Counting
  <2>12. QED
    BY <2>5, <2>6, <2>7, <2>8, <2>9, <2>10, <2>11
<1>6. CASE ~Wanted(u)
  <2>1. downloadQ' = downloadQ /\ nameSet' = nameSet
    BY <1>2, <1>6 DEF EnqueueImage
  <2>2. Waiting' = Waiting /\ Succeeded' = Succeeded
    BY <1>1, <1>4, <2>1 DEF Waiting, Succeeded
  <2>3. BouncerTypes'
    BY <1>1, <1>3, <2>1 DEF BouncerTypes
  <2>4. Control' /\ Once' /\ Apart' /\ Everywhere' /\ Outcome' /\ Counting'
    BY <1>1, <1>4, <2>1, <2>2 DEF Control, Once, Apart, Everywhere, Outcome, Counting
  <2>5. QED
    BY <2>3, <2>4
<1>7. QED
  BY <1>5, <1>6

LEMMA StartThreadsKeeps ==
  ASSUME BouncerInv, StartThreads
  PROVE  BouncerInv'
<1> USE DEF BouncerInv
<1>1. /\ mainPc = "enqueue" /\ mainPc' = "join_download"
      /\ pc' = [d \in Downloader |-> "dequeue"] /\ uploadPc' = "dequeue"
      /\ UNCHANGED <<tuples, keySet, nameSet, downloadComplete, downloadQ, uploadQ, image, disk,
                     uploading, s3, uploadComplete, counts, mutex, read, failed, late>>
  BY DEF StartThreads, queues, tallies
<1>2. \A d \in Downloader : pc[d] = "unborn" /\ image[d] = None
  BY <1>1 DEF Control, InLoop
<1>3. UNCHANGED <<Waiting, Working, Arrived, OnItsWay, Uploaded, Succeeded>> /\ Fetching' = Fetching
  BY <1>1, <1>2 DEF Waiting, Working, Arrived, OnItsWay, Uploaded, Succeeded, Fetching, Before
<1>4. BouncerTypes'
  BY <1>1 DEF BouncerTypes
<1>5. Control'
  BY <1>1, <1>2, <1>3 DEF Control, InLoop
<1>6. Once' /\ Apart' /\ Everywhere'
  BY <1>1, <1>3 DEF Once, Apart, Everywhere
<1>7. Outcome' /\ Counting'
  BY <1>1, <1>3 DEF Outcome, Counting, CountPlace, Counter
<1>8. QED
  BY <1>4, <1>5, <1>6, <1>7

(* The joins, the reporter, the choice of the upload thread.               *)
LEMMA OtherStepsKeep ==
  ASSUME BouncerInv, JoinDownloads \/ JoinOthers \/ FinishOrSleep \/ Status
  PROVE  BouncerInv'
<1> USE DEF BouncerInv
<1>1. UNCHANGED <<tuples, keySet, nameSet, downloadQ, uploadQ, image, disk, pc, uploading, s3,
                  counts, mutex, read, failed, late>>
  BY DEF JoinDownloads, JoinOthers, FinishOrSleep, Status, main, queues, upload, tallies
<1>2. UNCHANGED <<Waiting, Working, Arrived, OnItsWay, Uploaded, Succeeded>> /\ Fetching' = Fetching
  BY <1>1 DEF Waiting, Working, Arrived, OnItsWay, Uploaded, Succeeded, Fetching, Before
<1>3. BouncerTypes'
  BY <1>1 DEF BouncerTypes, JoinDownloads, JoinOthers, FinishOrSleep, Status, main, upload
<1>4. Control'
  BY <1>1, <1>2 DEF Control, JoinDownloads, JoinOthers, FinishOrSleep, Status, main, upload
<1>5. Once' /\ Apart' /\ Everywhere' /\ Outcome' /\ Counting'
  BY <1>1, <1>2 DEF Once, Apart, Everywhere, Outcome, Counting
<1>6. QED
  BY <1>3, <1>4, <1>5

LEMMA DequeueKeeps ==
  ASSUME BouncerInv, NEW d \in Downloader, Dequeue(d)
  PROVE  BouncerInv'
<1> USE DEF BouncerInv
<1>1. /\ pc[d] = "dequeue" /\ image[d] = None /\ mainPc # "enqueue"
      /\ UNCHANGED <<tuples, keySet, nameSet, mainPc, downloadComplete, uploadQ, disk, uploading,
                     uploadPc, s3, uploadComplete, counts, mutex, read, failed, late>>
  BY DEF Dequeue, main, upload, tallies, Control, InLoop
<1>2. UNCHANGED <<Arrived, OnItsWay, Uploaded>>
  BY <1>1 DEF Arrived, OnItsWay, Uploaded
<1>3. CASE downloadQ = <<>>
  <2>1. downloadQ' = downloadQ /\ image' = image /\ pc' = [pc EXCEPT ![d] = "done"]
    BY <1>3 DEF Dequeue
  <2>2. pc'[d] = "done" /\ \A e \in Downloader \ {d} : pc'[e] = pc[e]
    BY <2>1 DEF BouncerTypes
  <2>3. Waiting' = Waiting /\ Working' = Working /\ Succeeded' = Succeeded
    BY <1>1, <2>1 DEF Waiting, Working, Succeeded
  <2>4. Fetching' = Fetching
    BY <1>1, <2>1, <2>2 DEF Fetching, Before
  <2>5. BouncerTypes'
    BY <1>1, <2>1 DEF BouncerTypes
  <2>6. Control'
    BY <1>1, <1>2, <1>3, <2>1, <2>2 DEF Control, InLoop
  <2>7. Once' /\ Apart' /\ Everywhere'
    BY <1>1, <1>2, <2>1, <2>3, <2>4 DEF Once, Apart, Everywhere
  <2>8. Outcome' /\ Counting'
    BY <1>1, <2>1, <2>2, <2>3 DEF Outcome, Counting, CountPlace, Counter
  <2>9. QED
    BY <2>5, <2>6, <2>7, <2>8
<1>4. CASE downloadQ # <<>>
  <2>1. PICK u : u = Head(downloadQ)
    OBVIOUS
  <2>2. /\ downloadQ' = Tail(downloadQ) /\ image' = [image EXCEPT ![d] = u]
        /\ pc' = [pc EXCEPT ![d] = "fetch_en"]
    BY <1>4, <2>1 DEF Dequeue
  <2>3. /\ u \in Url /\ u # None /\ downloadQ' \in Seq(Url) /\ IsInjective(downloadQ')
        /\ Waiting = {u} \cup Waiting' /\ u \notin Waiting'
    BY <1>4, <2>1, <2>2, TailOnce, BouncerAssumption DEF BouncerAssumption, BouncerTypes, Once, Waiting
  <2>4. /\ image'[d] = u /\ \A e \in Downloader \ {d} : image'[e] = image[e]
        /\ pc'[d] = "fetch_en" /\ \A e \in Downloader \ {d} : pc'[e] = pc[e]
    BY <2>2 DEF BouncerTypes
  <2>5. Working' = Working \cup {u}
    BY <1>1, <2>3, <2>4 DEF Working
  <2>6. Fetching' = Fetching \cup {u}
    BY <1>1, <2>4 DEF Fetching, Before
  <2>7. u \notin Working /\ u \in nameSet
    BY <2>3 DEF Apart, Everywhere
  <2>8. BouncerTypes'
    BY <1>1, <2>2, <2>3 DEF BouncerTypes, InLoop
  <2>9. Control'
    <3>1. \A e \in Downloader : pc[e] # "done"
      BY <1>4 DEF Control
    <3>2. QED
      BY <1>1, <1>2, <2>3, <2>4, <3>1 DEF Control, InLoop
  <2>10. Once'
    <3>1. \A e \in Downloader : image[e] # u
      BY <2>3, <2>7 DEF Working
    <3>2. QED
      BY <1>1, <2>3, <2>4, <3>1 DEF Once
  <2>11. Apart'
    BY <1>1, <1>2, <2>3, <2>5, <2>6 DEF Apart
  <2>12. Everywhere'
    BY <1>1, <1>2, <2>3, <2>5, <2>6 DEF Everywhere
  <2>13. Outcome'
    BY <1>1, <2>4 DEF Outcome
  <2>14. Counting'
    <3>1. Succeeded' = Succeeded
      BY <1>1, <2>3, <2>5 DEF Succeeded
    <3>2. (failed \ Working)' = failed \ Working
      BY <1>1, <2>3, <2>5 DEF Apart
    <3>3. QED
      BY <1>1, <2>4, <3>1, <3>2 DEF Counting, CountPlace, Counter
  <2>15. QED
    BY <2>8, <2>9, <2>10, <2>11, <2>12, <2>13, <2>14
<1>5. QED
  BY <1>3, <1>4

LEMMA FetchKeeps ==
  ASSUME BouncerInv, NEW d \in Downloader, Fetch(d)
  PROVE  BouncerInv'
<1> USE DEF BouncerInv
<1>1. /\ pc[d] \in {"fetch_en", "fetch_commons"}
      /\ UNCHANGED <<tuples, keySet, nameSet, mainPc, downloadComplete, downloadQ, uploadQ, image,
                     uploading, uploadPc, s3, uploadComplete, counts, mutex, read, late>>
  BY DEF Fetch, queues, main, upload, tallies
<1>2. PICK u \in Url : u = image[d] /\ u # None
  BY <1>1 DEF BouncerTypes, Control, InLoop
<1>3. UNCHANGED <<Waiting, Working, Arrived, OnItsWay, Uploaded>>
  BY <1>1 DEF Waiting, Working, Arrived, OnItsWay, Uploaded
<1>4. u \in Fetching /\ u \in Working
  BY <1>1, <1>2 DEF Fetching, Working, Before
<1>5. CASE failed' = failed
  <2>1. PICK to \in {"enqueue", "fetch_commons"} : pc' = [pc EXCEPT ![d] = to]
    BY <1>4, <1>5, <1>2 DEF Fetch, Apart
  <2>2. pc'[d] = to /\ \A e \in Downloader \ {d} : pc'[e] = pc[e]
    BY <2>1 DEF BouncerTypes
  <2>3. Fetching' = Fetching
    <3>1. \A e \in Downloader : Before(e)' = Before(e)
      BY <1>1, <2>1, <2>2 DEF Before
    <3>2. QED
      BY <1>1, <3>1 DEF Fetching
  <2>4. BouncerTypes'
    <3>1. disk' \subseteq Url
      BY <1>2 DEF Fetch, BouncerTypes
    <3>2. QED
      BY <1>1, <1>5, <2>1, <3>1 DEF BouncerTypes, InLoop
  <2>5. Control'
    BY <1>1, <1>3, <2>1, <2>2 DEF Control, InLoop
  <2>6. Once' /\ Apart' /\ Everywhere'
    BY <1>1, <1>3, <1>5, <2>3 DEF Once, Apart, Everywhere
  <2>7. Outcome'
    BY <1>1, <1>5, <2>1, <2>2 DEF Outcome
  <2>8. Counting'
    BY <1>1, <1>3, <1>5, <2>1, <2>2 DEF Counting, Succeeded, CountPlace, Counter
  <2>9. QED
    BY <2>4, <2>5, <2>6, <2>7, <2>8
<1>6. CASE failed' # failed
  <2>1. /\ pc[d] = "fetch_commons" /\ pc' = [pc EXCEPT ![d] = "lock_failure"]
        /\ failed' = failed \cup {u} /\ disk' = disk
    BY <1>2, <1>6 DEF Fetch
  <2>2. pc'[d] = "lock_failure" /\ \A e \in Downloader \ {d} : pc'[e] = pc[e]
    BY <2>1 DEF BouncerTypes
  <2>3. \A e \in Downloader \ {d} : image[e] # u
    BY <1>2 DEF Once
  <2>4. Fetching' = Fetching \ {u}
    <3>1. ~Before(d)' /\ \A e \in Downloader \ {d} : Before(e)' = Before(e)
      BY <2>2 DEF Before
    <3>2. QED
      BY <1>1, <1>2, <2>3, <3>1 DEF Fetching
  <2>5. BouncerTypes'
    BY <1>1, <2>1 DEF BouncerTypes, InLoop
  <2>6. Control'
    BY <1>1, <1>3, <2>1, <2>2 DEF Control, InLoop
  <2>7. Once'
    BY <1>1 DEF Once
  <2>8. Apart'
    BY <1>3, <1>4, <2>1, <2>4 DEF Apart
  <2>9. Everywhere'
    BY <1>1, <1>3, <1>4, <2>1, <2>4 DEF Everywhere
  <2>10. Outcome'
    BY <1>1, <1>2, <2>1, <2>2, <2>3 DEF Outcome
  <2>11. Counting'
    <3>1. Succeeded' = Succeeded /\ (failed \ Working)' = failed \ Working
      BY <1>1, <1>3, <1>4, <2>1 DEF Succeeded
    <3>2. QED
      BY <1>1, <2>1, <2>2, <3>1 DEF Counting, CountPlace, Counter
  <2>12. QED
    BY <2>5, <2>6, <2>7, <2>8, <2>9, <2>10, <2>11
<1>7. QED
  BY <1>5, <1>6

LEMMA OfferKeeps ==
  ASSUME BouncerInv, NEW d \in Downloader, Offer(d)
  PROVE  BouncerInv'
<1> USE DEF BouncerInv
<1>1. /\ pc[d] = "enqueue" /\ pc' = [pc EXCEPT ![d] = "lock_success"]
      /\ UNCHANGED <<tuples, keySet, nameSet, mainPc, downloadComplete, downloadQ, image, disk,
                     uploading, uploadPc, s3, uploadComplete, counts, mutex, read, failed>>
  BY DEF Offer, main, upload, tallies
<1>2. PICK u \in Url : u = image[d] /\ u # None
  BY <1>1 DEF BouncerTypes, Control, InLoop
<1>3. Len(uploadQ) < UploadLimit /\ uploadQ' = Append(uploadQ, u) /\ late' = late \cup {u}
  BY <1>2 DEF Offer
<1>4. u \in Fetching
  BY <1>1, <1>2 DEF Fetching, Before
<1>5. /\ uploadQ' \in Seq(Url) /\ Arrived' = Arrived \cup {u} /\ IsInjective(uploadQ')
      /\ Len(uploadQ') <= UploadLimit
  <2>1. u \notin Arrived
    BY <1>4 DEF Apart
  <2>2. uploadQ' \in Seq(Url) /\ Arrived' = Arrived \cup {u} /\ IsInjective(uploadQ')
    BY <1>3, <2>1, AppendOnce DEF BouncerTypes, Once, Arrived
  <2>3. Len(uploadQ') = Len(uploadQ) + 1 /\ Len(uploadQ) \in Nat
    BY <1>3 DEF BouncerTypes
  <2>4. QED
    BY <1>3, <2>2, <2>3, BouncerAssumption DEF BouncerAssumption
<1>6. pc'[d] = "lock_success" /\ \A e \in Downloader \ {d} : pc'[e] = pc[e]
  BY <1>1 DEF BouncerTypes
<1>7. UNCHANGED <<Waiting, Working, OnItsWay, Uploaded, Succeeded>>
  BY <1>1 DEF Waiting, Working, OnItsWay, Uploaded, Succeeded
<1>8. Fetching' = Fetching \ {u}
  <2>1. \A e \in Downloader \ {d} : image[e] # u
    BY <1>2 DEF Once
  <2>2. ~Before(d)' /\ \A e \in Downloader \ {d} : Before(e)' = Before(e)
    BY <1>6 DEF Before
  <2>3. QED
    BY <1>1, <1>2, <2>1, <2>2 DEF Fetching
<1>9. BouncerTypes'
  BY <1>1, <1>3, <1>5 DEF BouncerTypes, InLoop
<1>10. Control'
  BY <1>1, <1>3, <1>5, <1>6 DEF Control, InLoop
<1>11. Once'
  BY <1>1, <1>5 DEF Once
<1>12. Apart'
  <2>1. u \in Working
    BY <1>2 DEF Working
  <2>2. u \notin Waiting \cup OnItsWay \cup failed \cup Uploaded
    BY <1>4, <2>1 DEF Apart
  <2>3. failed' = failed
    BY <1>1
  <2>4. Waiting \cap (Working \cup Arrived' \cup OnItsWay \cup failed \cup Uploaded) = {}
    BY <1>5, <2>2 DEF Apart
  <2>5. Fetching' \cap (Arrived' \cup OnItsWay \cup failed \cup Uploaded) = {}
    BY <1>5, <1>8 DEF Apart
  <2>6. Arrived' \cap (OnItsWay \cup failed \cup Uploaded) = {}
    BY <1>5, <2>2 DEF Apart
  <2>7. QED
    BY <1>7, <2>3, <2>4, <2>5, <2>6 DEF Apart
<1>13. Everywhere'
  BY <1>1, <1>4, <1>5, <1>7, <1>8 DEF Everywhere
<1>14. Outcome'
  BY <1>1, <1>2, <1>4, <1>6 DEF Outcome, Apart
<1>15. Counting'
  BY <1>1, <1>6, <1>7 DEF Counting, CountPlace, Counter
<1>16. QED
  BY <1>9, <1>10, <1>11, <1>12, <1>13, <1>14, <1>15

LEMMA LockKeeps ==
  ASSUME BouncerInv, NEW d \in Downloader, NEW c \in Counter, Lock(d, c)
  PROVE  BouncerInv'
<1> USE DEF BouncerInv
<1>1. /\ pc[d] = LockPlace[c] /\ mutex[c] = None
      /\ mutex' = [mutex EXCEPT ![c] = d] /\ read' = [read EXCEPT ![d] = counts[c]]
      /\ pc' = [pc EXCEPT ![d] = CountPlace[c]]
      /\ UNCHANGED <<tuples, keySet, nameSet, mainPc, downloadComplete, downloadQ, uploadQ, image,
                     disk, uploading, uploadPc, s3, uploadComplete, counts, failed, late>>
  BY DEF Lock, queues, main, upload
<1>2. pc'[d] = CountPlace[c] /\ \A e \in Downloader \ {d} : pc'[e] = pc[e]
  BY <1>1 DEF BouncerTypes
<1>3. UNCHANGED <<Waiting, Working, Arrived, OnItsWay, Uploaded, Succeeded>>
  BY <1>1 DEF Waiting, Working, Arrived, OnItsWay, Uploaded, Succeeded
<1>4. Fetching' = Fetching
  <2>1. \A e \in Downloader : Before(e)' = Before(e)
    BY <1>1, <1>2 DEF Before, LockPlace, CountPlace, Counter
  <2>2. QED
    BY <1>1, <2>1 DEF Fetching
<1>5. BouncerTypes'
  BY <1>1 DEF BouncerTypes, InLoop, CountPlace, Counter
<1>6. Control'
  BY <1>1, <1>2, <1>3 DEF Control, InLoop, LockPlace, CountPlace, Counter
<1>7. Once' /\ Apart' /\ Everywhere'
  BY <1>1, <1>3, <1>4 DEF Once, Apart, Everywhere
<1>8. Outcome'
  BY <1>1, <1>2 DEF Outcome, LockPlace, CountPlace, Counter
<1>9. Counting'
  <2>1. ASSUME NEW e \in Downloader, NEW k \in Counter, pc'[e] = CountPlace[k]
        PROVE  mutex'[k] = e /\ read'[e] = counts'[k]
    <3>1. CASE e = d
      <4>1. k = c
        BY <1>2, <2>1, <3>1 DEF CountPlace, Counter
      <4>2. QED
        BY <1>1, <3>1, <4>1 DEF BouncerTypes
    <3>2. CASE e # d
      <4>1. mutex[k] = e /\ read[e] = counts[k]
        BY <1>2, <2>1, <3>2 DEF Counting
      <4>2. k # c
        BY <1>1, <4>1, BouncerAssumption DEF BouncerAssumption
      <4>3. QED
        BY <1>1, <3>2, <4>1, <4>2 DEF BouncerTypes
    <3>3. QED
      BY <3>1, <3>2
  <2>2. QED
    BY <1>1, <1>3, <2>1 DEF Counting
<1>10. QED
  BY <1>5, <1>6, <1>7, <1>8, <1>9

LEMMA CountKeeps ==
  ASSUME BouncerInv, NEW d \in Downloader, NEW c \in Counter, Count(d, c)
  PROVE  BouncerInv'
<1> USE DEF BouncerInv
<1>1. /\ pc[d] = CountPlace[c]
      /\ counts' = [counts EXCEPT ![c] = read[d] + 1] /\ mutex' = [mutex EXCEPT ![c] = None]
      /\ read' = [read EXCEPT ![d] = 0] /\ image' = [image EXCEPT ![d] = None]
      /\ pc' = [pc EXCEPT ![d] = "dequeue"]
      /\ UNCHANGED <<tuples, keySet, nameSet, mainPc, downloadComplete, downloadQ, uploadQ,
                     disk, uploading, uploadPc, s3, uploadComplete, failed, late>>
  BY DEF Count, queues, main, upload
<1>2. PICK u \in Url : u = image[d] /\ u # None
  BY <1>1 DEF BouncerTypes, Control, InLoop, CountPlace, Counter
<1>3. /\ pc'[d] = "dequeue" /\ image'[d] = None
      /\ \A e \in Downloader \ {d} : pc'[e] = pc[e] /\ image'[e] = image[e] /\ image[e] # u
  BY <1>1, <1>2 DEF BouncerTypes, Once
<1>4. UNCHANGED <<Waiting, Arrived, OnItsWay, Uploaded>>
  BY <1>1 DEF Waiting, Arrived, OnItsWay, Uploaded
<1>5. u \in Working /\ Working' = Working \ {u}
  BY <1>2, <1>3 DEF Working
<1>6. Fetching' = Fetching
  <2>1. ~Before(d)' /\ ~Before(d) /\ \A e \in Downloader \ {d} : Before(e)' = Before(e)
    BY <1>1, <1>3 DEF Before, CountPlace, Counter
  <2>2. QED
    BY <1>3, <2>1 DEF Fetching
<1>7. counts[c] \in Nat /\ read[d] = counts[c] /\ mutex[c] = d
  BY <1>1 DEF BouncerTypes, Counting
<1>8. counts'[c] = counts[c] + 1 /\ \A k \in Counter \ {c} : counts'[k] = counts[k]
  BY <1>1, <1>7 DEF BouncerTypes
<1>9. BouncerTypes'
  BY <1>1, <1>7 DEF BouncerTypes
<1>10. Control'
  <2>1. mainPc \notin {"enqueue", "join_upload", "exit"}
    BY <1>1 DEF Control, CountPlace, Counter
  <2>2. QED
    BY <1>1, <1>3, <1>4, <2>1 DEF Control, InLoop
<1>11. Once'
  BY <1>1, <1>3 DEF Once
<1>12. Apart' /\ Everywhere'
  BY <1>1, <1>4, <1>5, <1>6 DEF Apart, Everywhere
<1>13. Outcome'
  BY <1>1, <1>3 DEF Outcome
<1>14. Counting'
  <2>1. ASSUME NEW e \in Downloader, NEW k \in Counter, pc'[e] = CountPlace[k]
        PROVE  mutex'[k] = e /\ read'[e] = counts'[k]
    <3>1. e # d
      BY <1>3, <2>1 DEF CountPlace, Counter
    <3>2. mutex[k] = e /\ read[e] = counts[k]
      BY <1>3, <2>1, <3>1 DEF Counting
    <3>3. k # c
      BY <1>7, <3>1, <3>2
    <3>4. QED
      BY <1>1, <1>8, <3>1, <3>2, <3>3 DEF BouncerTypes
  <2>2. u \in nameSet /\ u \notin Waiting
    BY <1>5 DEF Everywhere, Apart
  <2>3. CASE c = "success"
    <3>1. u \notin failed
      BY <1>1, <1>2, <2>3 DEF Outcome, CountPlace
    <3>2. Succeeded' = Succeeded \cup {u} /\ u \notin Succeeded
      BY <1>1, <1>4, <1>5, <2>2, <3>1 DEF Succeeded
    <3>3. (failed \ Working)' = failed \ Working
      BY <1>1, <1>5, <3>1
    <3>4. IsFiniteSet(Succeeded)
      BY FS_Subset DEF Counting, Succeeded
    <3>5. Cardinality(Succeeded') = Cardinality(Succeeded) + 1
      BY <3>2, <3>4, FS_AddElement
    <3>6. QED
      BY <1>1, <1>8, <2>1, <2>3, <3>3, <3>5 DEF Counting, Counter
  <2>4. CASE c = "failure"
    <3>1. u \in failed
      BY <1>1, <1>2, <2>4 DEF Outcome, CountPlace
    <3>2. Succeeded' = Succeeded
      BY <1>1, <1>4, <1>5, <3>1 DEF Succeeded
    <3>3. (failed \ Working)' = (failed \ Working) \cup {u} /\ u \notin failed \ Working
      BY <1>1, <1>5, <3>1
    <3>4. IsFiniteSet(failed \ Working)
      <4>1. failed \ Working \subseteq nameSet
        BY DEF Everywhere
      <4>2. QED
        BY <4>1, FS_Subset DEF Counting
    <3>5. Cardinality((failed \ Working)') = Cardinality(failed \ Working) + 1
      BY <3>3, <3>4, FS_AddElement
    <3>6. QED
      BY <1>1, <1>8, <2>1, <2>4, <3>2, <3>5 DEF Counting, Counter
  <2>5. QED
    BY <2>3, <2>4 DEF Counter
<1>15. QED
  BY <1>9, <1>10, <1>11, <1>12, <1>13, <1>14

LEMMA TakeKeeps ==
  ASSUME BouncerInv, Take
  PROVE  BouncerInv'
<1> USE DEF BouncerInv
<1>1. /\ uploadPc = "dequeue" /\ uploading = None
      /\ UNCHANGED <<tuples, keySet, nameSet, mainPc, downloadComplete, downloadQ, image, disk, pc,
                     s3, uploadComplete, counts, mutex, read, failed>>
  BY DEF Take, main, tallies, Control
<1>2. UNCHANGED <<Waiting, Working, Uploaded, Succeeded>> /\ Fetching' = Fetching
  BY <1>1 DEF Waiting, Working, Uploaded, Succeeded, Fetching, Before
<1>3. CASE uploadQ = <<>>
  <2>1. uploadPc' = "check" /\ late' = {} /\ uploadQ' = uploadQ /\ uploading' = uploading
    BY <1>3 DEF Take
  <2>2. Arrived' = {} /\ Arrived = {} /\ OnItsWay' = OnItsWay
    BY <1>3, <2>1, EmptyOnce DEF Arrived, OnItsWay
  <2>3. BouncerTypes'
    BY <1>1, <2>1 DEF BouncerTypes
  <2>4. Control'
    BY <1>1, <2>1, <2>2 DEF Control
  <2>5. Once' /\ Apart' /\ Everywhere' /\ Outcome' /\ Counting'
    BY <1>1, <1>2, <2>1, <2>2 DEF Once, Apart, Everywhere, Outcome, Counting
  <2>6. QED
    BY <2>3, <2>4, <2>5
<1>4. CASE uploadQ # <<>>
  <2>1. PICK u : u = Head(uploadQ)
    OBVIOUS
  <2>2. uploadPc' = "put" /\ uploading' = u /\ uploadQ' = Tail(uploadQ) /\ late' = late
    BY <1>4, <2>1 DEF Take
  <2>3. /\ u \in Url /\ u # None /\ uploadQ' \in Seq(Url) /\ IsInjective(uploadQ')
        /\ Len(uploadQ') = Len(uploadQ) - 1
        /\ Arrived = {u} \cup Arrived' /\ u \notin Arrived'
    BY <1>4, <2>1, <2>2, TailOnce, BouncerAssumption DEF BouncerAssumption, BouncerTypes, Once, Arrived
  <2>4. OnItsWay' = {u} /\ OnItsWay = {}
    BY <1>1, <2>2, <2>3 DEF OnItsWay
  <2>5. BouncerTypes'
    <3>1. Len(uploadQ') <= UploadLimit
      BY <2>3, BouncerAssumption DEF BouncerAssumption, BouncerTypes
    <3>2. QED
      BY <1>1, <2>2, <2>3, <3>1 DEF BouncerTypes
  <2>6. Control'
    BY <1>1, <2>2, <2>3 DEF Control
  <2>7. Once'
    BY <1>1, <2>3 DEF Once
  <2>8. Apart' /\ Everywhere'
    BY <1>1, <1>2, <2>3, <2>4 DEF Apart, Everywhere
  <2>9. Outcome' /\ Counting'
    BY <1>1, <1>2 DEF Outcome, Counting
  <2>10. QED
    BY <2>5, <2>6, <2>7, <2>8, <2>9
<1>5. QED
  BY <1>3, <1>4

LEMMA PutKeeps ==
  ASSUME BouncerInv, Put
  PROVE  BouncerInv'
<1> USE DEF BouncerInv
<1>1. /\ uploadPc = "put" /\ uploadPc' = "dequeue" /\ s3' = s3 \cup {uploading} /\ uploading' = None
      /\ UNCHANGED <<tuples, keySet, nameSet, mainPc, downloadComplete, downloadQ, uploadQ, image,
                     disk, pc, uploadComplete, counts, mutex, read, failed, late>>
  BY DEF Put, queues, main, tallies
<1>2. PICK u \in Url : u = uploading /\ u # None
  BY <1>1 DEF BouncerTypes, Control
<1>3. UNCHANGED <<Waiting, Working, Arrived, Succeeded>> /\ Fetching' = Fetching
  BY <1>1 DEF Waiting, Working, Arrived, Succeeded, Fetching, Before
<1>4. OnItsWay = {u} /\ OnItsWay' = {}
  BY <1>1, <1>2 DEF OnItsWay
<1>5. Uploaded' = Uploaded \cup {u}
  <2>1. u \notin keySet
    BY <1>4 DEF Everywhere
  <2>2. QED
    BY <1>1, <1>2, <2>1 DEF Uploaded
<1>6. BouncerTypes'
  BY <1>1, <1>2 DEF BouncerTypes
<1>7. Control'
  BY <1>1, <1>3 DEF Control
<1>8. Once' /\ Apart' /\ Everywhere'
  BY <1>1, <1>3, <1>4, <1>5 DEF Once, Apart, Everywhere
<1>9. Outcome' /\ Counting'
  BY <1>1, <1>3 DEF Outcome, Counting
<1>10. QED
  BY <1>6, <1>7, <1>8, <1>9

LEMMA NextBouncer == BouncerInv /\ [Next]_vars => BouncerInv'
<1> SUFFICES ASSUME BouncerInv, [Next]_vars PROVE BouncerInv'
  OBVIOUS
<1>1. CASE MainStep
  BY <1>1, EnqueueImageKeeps, StartThreadsKeeps, OtherStepsKeep DEF MainStep
<1>2. CASE UploadStep \/ Status
  BY <1>2, TakeKeeps, PutKeeps, OtherStepsKeep DEF UploadStep
<1>3. ASSUME NEW d \in Downloader, DownloadStep(d) PROVE BouncerInv'
  BY <1>3, DequeueKeeps, FetchKeeps, OfferKeeps, LockKeeps, CountKeeps DEF DownloadStep
<1>4. CASE UNCHANGED vars
  <2>1. UNCHANGED <<tuples, keySet, nameSet, mainPc, downloadComplete, downloadQ, uploadQ, image,
                    disk, pc, uploading, uploadPc, s3, uploadComplete, counts, mutex, read,
                    failed, late>>
    BY <1>4 DEF vars, main, queues, upload, tallies
  <2>2. UNCHANGED <<Waiting, Working, Arrived, OnItsWay, Uploaded, Succeeded>> /\ Fetching' = Fetching
    BY <2>1 DEF Waiting, Working, Arrived, OnItsWay, Uploaded, Succeeded, Fetching, Before
  <2>3. QED
    BY <2>1, <2>2 DEF BouncerInv, BouncerTypes, Control, Once, Apart, Everywhere, Outcome, Counting
<1>5. QED
  BY <1>1, <1>2, <1>3, <1>4 DEF Next, Exited

-----------------------------------------------------------------------------
(* What the invariant says of the properties.                              *)

LEMMA OneCopy ==
  ASSUME BouncerInv, NEW u \in Url
  PROVE  Copies(u) = IF u \in nameSet THEN 1 ELSE 0
<1> USE DEF BouncerInv
<1>1. Cardinality(Positions(downloadQ, u)) = IF u \in Waiting THEN 1 ELSE 0
  BY PositionsOnce DEF BouncerTypes, Once, Waiting
<1>2. Cardinality(Positions(uploadQ, u)) = IF u \in Arrived THEN 1 ELSE 0
  BY PositionsOnce DEF BouncerTypes, Once, Arrived
<1>3. u # None
  BY BouncerAssumption DEF BouncerAssumption
<1> DEFINE H == {d \in Downloader : Before(d) /\ image[d] = u}
<1>4. Cardinality(H) = IF u \in Fetching THEN 1 ELSE 0
  <2>1. CASE u \in Fetching
    <3>1. PICK d \in Downloader : Before(d) /\ image[d] = u
      BY <2>1 DEF Fetching
    <3>2. H = {d}
      BY <1>3, <3>1 DEF Once
    <3>3. QED
      BY <2>1, <3>2, FS_Singleton
  <2>2. CASE u \notin Fetching
    <3>1. H = {}
      BY <2>2 DEF Fetching
    <3>2. QED
      BY <2>2, <3>1, FS_EmptySet
  <2>3. QED
    BY <2>1, <2>2
<1>5. ASSUME NEW S PROVE Cardinality({u} \cap S) = IF u \in S THEN 1 ELSE 0
  <2>1. {u} \cap S = IF u \in S THEN {u} ELSE {}
    OBVIOUS
  <2>2. QED
    BY <2>1, FS_Singleton, FS_EmptySet
<1>6. /\ Cardinality({u} \cap {uploading}) = IF u \in OnItsWay THEN 1 ELSE 0
      /\ Cardinality({u} \cap failed) = IF u \in failed THEN 1 ELSE 0
      /\ Cardinality({u} \cap (s3 \ keySet)) = IF u \in Uploaded THEN 1 ELSE 0
  BY <1>3, <1>5 DEF OnItsWay, Uploaded
<1> HIDE DEF H
<1>7. Copies(u) = (IF u \in Waiting THEN 1 ELSE 0) + (IF u \in Arrived THEN 1 ELSE 0)
                   + (IF u \in Fetching THEN 1 ELSE 0) + (IF u \in OnItsWay THEN 1 ELSE 0)
                   + (IF u \in failed THEN 1 ELSE 0) + (IF u \in Uploaded THEN 1 ELSE 0)
  BY <1>1, <1>2, <1>4, <1>6 DEF Copies, H
<1>8. Fetching \subseteq Working
  BY BouncerAssumption DEF Fetching, Working, Control, Before, InLoop
<1>9. QED
  BY <1>7, <1>8 DEF Apart, Everywhere

LEMMA AtTheEnd ==
  ASSUME BouncerInv, mainPc = "exit"
  PROVE  Waiting = {} /\ Working = {} /\ Fetching = {} /\ OnItsWay = {} /\ Arrived \subseteq late
<1> USE DEF BouncerInv
<1>1. \A d \in Downloader : pc[d] = "done" /\ image[d] = None
  BY DEF Control, InLoop
<1>2. Waiting = {}
  BY <1>1, BouncerAssumption, EmptyOnce DEF BouncerAssumption, Control, Waiting
<1>3. Working = {} /\ Fetching = {}
  BY <1>1 DEF Working, Fetching, Before
<1>4. OnItsWay = {} /\ Arrived \subseteq late
  BY DEF Control, OnItsWay
<1>5. QED
  BY <1>2, <1>3, <1>4

LEMMA InvGivesEachOnce == BouncerInv => EachImageOnce
<1> SUFFICES ASSUME BouncerInv PROVE EachImageOnce
  OBVIOUS
<1>1. \A u \in Url : Copies(u) = IF u \in nameSet THEN 1 ELSE 0
  BY OneCopy
<1>2. mainPc = "exit" => nameSet \subseteq s3 \cup failed \cup late
  BY AtTheEnd DEF BouncerInv, Everywhere, Uploaded
<1>3. QED
  BY <1>1, <1>2 DEF EachImageOnce

LEMMA InvGivesCounts == BouncerInv => CountsAddUp
<1> SUFFICES ASSUME BouncerInv PROVE CountsAddUp
  OBVIOUS
<1>1. TypeOK
  BY DEF BouncerInv, BouncerTypes, TypeOK
<1>2. ASSUME mainPc = "exit"
      PROVE  /\ counts["failure"] = Cardinality(failed)
             /\ counts["success"] = Cardinality(nameSet \ failed)
  <2>1. Succeeded = nameSet \ failed /\ failed \ Working = failed
    BY <1>2, AtTheEnd DEF Succeeded
  <2>2. QED
    BY <2>1 DEF BouncerInv, Counting
<1>3. QED
  BY <1>1, <1>2 DEF CountsAddUp

(* No image is fetched or uploaded twice, and when the program has ended   *)
(* each image it wanted is in S3, was reported as failed, or reached the   *)
(* upload queue after the upload thread last found it empty.               *)
THEOREM ImagesMoveOnce == Spec => []EachImageOnce
<1>1. Spec => []BouncerInv
  BY InitBouncer, NextBouncer, PTL DEF Spec
<1>2. QED
  BY <1>1, InvGivesEachOnce, PTL

(* When the program has ended the two counts it prints are the numbers of  *)
(* images fetched and given up, whichever threads incremented them.        *)
THEOREM CountsAreExact == Spec => []CountsAddUp
<1>1. Spec => []BouncerInv
  BY InitBouncer, NextBouncer, PTL DEF Spec
<1>2. QED
  BY <1>1, InvGivesCounts, PTL

-----------------------------------------------------------------------------
(* Sums over finite sets.                                                  *)

LEMMA LeastNumber ==
  ASSUME NEW T, T \subseteq Nat, T # {}
  PROVE  \E x \in T : \A y \in T : x <= y
<1> DEFINE R == OpToRel(<, Nat)
<1>1. IsWellFoundedOn(R, Nat)
  BY NatLessThanWellFounded
<1>2. \A x, y \in Nat : y < x => <<y, x>> \in R
  BY DEF OpToRel
<1> HIDE DEF R
<1>3. PICK x \in T : \A y \in T : ~(<<y, x>> \in R)
  BY <1>1, WFMin
<1>4. \A y \in T : ~(y < x)
  BY <1>2, <1>3, Zenon
<1>5. \A y \in T : x \in Nat /\ y \in Nat
  OBVIOUS
<1>6. QED
  BY <1>4, <1>5

LEMMA Induction ==
  ASSUME NEW T, T \subseteq Nat, 0 \in T, \A n \in T : n + 1 \in T
  PROVE  T = Nat
<1>1. SUFFICES ASSUME Nat \ T # {} PROVE FALSE
  OBVIOUS
<1>2. PICK x \in Nat \ T : \A y \in Nat \ T : x <= y
  BY <1>1, LeastNumber
<1>3. x # 0 /\ x - 1 \in Nat
  BY <1>2
<1>4. x - 1 \in T
  BY <1>2, <1>3
<1>5. x - 1 + 1 \in T
  BY <1>4
<1>6. QED
  BY <1>2, <1>3, <1>5

(* MapThenSumSet takes some element away and goes on with the rest.        *)
One(s) == CHOOSE x \in s : TRUE
Sums(f, g, S) == f = [s \in SUBSET S |-> IF s = {} THEN 0 ELSE g[One(s)] + f[s \ {One(s)}]]
Total(g, S) == (CHOOSE f : Sums(f, g, S))[S]
Counts(g, S) == IsFiniteSet(S) /\ \A x \in S : g[x] \in Nat

LEMMA SumIsTotal == \A count : Sum(count) = Total(count, Name)
BY DEF Sum, MapThenSumSet, MapThenFoldSet, Total, Sums, One

LEMMA SomeOne == \A s : s # {} => One(s) \in s
BY DEF One

LEMMA Smaller ==
  ASSUME NEW s, IsFiniteSet(s), NEW x \in s
  PROVE  IsFiniteSet(s \ {x}) /\ Cardinality(s \ {x}) = Cardinality(s) - 1 /\ Cardinality(s) \in Nat
BY FS_RemoveElement, FS_CardinalityType

(* The sums up to some size.                                               *)
SumsTo(f, g, S, n) ==
  \A s \in SUBSET S :
    Cardinality(s) <= n => f[s] = IF s = {} THEN 0 ELSE g[One(s)] + f[s \ {One(s)}]

LEMMA SumsToExist ==
  ASSUME NEW g, NEW S, IsFiniteSet(S), NEW n \in Nat
  PROVE  \E f : SumsTo(f, g, S, n)
<1>0. \A s \in SUBSET S : IsFiniteSet(s) /\ Cardinality(s) \in Nat
  BY FS_Subset, FS_CardinalityType
<1> DEFINE T == {m \in Nat : \E f : SumsTo(f, g, S, m)}
<1>1. 0 \in T
  <2>1. \A s \in SUBSET S : Cardinality(s) <= 0 => s = {}
    BY <1>0, FS_EmptySet
  <2>2. SumsTo([s \in SUBSET S |-> 0], g, S, 0)
    BY <2>1 DEF SumsTo
  <2>3. QED
    BY <2>2
<1>2. ASSUME NEW m \in T PROVE m + 1 \in T
  <2>1. m \in Nat
    OBVIOUS
  <2>2. PICK f : SumsTo(f, g, S, m)
    BY <1>2
  <2> DEFINE h == [s \in SUBSET S |->
                     IF Cardinality(s) <= m THEN f[s] ELSE g[One(s)] + f[s \ {One(s)}]]
  <2>3. ASSUME NEW s \in SUBSET S, Cardinality(s) <= m + 1
        PROVE  h[s] = IF s = {} THEN 0 ELSE g[One(s)] + h[s \ {One(s)}]
    <3>1. CASE s = {}
      BY <1>0, <2>1, <2>2, <3>1, FS_EmptySet DEF SumsTo
    <3>2. CASE s # {}
      <4>1. One(s) \in s /\ s \ {One(s)} \in SUBSET S
        BY <3>2, SomeOne
      <4>2. Cardinality(s \ {One(s)}) <= m
        BY <1>0, <2>1, <2>3, <4>1, Smaller
      <4>3. h[s \ {One(s)}] = f[s \ {One(s)}]
        BY <4>1, <4>2
      <4>4. h[s] = g[One(s)] + f[s \ {One(s)}]
        BY <2>2, <3>2 DEF SumsTo
      <4>5. QED
        BY <3>2, <4>3, <4>4
    <3>3. QED
      BY <3>1, <3>2
  <2> HIDE DEF h
  <2>4. SumsTo(h, g, S, m + 1)
    BY <2>3 DEF SumsTo
  <2>5. QED
    BY <2>1, <2>4
<1>3. T \subseteq Nat
  OBVIOUS
<1>4. T = Nat
  <2> HIDE DEF T
  <2>1. QED
    BY <1>1, <1>2, <1>3, Induction
<1>5. n \in T
  BY <1>4
<1>6. QED
  BY <1>5

LEMMA SumsExist ==
  ASSUME NEW g, NEW S, IsFiniteSet(S)
  PROVE  \E f : Sums(f, g, S)
<1>1. Cardinality(S) \in Nat
  BY FS_CardinalityType
<1>2. PICK f : SumsTo(f, g, S, Cardinality(S))
  BY <1>1, SumsToExist
<1>3. \A s \in SUBSET S : Cardinality(s) <= Cardinality(S)
  BY FS_Subset
<1> DEFINE h == [s \in SUBSET S |-> f[s]]
<1>4. \A s \in SUBSET S : h[s] = IF s = {} THEN 0 ELSE g[One(s)] + h[s \ {One(s)}]
  BY <1>2, <1>3 DEF SumsTo
<1>5. h = [s \in SUBSET S |-> h[s]]
  OBVIOUS
<1> HIDE DEF h
<1>6. Sums(h, g, S)
  BY <1>4, <1>5 DEF Sums
<1>7. QED
  BY <1>6

(* The order in which the elements are taken away makes no difference.     *)
LEMMA AnyOrder ==
  ASSUME NEW g, NEW S, Counts(g, S), NEW f, Sums(f, g, S)
  PROVE  \A s \in SUBSET S : f[s] \in Nat /\ \A a \in s : f[s] = g[a] + f[s \ {a}]
<1>0. \A s \in SUBSET S : IsFiniteSet(s) /\ Cardinality(s) \in Nat
  BY FS_Subset, FS_CardinalityType DEF Counts
<1>s. \A s \in SUBSET S : f[s] = IF s = {} THEN 0 ELSE g[One(s)] + f[s \ {One(s)}]
  BY DEF Sums
<1> DEFINE Good(s) == f[s] \in Nat /\ \A a \in s : f[s] = g[a] + f[s \ {a}]
           T == {n \in Nat : \A s \in SUBSET S : Cardinality(s) <= n => Good(s)}
<1>1. 0 \in T
  <2>1. \A s \in SUBSET S : Cardinality(s) <= 0 => s = {}
    BY <1>0, FS_EmptySet
  <2>2. ASSUME NEW s \in SUBSET S, Cardinality(s) <= 0 PROVE Good(s)
    <3>1. s = {}
      BY <2>1, <2>2
    <3>2. f[s] = 0
      BY <1>s, <3>1
    <3>3. QED
      BY <3>1, <3>2
  <2> HIDE DEF Good
  <2>3. QED
    BY <2>2
<1>2. ASSUME NEW n \in T PROVE n + 1 \in T
  <2>1. n \in Nat
    OBVIOUS
  <2>a. \A s \in SUBSET S : Cardinality(s) <= n => Good(s)
    OBVIOUS
  <2>2. SUFFICES ASSUME NEW s \in SUBSET S, Cardinality(s) <= n + 1, s # {} PROVE Good(s)
    <3>1. Good({})
      <4>1. f[{}] = 0
        BY <1>s
      <4>2. QED
        BY <4>1
    <3>2. n + 1 \in Nat
      BY <2>1
    <3> HIDE DEF Good
    <3>3. QED
      BY <3>1, <3>2
  <2>3. PICK x \in s : x = One(s)
    BY <2>2, SomeOne
  <2>4. ASSUME NEW y \in s
        PROVE  f[s \ {y}] \in Nat /\ \A b \in s \ {y} : f[s \ {y}] = g[b] + f[(s \ {y}) \ {b}]
    <3>1. Cardinality(s \ {y}) <= n /\ s \ {y} \in SUBSET S
      BY <1>0, <2>1, <2>2, Smaller
    <3>2. Good(s \ {y})
      BY <3>1
    <3>3. QED
      BY <3>2
  <2>5. f[s] = g[x] + f[s \ {x}]
    BY <1>s, <2>2, <2>3
  <2>6. f[s] \in Nat
    BY <2>4, <2>5 DEF Counts
  <2>7. ASSUME NEW a \in s PROVE f[s] = g[a] + f[s \ {a}]
    <3>1. CASE a = x
      BY <2>5, <3>1
    <3>2. CASE a # x
      <4>1. (s \ {x}) \ {a} = (s \ {a}) \ {x}
        OBVIOUS
      <4>2. PICK r : r = f[(s \ {x}) \ {a}]
        OBVIOUS
      <4>3. f[s \ {x}] = g[a] + r /\ f[s \ {a}] = g[x] + r
        BY <2>4, <3>2, <4>1, <4>2
      <4>4. r \in Nat
        <5>1. Cardinality(s \ {x}) <= n /\ s \ {x} \in SUBSET S
          BY <1>0, <2>1, <2>2, Smaller
        <5>2. Cardinality((s \ {x}) \ {a}) = Cardinality(s \ {x}) - 1
          BY <1>0, <3>2, <5>1, Smaller
        <5>4. Cardinality((s \ {x}) \ {a}) <= n /\ (s \ {x}) \ {a} \in SUBSET S
          BY <1>0, <2>1, <5>1, <5>2
        <5>3. Good((s \ {x}) \ {a})
          BY <2>a, <5>4
        <5>5. QED
          BY <4>2, <5>3
      <4>5. g[a] \in Nat /\ g[x] \in Nat
        BY DEF Counts
      <4>6. QED
        BY <2>5, <4>3, <4>4, <4>5
    <3>3. QED
      BY <3>1, <3>2
  <2>8. QED
    BY <2>6, <2>7
<1>3. T \subseteq Nat
  OBVIOUS
<1>4. T = Nat
  <2> HIDE DEF T
  <2>1. QED
    BY <1>1, <1>2, <1>3, Induction
<1>5. ASSUME NEW s \in SUBSET S PROVE Good(s)
  <2>1. PICK n \in Nat : n = Cardinality(s)
    BY <1>0
  <2>2. n \in T
    <3> HIDE DEF T
    <3>1. QED
      BY <1>4
  <2>3. \A r \in SUBSET S : Cardinality(r) <= n => Good(r)
    BY <2>2
  <2>4. n <= n
    OBVIOUS
  <2> HIDE DEF Good
  <2>5. QED
    BY <2>1, <2>3, <2>4
<1>6. QED
  BY <1>5

LEMMA TotalIs ==
  ASSUME NEW g, NEW S, IsFiniteSet(S)
  PROVE  \E f : Sums(f, g, S) /\ Total(g, S) = f[S]
<1>1. \E f : Sums(f, g, S)
  BY SumsExist
<1>2. Sums(CHOOSE f : Sums(f, g, S), g, S)
  BY <1>1
<1>3. QED
  BY <1>2 DEF Total

(* Two solutions of the recursion agree.                                   *)
LEMMA SumsAgree ==
  ASSUME NEW g, NEW S, Counts(g, S), NEW R \in SUBSET S, NEW f, Sums(f, g, S), NEW h, Sums(h, g, R)
  PROVE  h[R] = f[R]
<1>0. \A s \in SUBSET R : IsFiniteSet(s) /\ Cardinality(s) \in Nat
  BY FS_Subset, FS_CardinalityType DEF Counts
<1>r. \A s \in SUBSET R : s # {} => One(s) \in s
  BY SomeOne
<1> DEFINE T == {n \in Nat : \A s \in SUBSET R : Cardinality(s) <= n => f[s] = h[s]}
<1>f. \A s \in SUBSET R : f[s] = IF s = {} THEN 0 ELSE g[One(s)] + f[s \ {One(s)}]
  BY DEF Sums
<1>h. \A s \in SUBSET R : h[s] = IF s = {} THEN 0 ELSE g[One(s)] + h[s \ {One(s)}]
  BY DEF Sums
<1>1. 0 \in T
  <2>1. \A s \in SUBSET R : Cardinality(s) <= 0 => s = {}
    BY <1>0, FS_EmptySet
  <2>2. QED
    BY <1>f, <1>h, <2>1
<1>2. ASSUME NEW n \in T PROVE n + 1 \in T
  <2>1. n \in Nat /\ n + 1 \in Nat
    OBVIOUS
  <2>a. \A s \in SUBSET R : Cardinality(s) <= n => f[s] = h[s]
    OBVIOUS
  <2>2. ASSUME NEW s \in SUBSET R, Cardinality(s) <= n + 1 PROVE f[s] = h[s]
    <3>1. CASE s = {}
      BY <1>f, <1>h, <3>1
    <3>2. CASE s # {}
      <4>1. One(s) \in s
        BY <1>r, <3>2
      <4>2. Cardinality(s \ {One(s)}) <= n
        BY <1>0, <2>1, <2>2, <4>1, Smaller
      <4>3. f[s \ {One(s)}] = h[s \ {One(s)}]
        BY <2>a, <4>2
      <4>4. QED
        BY <1>f, <1>h, <3>2, <4>3
    <3>3. QED
      BY <3>1, <3>2
  <2>3. QED
    BY <2>1, <2>2
<1>3. T \subseteq Nat
  OBVIOUS
<1>4. T = Nat
  <2> HIDE DEF T
  <2>1. QED
    BY <1>1, <1>2, <1>3, Induction
<1>5. PICK n \in Nat : n = Cardinality(R)
  BY <1>0
<1>6. \A s \in SUBSET R : Cardinality(s) <= n => f[s] = h[s]
  <2>1. n \in T
    <3> HIDE DEF T
    <3>1. QED
      BY <1>4
  <2>2. QED
    BY <2>1
<1>7. QED
  BY <1>5, <1>6

LEMMA TotalStep ==
  ASSUME NEW g, NEW S, Counts(g, S)
  PROVE  Total(g, S) \in Nat /\ \A a \in S : Total(g, S) = g[a] + Total(g, S \ {a})
<1>0. IsFiniteSet(S)
  BY DEF Counts
<1>1. PICK f : Sums(f, g, S) /\ Total(g, S) = f[S]
  BY <1>0, TotalIs
<1>2. f[S] \in Nat /\ \A a \in S : f[S] = g[a] + f[S \ {a}]
  BY <1>1, AnyOrder
<1>3. ASSUME NEW a \in S PROVE Total(g, S \ {a}) = f[S \ {a}]
  <2>1. IsFiniteSet(S \ {a}) /\ S \ {a} \in SUBSET S
    BY <1>0, FS_RemoveElement
  <2>2. PICK h : Sums(h, g, S \ {a}) /\ Total(g, S \ {a}) = h[S \ {a}]
    BY <2>1, TotalIs
  <2>3. QED
    BY <1>1, <2>1, <2>2, SumsAgree
<1>4. QED
  BY <1>1, <1>2, <1>3

LEMMA TotalSame ==
  ASSUME NEW S, NEW g, NEW h, Counts(g, S), \A x \in S : g[x] = h[x]
  PROVE  Total(g, S) = Total(h, S)
<1>0. IsFiniteSet(S) /\ S \in SUBSET S
  BY DEF Counts
<1>1. PICK f : Sums(f, h, S) /\ Total(h, S) = f[S]
  BY <1>0, TotalIs
<1>2. PICK k : Sums(k, g, S) /\ Total(g, S) = k[S]
  BY <1>0, TotalIs
<1>3. Sums(f, g, S)
  <2>1. ASSUME NEW s \in SUBSET S
        PROVE  (IF s = {} THEN 0 ELSE h[One(s)] + f[s \ {One(s)}])
                 = IF s = {} THEN 0 ELSE g[One(s)] + f[s \ {One(s)}]
    <3>1. s # {} => One(s) \in S
      BY SomeOne
    <3>2. QED
      BY <3>1
  <2>2. f = [s \in SUBSET S |-> IF s = {} THEN 0 ELSE h[One(s)] + f[s \ {One(s)}]]
    BY <1>1 DEF Sums
  <2>3. f = [s \in SUBSET S |-> IF s = {} THEN 0 ELSE g[One(s)] + f[s \ {One(s)}]]
    BY <2>1, <2>2, Zenon
  <2>4. QED
    BY <2>3 DEF Sums
<1>4. k[S] = f[S]
  BY <1>0, <1>2, <1>3, SumsAgree
<1>5. QED
  BY <1>1, <1>2, <1>4

(* A sum of which one term changes.                                        *)
LEMMA TotalChange ==
  ASSUME NEW S, NEW g, NEW h, Counts(g, S), Counts(h, S), NEW a \in S,
         \A x \in S \ {a} : g[x] = h[x]
  PROVE  Total(h, S) + g[a] = Total(g, S) + h[a]
<1>1. Counts(g, S \ {a})
  <2>1. IsFiniteSet(S \ {a})
    BY FS_RemoveElement DEF Counts
  <2>2. QED
    BY <2>1 DEF Counts
<1>2. Total(g, S \ {a}) = Total(h, S \ {a})
  BY <1>1, TotalSame
<1>3. PICK r \in Nat : r = Total(g, S \ {a})
  BY <1>1, TotalStep
<1>4. Total(g, S) = g[a] + r /\ Total(h, S) = h[a] + r
  BY <1>2, <1>3, TotalStep
<1>5. g[a] \in Nat /\ h[a] \in Nat
  BY DEF Counts
<1>6. QED
  BY <1>3, <1>4, <1>5

LEMMA TotalOfNothing ==
  ASSUME NEW g, NEW S, IsFiniteSet(S), \A x \in S : g[x] = 0
  PROVE  Total(g, S) = 0
<1>1. Counts(g, S) /\ S \in SUBSET S
  BY DEF Counts
<1>2. PICK h : Sums(h, g, S) /\ Total(g, S) = h[S]
  BY TotalIs
<1> DEFINE f == [s \in SUBSET S |-> 0]
<1>3. Sums(f, g, S)
  <2>1. ASSUME NEW s \in SUBSET S
        PROVE  f[s] = IF s = {} THEN 0 ELSE g[One(s)] + f[s \ {One(s)}]
    <3>1. s # {} => One(s) \in S
      BY SomeOne
    <3>2. QED
      BY <3>1
  <2>2. f = [s \in SUBSET S |-> f[s]]
    OBVIOUS
  <2> HIDE DEF f
  <2>3. QED
    BY <2>1, <2>2 DEF Sums
<1>4. f[S] = 0
  OBVIOUS
<1> HIDE DEF f
<1>5. QED
  BY <1>1, <1>2, <1>3, <1>4, SumsAgree

-----------------------------------------------------------------------------
(* Occurrences.                                                            *)

Upto(seq, n, k) == Cardinality({i \in 1..k : seq[i] = n})

LEMMA UptoStep ==
  ASSUME NEW seq, NEW n, NEW k \in Nat
  PROVE  /\ Upto(seq, n, k) \in Nat /\ Upto(seq, n, 0) = 0
         /\ Upto(seq, n, k + 1) = Upto(seq, n, k) + (IF seq[k + 1] = n THEN 1 ELSE 0)
<1> DEFINE A(j) == {i \in 1..j : seq[i] = n}
<1>1. IsFiniteSet(1..k)
  BY FS_Interval
<1>2. IsFiniteSet(A(k)) /\ Cardinality(A(k)) \in Nat
  <2>1. A(k) \subseteq 1..k
    OBVIOUS
  <2> HIDE DEF A
  <2>2. IsFiniteSet(A(k))
    BY <1>1, <2>1, FS_Subset
  <2>3. QED
    BY <2>2, FS_CardinalityType
<1>3. A(0) = {}
  OBVIOUS
<1>4. A(k + 1) = IF seq[k + 1] = n THEN A(k) \cup {k + 1} ELSE A(k)
  OBVIOUS
<1>5. k + 1 \notin A(k)
  OBVIOUS
<1>6. /\ Upto(seq, n, k) = Cardinality(A(k)) /\ Upto(seq, n, 0) = Cardinality(A(0))
      /\ Upto(seq, n, k + 1) = Cardinality(A(k + 1))
  BY DEF Upto
<1> HIDE DEF A
<1>7. Cardinality(A(k) \cup {k + 1}) = Cardinality(A(k)) + 1
  BY <1>2, <1>5, FS_AddElement
<1>8. Cardinality(A(0)) = 0
  BY <1>3, FS_EmptySet
<1>9. QED
  BY <1>2, <1>4, <1>6, <1>7, <1>8

LEMMA UptoNext ==
  ASSUME NEW seq, NEW n, NEW k \in Nat, NEW j, j = k + 1
  PROVE  Upto(seq, n, j) = Upto(seq, n, k) + (IF seq[j] = n THEN 1 ELSE 0)
BY UptoStep

LEMMA OccurrencesUpto ==
  ASSUME NEW S, NEW seq \in Seq(S), NEW n
  PROVE  Occurrences(seq, n) = Upto(seq, n, Len(seq)) /\ Occurrences(seq, n) \in Nat
<1>1. DOMAIN seq = 1..Len(seq) /\ Len(seq) \in Nat
  OBVIOUS
<1>2. Occurrences(seq, n) = Upto(seq, n, Len(seq))
  BY <1>1 DEF Occurrences, Upto
<1>3. QED
  BY <1>1, <1>2, UptoStep

LEMMA Concatenation ==
  ASSUME NEW S, NEW s \in Seq(S), NEW t \in Seq(S)
  PROVE  /\ s \o t \in Seq(S) /\ Len(s \o t) = Len(s) + Len(t) /\ Len(s) \in Nat /\ Len(t) \in Nat
         /\ \A i \in 1..Len(s) : (s \o t)[i] = s[i]
         /\ \A i \in 1..Len(t) : (s \o t)[Len(s) + i] = t[i]
OBVIOUS

LEMMA OccursInBoth ==
  ASSUME NEW S, NEW s \in Seq(S), NEW t \in Seq(S), NEW n
  PROVE  Occurrences(s \o t, n) = Occurrences(s, n) + Occurrences(t, n)
<1> DEFINE st == s \o t
<1>1. /\ st \in Seq(S) /\ Len(st) = Len(s) + Len(t) /\ Len(s) \in Nat /\ Len(t) \in Nat
      /\ \A i \in 1..Len(s) : st[i] = s[i]
      /\ \A i \in 1..Len(t) : st[Len(s) + i] = t[i]
  BY Concatenation
<1> HIDE DEF st
<1>a. PICK a \in Nat, b \in Nat : a = Len(s) /\ b = Len(t)
  BY <1>1
<1>2. Upto(st, n, a) = Upto(s, n, a)
  <2>1. {i \in 1..a : st[i] = n} = {i \in 1..a : s[i] = n}
    BY <1>1, <1>a
  <2>2. QED
    BY <2>1 DEF Upto
<1> DEFINE T == {k \in Nat : k <= b => Upto(st, n, a + k) = Upto(s, n, a) + Upto(t, n, k)}
<1>3. 0 \in T
  <2>1. Upto(t, n, 0) = 0 /\ Upto(s, n, a) \in Nat /\ a + 0 = a
    BY UptoStep
  <2>2. QED
    BY <1>2, <2>1
<1>4. ASSUME NEW k \in T PROVE k + 1 \in T
  <2>1. k \in Nat /\ k + 1 \in Nat /\ a + (k + 1) = (a + k) + 1 /\ a + k \in Nat
    OBVIOUS
  <2>2. SUFFICES ASSUME k + 1 <= b
                 PROVE  Upto(st, n, a + (k + 1)) = Upto(s, n, a) + Upto(t, n, k + 1)
    BY <2>1
  <2>3. st[(a + k) + 1] = t[k + 1]
    <3>1. k + 1 \in 1..b
      BY <2>1, <2>2
    <3>2. st[a + (k + 1)] = t[k + 1]
      BY <1>1, <1>a, <3>1
    <3>3. QED
      BY <2>1, <3>2
  <2>4. Upto(st, n, a + k) = Upto(s, n, a) + Upto(t, n, k)
    BY <2>1, <2>2
  <2>a. PICK c \in Nat, d \in Nat : c = a + k /\ d = c + 1 /\ d = a + (k + 1)
    BY <2>1
  <2>b. PICK e \in Nat : e = k + 1
    BY <2>1
  <2>c. k \in Nat
    OBVIOUS
  <2>5. Upto(st, n, d) = Upto(st, n, c) + (IF t[e] = n THEN 1 ELSE 0)
    <3>1. Upto(st, n, d) = Upto(st, n, c) + (IF st[d] = n THEN 1 ELSE 0)
      <4> HIDE DEF T
      <4>1. QED
        BY <2>a, UptoNext
    <3>2. st[d] = t[e]
      BY <2>3, <2>a, <2>b
    <3>3. QED
      BY <3>1, <3>2
  <2>6. Upto(t, n, e) = Upto(t, n, k) + (IF t[e] = n THEN 1 ELSE 0)
    <3> HIDE DEF T
    <3>1. QED
      BY <2>b, <2>c, UptoNext
  <2>7. Upto(t, n, k) \in Nat /\ Upto(s, n, a) \in Nat
    BY <2>1, UptoStep
  <2>8. QED
    BY <2>1, <2>4, <2>5, <2>6, <2>7, <2>a, <2>b
<1>5. T \subseteq Nat
  OBVIOUS
<1>6. T = Nat
  <2> HIDE DEF T
  <2>1. QED
    BY <1>3, <1>4, <1>5, Induction
<1>7. b \in T /\ b <= b
  BY <1>6
<1>8. Upto(st, n, a + b) = Upto(s, n, a) + Upto(t, n, b)
  BY <1>7
<1> HIDE DEF T
<1>9. Occurrences(st, n) = Upto(st, n, a + b)
  BY <1>1, <1>a, OccurrencesUpto
<1>10. Occurrences(s, n) = Upto(s, n, a) /\ Occurrences(t, n) = Upto(t, n, b)
  BY <1>a, OccurrencesUpto
<1>11. QED
  BY <1>8, <1>9, <1>10 DEF st

LEMMA OccursInNone ==
  ASSUME NEW n
  PROVE  Occurrences(<<>>, n) = 0
<1>1. {k \in DOMAIN <<>> : <<>>[k] = n} = {}
  OBVIOUS
<1>2. QED
  BY <1>1, FS_EmptySet DEF Occurrences

LEMMA OccursInOne ==
  ASSUME NEW x \in Name, NEW n
  PROVE  Occurrences(<<x>>, n) = IF x = n THEN 1 ELSE 0
<1>1. <<x>> \in Seq(Name) /\ Len(<<x>>) = 1 /\ <<x>>[1] = x
  OBVIOUS
<1>2. Occurrences(<<x>>, n) = Upto(<<x>>, n, 1)
  BY <1>1, OccurrencesUpto
<1>3. Upto(<<x>>, n, 0 + 1) = Upto(<<x>>, n, 0) + (IF <<x>>[0 + 1] = n THEN 1 ELSE 0)
  BY UptoStep
<1>4. Upto(<<x>>, n, 0) = 0 /\ 0 + 1 = 1
  BY UptoStep
<1>5. QED
  BY <1>1, <1>2, <1>3, <1>4

LEMMA OccursOnce ==
  ASSUME NEW s \in Seq(Name), NEW n
  PROVE  /\ n \notin ToSet(s) => Occurrences(s, n) = 0
         /\ n \in ToSet(s) => Occurrences(s, n) > 0
         /\ IsInjective(s) /\ n \in ToSet(s) => Occurrences(s, n) = 1
<1> DEFINE P == {k \in DOMAIN s : s[k] = n}
<1>1. Occurrences(s, n) = Cardinality(P)
  BY DEF Occurrences
<1>2. ASSUME n \notin ToSet(s) PROVE P = {}
  BY <1>2 DEF ToSet
<1>3. ASSUME n \in ToSet(s) PROVE P # {}
  BY <1>3 DEF ToSet
<1>4. ASSUME IsInjective(s), n \in ToSet(s) PROVE \E k : P = {k}
  <2>1. PICK k \in DOMAIN s : s[k] = n
    BY <1>4 DEF ToSet
  <2>2. \A j \in DOMAIN s : s[j] = n => j = k
    BY <1>4, <2>1 DEF IsInjective
  <2>3. P = {k}
    BY <2>1, <2>2
  <2>4. QED
    BY <2>3
<1>5. IsFiniteSet(P)
  <2>1. IsFiniteSet(1..Len(s)) /\ DOMAIN s = 1..Len(s)
    BY FS_Interval
  <2>2. P \subseteq 1..Len(s)
    BY <2>1
  <2> HIDE DEF P
  <2>3. QED
    BY <2>1, <2>2, FS_Subset
<1> HIDE DEF P
<1>6. Cardinality(P) \in Nat /\ (Cardinality(P) = 0 <=> P = {})
  BY <1>5, FS_CardinalityType, FS_EmptySet
<1>7. \A k : Cardinality({k}) = 1
  BY FS_Singleton
<1>8. n \notin ToSet(s) => Occurrences(s, n) = 0
  BY <1>1, <1>2, <1>6
<1>9. n \in ToSet(s) => Occurrences(s, n) > 0
  BY <1>1, <1>3, <1>6
<1>10. IsInjective(s) /\ n \in ToSet(s) => Occurrences(s, n) = 1
  BY <1>1, <1>4, <1>7
<1>11. QED
  BY <1>8, <1>9, <1>10

(* A count of each name, and the names of a sequence.                      *)
LEMMA SumOfAdding ==
  ASSUME NEW count \in [Name -> Nat], NEW seq \in Seq(Name)
  PROVE  Adding(count, seq) \in [Name -> Nat] /\ Sum(Adding(count, seq)) = Sum(count) + Len(seq)
<1>1. IsFiniteSet(Name)
  BY ResizeAssumption DEF ResizeAssumption
<1>2. \A n : \A k \in Nat : Upto(seq, n, k) \in Nat
  BY UptoStep
<1> DEFINE G(k) == [n \in Name |-> count[n] + Upto(seq, n, k)]
<1>3. \A k \in Nat : Counts(G(k), Name)
  BY <1>1, <1>2 DEF Counts
<1>4. Len(seq) \in Nat /\ \A k \in 1..Len(seq) : seq[k] \in Name
  OBVIOUS
<1>5. Total(G(0), Name) = Total(count, Name) /\ Total(count, Name) \in Nat
  <2>1. Counts(count, Name)
    BY <1>1 DEF Counts
  <2>2. \A n \in Name : count[n] = G(0)[n]
    BY UptoStep
  <2> HIDE DEF G
  <2>3. QED
    BY <2>1, <2>2, TotalSame, TotalStep
<1>6. ASSUME NEW k \in Nat, k + 1 <= Len(seq)
      PROVE  Total(G(k + 1), Name) = Total(G(k), Name) + 1
  <2>1. PICK a \in Name : a = seq[k + 1]
    BY <1>4, <1>6
  <2>2. \A n \in Name \ {a} : G(k)[n] = G(k + 1)[n]
    <3>1. ASSUME NEW n \in Name \ {a} PROVE Upto(seq, n, k + 1) = Upto(seq, n, k)
      <4>1. PICK j \in Nat : j = k + 1
        OBVIOUS
      <4>2. Upto(seq, n, j) = Upto(seq, n, k) + (IF seq[j] = n THEN 1 ELSE 0)
        BY <4>1, UptoNext
      <4>3. seq[j] # n /\ Upto(seq, n, k) \in Nat
        BY <1>2, <2>1, <4>1
      <4>4. QED
        BY <4>1, <4>2, <4>3
    <3>2. QED
      BY <3>1
  <2>3. G(k + 1)[a] = G(k)[a] + 1 /\ G(k)[a] \in Nat
    <3>1. Upto(seq, a, k + 1) = Upto(seq, a, k) + 1
      BY <2>1, UptoStep
    <3>2. QED
      BY <1>2, <3>1
  <2>4. k + 1 \in Nat
    OBVIOUS
  <2> HIDE DEF G
  <2>5. Total(G(k + 1), Name) + G(k)[a] = Total(G(k), Name) + G(k + 1)[a]
    <3>1. PICK g : g = G(k)
      OBVIOUS
    <3>2. PICK h : h = G(k + 1)
      OBVIOUS
    <3>3. Counts(g, Name) /\ Counts(h, Name) /\ \A x \in Name \ {a} : g[x] = h[x]
      BY <1>3, <2>2, <2>4, <3>1, <3>2
    <3>4. Total(h, Name) + g[a] = Total(g, Name) + h[a]
      BY <3>3, TotalChange
    <3>5. QED
      BY <3>1, <3>2, <3>4
  <2>6. Total(G(k), Name) \in Nat /\ Total(G(k + 1), Name) \in Nat
    BY <1>3, <2>4, TotalStep
  <2>7. QED
    BY <2>3, <2>5, <2>6
<1> DEFINE T == {k \in Nat : k <= Len(seq) => Total(G(k), Name) = Total(count, Name) + k}
<1> HIDE DEF G
<1>7. 0 \in T
  BY <1>5
<1>8. ASSUME NEW k \in T PROVE k + 1 \in T
  <2>1. k \in Nat /\ k + 1 \in Nat
    OBVIOUS
  <2>2. SUFFICES ASSUME k + 1 <= Len(seq) PROVE Total(G(k + 1), Name) = Total(count, Name) + (k + 1)
    BY <2>1
  <2>3. Total(G(k), Name) = Total(count, Name) + k
    BY <1>4, <2>1, <2>2
  <2>4. QED
    BY <1>5, <1>6, <2>1, <2>2, <2>3
<1>9. T \subseteq Nat
  OBVIOUS
<1>10. T = Nat
  <2> HIDE DEF T
  <2>1. QED
    BY <1>7, <1>8, <1>9, Induction
<1>11. Total(G(Len(seq)), Name) = Total(count, Name) + Len(seq)
  <2>1. Len(seq) \in T /\ Len(seq) <= Len(seq)
    BY <1>4, <1>10
  <2>2. QED
    BY <2>1
<1>12. Adding(count, seq) = G(Len(seq))
  <2>1. \A n : Occurrences(seq, n) = Upto(seq, n, Len(seq))
    BY OccurrencesUpto
  <2>2. QED
    BY <2>1 DEF G, Adding
<1>13. Adding(count, seq) \in [Name -> Nat]
  <2>1. \A n : Occurrences(seq, n) \in Nat
    BY OccurrencesUpto
  <2>2. QED
    BY <2>1 DEF Adding
<1>14. QED
  BY <1>11, <1>12, <1>13, SumIsTotal

-----------------------------------------------------------------------------
(* What the workers have in hand.                                          *)

Hands(hand, n) == [w \in ResizeWorker |-> Occurrences(hand[w], n)]

LEMMA InHandIsTotal ==
  ASSUME NEW n, workUnits \in [ResizeWorker -> Seq(Name)]
  PROVE  InHand(n) = Total(Hands(workUnits, n), ResizeWorker)
<1> DEFINE RW == ResizeWorker
           H == Hands(workUnits, n)
           P(f) == f = [s \in SUBSET RW |-> IF s = {} THEN 0
                          ELSE Occurrences(workUnits[One(s)], n) + f[s \ {One(s)}]]
<1>1. InHand(n) = (CHOOSE f : P(f))[RW]
  BY DEF InHand, MapThenSumSet, MapThenFoldSet, One
<1>2. ASSUME NEW f PROVE P(f) <=> Sums(f, H, RW)
  <2>1. ASSUME NEW s \in SUBSET RW
        PROVE  (IF s = {} THEN 0 ELSE Occurrences(workUnits[One(s)], n) + f[s \ {One(s)}])
                 = (IF s = {} THEN 0 ELSE H[One(s)] + f[s \ {One(s)}])
    <3>1. s # {} => One(s) \in RW
      BY SomeOne
    <3>2. QED
      BY <3>1 DEF Hands
  <2>2. [s \in SUBSET RW |-> IF s = {} THEN 0 ELSE Occurrences(workUnits[One(s)], n) + f[s \ {One(s)}]]
          = [s \in SUBSET RW |-> IF s = {} THEN 0 ELSE H[One(s)] + f[s \ {One(s)}]]
    BY <2>1, Zenon
  <2> HIDE DEF H
  <2>3. QED
    BY <2>2 DEF Sums
<1>3. Counts(H, RW)
  <2>1. IsFiniteSet(RW)
    BY ResizeAssumption DEF ResizeAssumption
  <2>2. \A w \in RW : Occurrences(workUnits[w], n) \in Nat
    BY OccurrencesUpto
  <2>3. QED
    BY <2>1, <2>2 DEF Counts, Hands
<1>4. IsFiniteSet(RW) /\ RW \in SUBSET RW
  BY <1>3 DEF Counts
<1> HIDE DEF P, H
<1>5. PICK g : Sums(g, H, RW) /\ Total(H, RW) = g[RW]
  BY <1>4, TotalIs
<1>6. P(CHOOSE f : P(f))
  BY <1>2, <1>5
<1>7. PICK f : f = CHOOSE h : P(h)
  OBVIOUS
<1>8. Sums(f, H, RW)
  BY <1>2, <1>6, <1>7
<1>9. f[RW] = g[RW]
  BY <1>3, <1>4, <1>5, <1>8, SumsAgree
<1>10. QED
  BY <1>1, <1>5, <1>7, <1>9 DEF H

HandOf(hand, n) == Total(Hands(hand, n), ResizeWorker)

TakesUp(after, hand, w, seq) == after = [hand EXCEPT ![w] = seq]

LEMMA HandChanges ==
  ASSUME NEW n, NEW hand \in [ResizeWorker -> Seq(Name)], NEW w \in ResizeWorker, NEW v \in Seq(Name),
         NEW after, TakesUp(after, hand, w, v)
  PROVE  /\ HandOf(after, n) + Occurrences(hand[w], n) = HandOf(hand, n) + Occurrences(v, n)
         /\ HandOf(hand, n) \in Nat /\ HandOf(after, n) \in Nat
<1>1. IsFiniteSet(ResizeWorker)
  BY ResizeAssumption DEF ResizeAssumption
<1>2. /\ after \in [ResizeWorker -> Seq(Name)] /\ after[w] = v
      /\ \A x \in ResizeWorker \ {w} : after[x] = hand[x]
  BY DEF TakesUp
<1>3. \A h \in {hand, after} : Counts(Hands(h, n), ResizeWorker)
  <2>1. \A h \in {hand, after} : \A x \in ResizeWorker : Occurrences(h[x], n) \in Nat
    BY <1>2, OccurrencesUpto
  <2>2. QED
    BY <1>1, <2>1 DEF Counts, Hands
<1>4. PICK g, k : g = Hands(hand, n) /\ k = Hands(after, n)
  OBVIOUS
<1>5. \A x \in ResizeWorker \ {w} : g[x] = k[x]
  BY <1>2, <1>4 DEF Hands
<1>6. g[w] = Occurrences(hand[w], n) /\ k[w] = Occurrences(v, n)
  BY <1>2, <1>4 DEF Hands
<1>7. Counts(g, ResizeWorker) /\ Counts(k, ResizeWorker)
  BY <1>3, <1>4
<1>8. Total(k, ResizeWorker) + g[w] = Total(g, ResizeWorker) + k[w]
  BY <1>5, <1>7, TotalChange
<1>9. Total(k, ResizeWorker) \in Nat /\ Total(g, ResizeWorker) \in Nat
  BY <1>7, TotalStep
<1>10. QED
  BY <1>4, <1>6, <1>8, <1>9 DEF HandOf

LEMMA NothingInHand ==
  ASSUME NEW n, NEW hand, hand = [w \in ResizeWorker |-> <<>>]
  PROVE  HandOf(hand, n) = 0
<1>1. IsFiniteSet(ResizeWorker)
  BY ResizeAssumption DEF ResizeAssumption
<1>2. \A w \in ResizeWorker : Hands(hand, n)[w] = 0
  BY OccursInNone DEF Hands
<1>3. QED
  BY <1>1, <1>2, TotalOfNothing DEF HandOf

-----------------------------------------------------------------------------
(* A chunk is the front of the queue.                                      *)

RestOf(seq) == SubSeq(seq, Len(ChunkOf(seq)) + 1, Len(seq))

LEMMA ChunkSplits ==
  ASSUME NEW seq \in Seq(Name)
  PROVE  /\ ChunkOf(seq) \in Seq(Name) /\ RestOf(seq) \in Seq(Name) /\ Len(ChunkOf(seq)) <= ChunkSize
         /\ seq # <<>> => ChunkOf(seq) # <<>>
         /\ seq = <<>> => ChunkOf(seq) = <<>>
         /\ \A n : Occurrences(seq, n) = Occurrences(ChunkOf(seq), n) + Occurrences(RestOf(seq), n)
<1>1. PICK size \in Nat \ {0} : size = ChunkSize
  BY ResizeAssumption DEF ResizeAssumption
<1>2. PICK a \in Nat : a = Len(seq)
  OBVIOUS
<1>3. PICK m : m = Min({size, a})
  OBVIOUS
<1>4. m \in Nat /\ m <= size /\ m <= a /\ (m = size \/ m = a)
  <2>1. PICK s : s = {size, a}
    OBVIOUS
  <2>2. \E x \in s : \A y \in s : x <= y
    <3>1. CASE size <= a
      BY <2>1, <3>1
    <3>2. CASE a <= size
      BY <2>1, <3>2
    <3>3. QED
      BY <3>1, <3>2
  <2>3. m = CHOOSE x \in s : \A y \in s : x <= y
    BY <1>3, <2>1 DEF Min
  <2>4. m \in s /\ \A y \in s : m <= y
    BY <2>2, <2>3
  <2>5. QED
    BY <2>1, <2>4
<1>5. ChunkOf(seq) = SubSeq(seq, 1, m)
  BY <1>1, <1>2, <1>3 DEF ChunkOf
<1>6. /\ SubSeq(seq, 1, m) \in Seq(Name) /\ Len(SubSeq(seq, 1, m)) = m
      /\ \A i \in 1..m : SubSeq(seq, 1, m)[i] = seq[i]
  BY <1>2, <1>4
<1>7. RestOf(seq) = SubSeq(seq, m + 1, a)
  BY <1>2, <1>5, <1>6 DEF RestOf
<1>8. /\ SubSeq(seq, m + 1, a) \in Seq(Name) /\ Len(SubSeq(seq, m + 1, a)) = a - m
      /\ \A i \in 1..(a - m) : SubSeq(seq, m + 1, a)[i] = seq[m + i]
  BY <1>2, <1>4
<1> DEFINE c == ChunkOf(seq)
           r == RestOf(seq)
<1>9. /\ c \in Seq(Name) /\ Len(c) = m /\ \A i \in 1..m : c[i] = seq[i]
      /\ r \in Seq(Name) /\ Len(r) = a - m /\ \A i \in 1..(a - m) : r[i] = seq[m + i]
  BY <1>5, <1>6, <1>7, <1>8
<1> HIDE DEF c, r
<1>10. seq = c \o r
  <2>1. /\ c \o r \in Seq(Name) /\ Len(c \o r) = Len(c) + Len(r)
        /\ \A i \in 1..Len(c) : (c \o r)[i] = c[i]
        /\ \A i \in 1..Len(r) : (c \o r)[Len(c) + i] = r[i]
    BY <1>9, Concatenation
  <2>2. Len(c \o r) = a
    BY <1>4, <1>9, <2>1
  <2>3. ASSUME NEW i \in 1..a PROVE (c \o r)[i] = seq[i]
    <3>1. CASE i <= m
      BY <1>4, <1>9, <2>1, <3>1
    <3>2. CASE i > m
      <4>1. PICK j \in 1..(a - m) : j = i - m
        BY <1>4, <3>2
      <4>2. m + j = i
        BY <1>4, <4>1
      <4>3. QED
        BY <1>9, <2>1, <4>1, <4>2
    <3>3. i <= m \/ i > m
      BY <1>4
    <3>4. QED
      BY <3>1, <3>2, <3>3
  <2>4. PICK st : st = c \o r
    OBVIOUS
  <2>5. st \in Seq(Name) /\ Len(st) = Len(seq) /\ \A i \in 1..Len(seq) : st[i] = seq[i]
    BY <1>2, <2>1, <2>2, <2>3, <2>4
  <2>6. st = seq
    BY <2>5
  <2>7. QED
    BY <2>4, <2>6
<1>11. \A n : Occurrences(c \o r, n) = Occurrences(c, n) + Occurrences(r, n)
  BY <1>9, OccursInBoth
<1>12. seq # <<>> => c # <<>>
  <2>1. seq # <<>> => a # 0
    BY <1>2
  <2>2. QED
    BY <1>4, <1>9, <2>1
<1>13. seq = <<>> => c = <<>>
  <2>1. seq = <<>> => a = 0
    BY <1>2
  <2>2. QED
    BY <1>4, <1>9, <2>1
<1>14. QED
  BY <1>1, <1>4, <1>9, <1>10, <1>11, <1>12, <1>13 DEF c, r

LEMMA HeadCounts ==
  ASSUME NEW seq \in Seq(Name), seq # <<>>, NEW n
  PROVE  /\ Head(seq) \in Name /\ Tail(seq) \in Seq(Name) /\ Len(Tail(seq)) = Len(seq) - 1
         /\ Occurrences(seq, n) = Occurrences(<<Head(seq)>>, n) + Occurrences(Tail(seq), n)
<1>1. Head(seq) \in Name /\ Tail(seq) \in Seq(Name) /\ Len(Tail(seq)) = Len(seq) - 1
  OBVIOUS
<1>2. PICK h \in Name, t \in Seq(Name) : h = Head(seq) /\ t = Tail(seq)
  BY <1>1
<1>3. seq = <<h>> \o t
  BY <1>2
<1>4. Occurrences(<<h>> \o t, n) = Occurrences(<<h>>, n) + Occurrences(t, n)
  <2>0. <<h>> \in Seq(Name)
    OBVIOUS
  <2>1. PICK s \in Seq(Name) : s = <<h>>
    BY <2>0
  <2>2. Occurrences(s \o t, n) = Occurrences(s, n) + Occurrences(t, n)
    BY OccursInBoth
  <2>3. QED
    BY <2>1, <2>2
<1>5. QED
  BY <1>1, <1>2, <1>3, <1>4

-----------------------------------------------------------------------------
(* The inductive invariant.                                                *)

Cause == {"reply", "kill", "stop"}
Ended == {w \in ResizeWorker : worker[w] = "exited"}

ResizeTypes ==
  /\ sourceFiles \in Seq(Name) /\ units \in Seq(Name) /\ images \in Seq(Name)
  /\ workUnits \in [ResizeWorker -> Seq(Name)]
  /\ worker \in [ResizeWorker -> {"ready", "work", "exited"}]
  /\ producer \in {"scan", "inner_retry", "outer_retry", "done"}
  /\ accepted \in [Name -> Nat] /\ resized \in [Name -> Nat]
  /\ dropped \in [Cause -> [Name -> Nat]]
  /\ resent \in Nat /\ faults \in Nat /\ resent <= faults

(* What the server accepted of each image is somewhere.                    *)
Places(n, pics, hand, done, lost) ==
  Occurrences(pics, n) + HandOf(hand, n) + done[n] + lost["reply"][n] + lost["kill"][n] + lost["stop"][n]
Accounts == \A n \in Name : accepted[n] = Places(n, images, workUnits, resized, dropped)

(* A name has not been looked at, or is in the units, or was accepted.     *)
Sending ==
  /\ wanted \subseteq Name \ Processed
  /\ IsInjective(sourceFiles) /\ IsInjective(units)
  /\ ToSet(sourceFiles) \cap ToSet(units) = {}
  /\ ToSet(units) \cup (ToSet(sourceFiles) \ Processed) \subseteq wanted
  /\ \A n \in ToSet(sourceFiles) : accepted[n] = 0
  /\ \A n \in Name : n \notin wanted => accepted[n] = 0
  /\ \A n \in wanted : accepted[n] <= (IF n \in ToSet(units) /\ producer # "done" THEN 0 ELSE 1) + resent
  /\ \A n \in wanted : \/ n \in ToSet(sourceFiles) \/ accepted[n] > 0
                       \/ n \in ToSet(units) /\ producer # "done"
  /\ producer \in {"outer_retry", "done"} => sourceFiles = <<>>

(* A worker takes no more than a chunk, and only when it has nothing.      *)
Chunks ==
  \A w \in ResizeWorker : /\ Len(workUnits[w]) <= ChunkSize
                          /\ worker[w] = "work" <=> workUnits[w] # <<>>
Losses ==
  /\ Sum(dropped["reply"]) <= ChunkSize * (faults - resent)
  /\ Sum(dropped["kill"]) <= ChunkSize * Cardinality(Ended)

ResizeInv == ResizeTypes /\ Accounts /\ Sending /\ Chunks /\ Losses

LEMMA ResizeConstants ==
  /\ IsFiniteSet(Name) /\ IsFiniteSet(ResizeWorker)
  /\ ChunkSize \in Nat \ {0}
  /\ \A list \in SourceLists : list \in Seq(Name) /\ IsInjective(list)
BY ResizeAssumption DEF ResizeAssumption

LEMMA EndedIsFinite == IsFiniteSet(Ended) /\ Cardinality(Ended) \in Nat
<1>1. Ended \subseteq ResizeWorker
  BY DEF Ended
<1>2. QED
  BY <1>1, ResizeConstants, FS_Subset, FS_CardinalityType

LEMMA InvGivesAccounts == ResizeInv => UnitsAccounted
<1> SUFFICES ASSUME ResizeInv PROVE UnitsAccounted
  OBVIOUS
<1>1. ASSUME NEW n \in Name
      PROVE  /\ accepted[n] = Occurrences(images, n) + InHand(n) + resized[n]
                                + dropped["reply"][n] + dropped["kill"][n] + dropped["stop"][n]
             /\ accepted[n] <= IF n \in wanted THEN 1 + resent ELSE 0
             /\ producer = "done" /\ n \in wanted => accepted[n] > 0
  <2>1. InHand(n) = HandOf(workUnits, n)
    BY InHandIsTotal DEF ResizeInv, ResizeTypes, HandOf
  <2>2. accepted[n] = Places(n, images, workUnits, resized, dropped)
    BY DEF ResizeInv, Accounts
  <2>3. accepted[n] \in Nat /\ resent \in Nat
    BY DEF ResizeInv, ResizeTypes
  <2>4. n \in wanted => accepted[n] <= 1 + resent
    BY <2>3 DEF ResizeInv, Sending
  <2>5. n \notin wanted => accepted[n] <= 0
    BY <2>3 DEF ResizeInv, Sending
  <2>6. producer = "done" /\ n \in wanted => accepted[n] > 0
    <3>1. ToSet(<<>>) = {}
      BY DEF ToSet
    <3>2. QED
      BY <3>1 DEF ResizeInv, Sending
  <2>7. QED
    BY <2>1, <2>2, <2>4, <2>5, <2>6 DEF Places
<1>2. \A w \in ResizeWorker : worker[w] = "exited" => workUnits[w] = <<>>
  BY DEF ResizeInv, Chunks
<1>3. QED
  BY <1>1, <1>2 DEF UnitsAccounted, ResizeInv, Losses, Ended

LEMMA NoneAdded == NoneOf \in [Name -> Nat] /\ Sum(NoneOf) = 0
BY TotalOfNothing, SumIsTotal, ResizeConstants DEF NoneOf

LEMMA InitResizeInv == InitResize => ResizeInv
<1> SUFFICES ASSUME InitResize PROVE ResizeInv
  OBVIOUS
<1>1. /\ sourceFiles \in Seq(Name) /\ IsInjective(sourceFiles)
      /\ ToSet(sourceFiles) \subseteq Name
  BY ResizeConstants DEF InitResize, ToSet
<1>2. ToSet(<<>>) = {} /\ IsInjective(<<>>) /\ <<>> \in Seq(Name) /\ Len(<<>>) = 0
  BY DEF ToSet, IsInjective
<1>3. ResizeTypes
  BY <1>1, <1>2, NoneAdded DEF InitResize, ResizeTypes, Cause
<1>4. Accounts
  <2>1. ASSUME NEW n \in Name PROVE accepted[n] = Places(n, images, workUnits, resized, dropped)
    <3>1. HandOf(workUnits, n) = 0
      BY NothingInHand DEF InitResize
    <3>2. Occurrences(images, n) = 0
      BY OccursInNone DEF InitResize
    <3>3. /\ accepted[n] = 0 /\ resized[n] = 0 /\ dropped["reply"][n] = 0 /\ dropped["kill"][n] = 0
          /\ dropped["stop"][n] = 0
      BY DEF InitResize, NoneOf
    <3>4. QED
      BY <3>1, <3>2, <3>3 DEF Places
  <2>2. QED
    BY <2>1 DEF Accounts
<1>5. Sending
  <2>1. \A n \in Name : accepted[n] = 0
    BY DEF InitResize, NoneOf
  <2>2. units = <<>> /\ wanted = ToSet(sourceFiles) \ Processed /\ producer = "scan" /\ resent = 0
    BY DEF InitResize
  <2>3. QED
    BY <1>1, <1>2, <2>1, <2>2 DEF Sending
<1>6. Chunks
  BY <1>2, ResizeConstants DEF InitResize, Chunks
<1>7. Losses
  <2>1. Sum(dropped["reply"]) = 0 /\ Sum(dropped["kill"]) = 0 /\ faults = 0 /\ resent = 0
    BY NoneAdded DEF InitResize
  <2>2. PICK c \in Nat, x \in Nat : c = ChunkSize /\ x = Cardinality(Ended)
    BY ResizeConstants, EndedIsFinite
  <2>3. 0 <= c * (0 - 0) /\ 0 <= c * x
    BY <2>2
  <2>4. QED
    BY <2>1, <2>2, <2>3 DEF Losses
<1>8. QED
  BY <1>3, <1>4, <1>5, <1>6, <1>7 DEF ResizeInv

LEMMA HandIsNat ==
  ASSUME NEW n, NEW hand \in [ResizeWorker -> Seq(Name)]
  PROVE  HandOf(hand, n) \in Nat
<1>1. \A w \in ResizeWorker : Hands(hand, n)[w] \in Nat
  BY OccurrencesUpto DEF Hands
<1>2. Counts(Hands(hand, n), ResizeWorker)
  BY <1>1, ResizeConstants DEF Counts
<1>3. QED
  BY <1>2, TotalStep DEF HandOf

LEMMA CountedIsNat ==
  ASSUME NEW count \in [Name -> Nat]
  PROVE  Sum(count) \in Nat
<1>1. Counts(count, Name)
  BY ResizeConstants DEF Counts
<1>2. QED
  BY <1>1, TotalStep, SumIsTotal

-----------------------------------------------------------------------------
(* Every step keeps the invariant.                                         *)

LEMMA ScanKeeps == ResizeInv /\ ScanImage => ResizeInv'
<1> SUFFICES ASSUME ResizeInv, ScanImage PROVE ResizeInv'
  OBVIOUS
<1>1. /\ producer = "scan" /\ resent' = resent /\ faults' = faults /\ images' = images
      /\ wanted' = wanted /\ accepted' = accepted /\ worker' = worker /\ workUnits' = workUnits
      /\ resized' = resized /\ dropped' = dropped
  BY DEF ScanImage, working
<1>2. ResizeTypes /\ Accounts /\ Sending /\ Chunks /\ Losses
  BY DEF ResizeInv
<1>3. Accounts' /\ Chunks' /\ Losses'
  BY <1>1, <1>2 DEF Accounts, Chunks, Losses, Ended
<1>4. CASE sourceFiles = <<>>
  <2>1. producer' = "outer_retry" /\ sourceFiles' = sourceFiles /\ units' = units
    BY <1>4 DEF ScanImage
  <2>2. ResizeTypes' /\ Sending'
    BY <1>1, <1>2, <1>4, <2>1 DEF ResizeTypes, Sending
  <2>3. QED
    BY <1>3, <2>2 DEF ResizeInv
<1>5. CASE sourceFiles # <<>>
  <2> DEFINE name == Head(sourceFiles)
  <2>1. /\ name \in Name /\ sourceFiles' = Tail(sourceFiles) /\ sourceFiles' \in Seq(Name)
        /\ ToSet(sourceFiles) = {name} \cup ToSet(sourceFiles')
        /\ IsInjective(sourceFiles') /\ name \notin ToSet(sourceFiles')
    <3>1. sourceFiles \in Seq(Name) /\ IsInjective(sourceFiles)
      BY <1>2 DEF ResizeTypes, Sending
    <3>2. sourceFiles' = Tail(sourceFiles)
      BY <1>5 DEF ScanImage
    <3>3. QED
      BY <1>5, <3>1, <3>2, TailOnce
  <2>2. CASE name \in Processed
    <3>1. units' = units /\ producer' = producer
      BY <1>5, <2>2 DEF ScanImage
    <3> HIDE DEF name
    <3>2. ResizeTypes'
      BY <1>1, <1>2, <2>1, <3>1 DEF ResizeTypes
    <3>3. name \notin wanted
      <4>1. wanted \cap Processed = {}
        BY <1>2 DEF Sending
      <4>2. QED
        BY <2>2, <4>1
    <3>4. Sending'
      BY <1>1, <1>2, <2>1, <2>2, <3>1, <3>3 DEF Sending
    <3>5. QED
      BY <1>3, <3>2, <3>4 DEF ResizeInv
  <2>3. CASE name \notin Processed
    <3>1. units' = Append(units, name) /\ producer' \in {"inner_retry", "scan"}
      BY <1>5, <2>3 DEF ScanImage
    <3> HIDE DEF name
    <3>2. name \in ToSet(sourceFiles) /\ name \notin ToSet(units) /\ name \in wanted /\ accepted[name] = 0
      BY <1>2, <2>1, <2>3 DEF Sending
    <3>3. /\ units' \in Seq(Name) /\ ToSet(units') = ToSet(units) \cup {name} /\ IsInjective(units')
      <4>1. units \in Seq(Name) /\ IsInjective(units)
        BY <1>2 DEF ResizeTypes, Sending
      <4>2. QED
        BY <2>1, <3>1, <3>2, <4>1, AppendOnce
    <3>4. ResizeTypes'
      BY <1>1, <1>2, <2>1, <3>1, <3>3 DEF ResizeTypes
    <3>5. Sending'
      <4>1. resent \in Nat
        BY <1>2 DEF ResizeTypes
      <4>2. \A n \in wanted : accepted[n] <= (IF n \in ToSet(units') THEN 0 ELSE 1) + resent
        BY <1>1, <1>2, <3>2, <3>3, <4>1 DEF Sending
      <4>3. producer # "done" /\ producer' \notin {"outer_retry", "done"}
        BY <1>1, <3>1
      <4>4. \A n \in wanted : n \in ToSet(sourceFiles') \/ accepted[n] > 0 \/ n \in ToSet(units')
        BY <1>2, <2>1, <3>3 DEF Sending
      <4>5. /\ ToSet(sourceFiles') \cap ToSet(units') = {}
            /\ ToSet(units') \cup (ToSet(sourceFiles') \ Processed) \subseteq wanted
            /\ \A n \in ToSet(sourceFiles') : accepted[n] = 0
        BY <1>2, <2>1, <3>2, <3>3 DEF Sending
      <4>6. wanted \subseteq Name \ Processed /\ \A n \in Name : n \notin wanted => accepted[n] = 0
        BY <1>2 DEF Sending
      <4>7. QED
        BY <1>1, <2>1, <3>3, <4>2, <4>3, <4>4, <4>5, <4>6 DEF Sending
    <3>6. QED
      BY <1>3, <3>4, <3>5 DEF ResizeInv
  <2>4. QED
    BY <2>2, <2>3
<1>6. QED
  BY <1>4, <1>5

(* The server takes the units, whether its answer arrives or not.          *)
LEMMA ServedKeeps ==
  ASSUME ResizeInv, ServeEnqueue, UNCHANGED <<sourceFiles, wanted, working, dropped>>,
         faults' \in Nat, resent' \in Nat, faults' - resent' = faults - resent
  PROVE  /\ Accounts' /\ Chunks' /\ Losses'
         /\ images' \in Seq(Name) /\ accepted' \in [Name -> Nat]
         /\ \A n \in Name : accepted'[n] = accepted[n] + (IF n \in ToSet(units) THEN 1 ELSE 0)
<1>1. ResizeTypes /\ Accounts /\ Sending /\ Chunks /\ Losses
  BY DEF ResizeInv
<1>2. /\ images' = images \o units /\ accepted' = Adding(accepted, units)
      /\ worker' = worker /\ workUnits' = workUnits /\ resized' = resized /\ dropped' = dropped
  BY DEF ServeEnqueue, working
<1>3. images \in Seq(Name) /\ units \in Seq(Name) /\ accepted \in [Name -> Nat] /\ IsInjective(units)
  BY <1>1 DEF ResizeTypes, Sending
<1>4. images' \in Seq(Name) /\ accepted' \in [Name -> Nat]
  <2>1. images \o units \in Seq(Name)
    BY <1>3
  <2>2. Adding(accepted, units) \in [Name -> Nat]
    BY <1>3, SumOfAdding, Zenon
  <2>3. QED
    BY <1>2, <2>1, <2>2
<1>5. ASSUME NEW n \in Name
      PROVE  /\ accepted'[n] = accepted[n] + (IF n \in ToSet(units) THEN 1 ELSE 0)
             /\ accepted'[n] = Places(n, images', workUnits', resized', dropped')
  <2>1. Occurrences(units, n) = IF n \in ToSet(units) THEN 1 ELSE 0
    BY <1>3, OccursOnce
  <2>2. accepted'[n] = accepted[n] + Occurrences(units, n)
    BY <1>2 DEF Adding
  <2>3. Occurrences(images', n) = Occurrences(images, n) + Occurrences(units, n)
    BY <1>2, <1>3, OccursInBoth
  <2>4. PICK a \in Nat, u \in Nat : a = Occurrences(images, n) /\ u = Occurrences(units, n)
    BY <1>3, OccurrencesUpto
  <2>5. PICK h \in Nat : h = HandOf(workUnits, n)
    <3>1. HandOf(workUnits, n) \in Nat
      BY <1>1, HandIsNat DEF ResizeTypes
    <3>2. QED
      BY <3>1
  <2>6. PICK e \in Nat, x \in Nat, y \in Nat, z \in Nat :
          e = resized[n] /\ x = dropped["reply"][n] /\ y = dropped["kill"][n] /\ z = dropped["stop"][n]
    BY <1>1 DEF ResizeTypes, Cause
  <2>7. accepted[n] = a + h + e + x + y + z
    BY <1>1, <2>4, <2>5, <2>6 DEF Accounts, Places
  <2>8. Places(n, images', workUnits', resized', dropped') = (a + u) + h + e + x + y + z
    BY <1>2, <2>3, <2>4, <2>5, <2>6 DEF Places
  <2>9. (a + h + e + x + y + z) + u = (a + u) + h + e + x + y + z
    OBVIOUS
  <2>10. QED
    BY <2>1, <2>2, <2>4, <2>7, <2>8, <2>9
<1>6. Accounts'
  BY <1>5 DEF Accounts
<1>7. Chunks' /\ Losses'
  BY <1>1, <1>2 DEF Chunks, Losses, Ended
<1>8. QED
  BY <1>4, <1>5, <1>6, <1>7

LEMMA SentKeeps == ResizeInv /\ Sent => ResizeInv'
<1> SUFFICES ASSUME ResizeInv, Sent PROVE ResizeInv'
  OBVIOUS
<1>1. ResizeTypes /\ Accounts /\ Sending /\ Chunks /\ Losses
  BY DEF ResizeInv
<1>2. /\ producer \in {"inner_retry", "outer_retry"} /\ ServeEnqueue
      /\ faults' = faults /\ resent' = resent /\ sourceFiles' = sourceFiles /\ wanted' = wanted
      /\ working' = working /\ dropped' = dropped /\ worker' = worker /\ workUnits' = workUnits
      /\ resized' = resized
  BY DEF Sent, Answered, working
<1>3. /\ Accounts' /\ Chunks' /\ Losses'
      /\ images' \in Seq(Name) /\ accepted' \in [Name -> Nat]
      /\ \A n \in Name : accepted'[n] = accepted[n] + (IF n \in ToSet(units) THEN 1 ELSE 0)
  <2>1. faults \in Nat /\ resent \in Nat
    BY <1>1 DEF ResizeTypes
  <2>2. QED
    BY <1>2, <2>1, ServedKeeps
<1>4. /\ producer = "inner_retry" => producer' = "scan" /\ units' = <<>>
      /\ producer = "outer_retry" => producer' = "done" /\ units' = units
  BY DEF Sent
<1>5. <<>> \in Seq(Name) /\ ToSet(<<>>) = {} /\ IsInjective(<<>>)
  BY DEF ToSet, IsInjective
<1>6. ResizeTypes'
  BY <1>1, <1>2, <1>3, <1>4, <1>5 DEF ResizeTypes
<1>7. accepted \in [Name -> Nat] /\ resent \in Nat
  BY <1>1 DEF ResizeTypes
<1>8. /\ wanted \subseteq Name \ Processed /\ ToSet(sourceFiles) \cap ToSet(units) = {}
      /\ ToSet(units) \subseteq wanted /\ ToSet(sourceFiles) \subseteq Name
  <2>1. sourceFiles \in Seq(Name)
    BY <1>1 DEF ResizeTypes
  <2>2. ToSet(sourceFiles) \subseteq Name
    BY <2>1 DEF ToSet
  <2>3. QED
    BY <1>1, <2>2 DEF Sending
<1>9. \A n \in ToSet(sourceFiles) : accepted'[n] = 0
  BY <1>1, <1>3, <1>8 DEF Sending
<1>10. \A n \in Name : n \notin wanted => accepted'[n] = 0
  BY <1>1, <1>3, <1>8 DEF Sending
<1>11. \A n \in wanted : accepted'[n] <= 1 + resent /\ (n \in ToSet(units) => accepted'[n] > 0)
  <2>1. ASSUME NEW n \in wanted PROVE accepted'[n] <= 1 + resent /\ (n \in ToSet(units) => accepted'[n] > 0)
    <3>1. PICK a \in Nat, r \in Nat : a = accepted[n] /\ r = resent
      BY <1>7, <1>8
    <3>2. a <= (IF n \in ToSet(units) THEN 0 ELSE 1) + r
      BY <1>1, <1>2, <3>1 DEF Sending
    <3>3. accepted'[n] = a + (IF n \in ToSet(units) THEN 1 ELSE 0)
      BY <1>3, <1>8, <3>1
    <3>4. QED
      BY <3>1, <3>2, <3>3
  <2>2. QED
    BY <2>1
<1>12. \A n \in wanted : n \in ToSet(sourceFiles) \/ accepted'[n] > 0
  <2>1. ASSUME NEW n \in wanted PROVE n \in ToSet(sourceFiles) \/ accepted'[n] > 0
    <3>1. n \in ToSet(sourceFiles) \/ accepted[n] > 0 \/ n \in ToSet(units)
      BY <1>1 DEF Sending
    <3>2. accepted[n] > 0 => accepted'[n] > 0
      BY <1>3, <1>7, <1>8
    <3>3. QED
      BY <1>11, <3>1, <3>2
  <2>2. QED
    BY <2>1
<1>13. producer' = "done" => sourceFiles' = <<>>
  BY <1>1, <1>2, <1>4 DEF Sending
<1>14. Sending'
  <2>1. CASE producer = "inner_retry"
    <3>1. producer' = "scan" /\ units' = <<>>
      BY <1>4, <2>1
    <3>2. \A n \in wanted : accepted'[n] <= (IF n \in ToSet(units') /\ producer' # "done" THEN 0 ELSE 1) + resent
      BY <1>5, <1>11, <3>1
    <3>3. QED
      BY <1>1, <1>2, <1>5, <1>8, <1>9, <1>10, <1>12, <3>1, <3>2 DEF Sending
  <2>2. CASE producer = "outer_retry"
    <3>1. producer' = "done" /\ units' = units
      BY <1>4, <2>2
    <3>2. \A n \in wanted : accepted'[n] <= (IF n \in ToSet(units') /\ producer' # "done" THEN 0 ELSE 1) + resent
      BY <1>11, <3>1
    <3>3. QED
      BY <1>1, <1>2, <1>8, <1>9, <1>10, <1>12, <1>13, <3>1, <3>2 DEF Sending
  <2>3. QED
    BY <1>2, <2>1, <2>2
<1>15. QED
  BY <1>3, <1>6, <1>14 DEF ResizeInv

LEMMA SendFailsKeeps == ResizeInv /\ SendFails => ResizeInv'
<1> SUFFICES ASSUME ResizeInv, SendFails PROVE ResizeInv'
  OBVIOUS
<1>1. ResizeTypes /\ Accounts /\ Sending /\ Chunks /\ Losses
  BY DEF ResizeInv
<1>2. /\ producer \in {"inner_retry", "outer_retry"} /\ producer' = producer
      /\ faults' = faults + 1 /\ units' = units /\ sourceFiles' = sourceFiles /\ wanted' = wanted
      /\ working' = working /\ dropped' = dropped /\ worker' = worker /\ workUnits' = workUnits
      /\ resized' = resized
  BY DEF SendFails, Throws, working
<1>3. faults \in Nat /\ resent \in Nat /\ accepted \in [Name -> Nat]
  BY <1>1 DEF ResizeTypes
<1>4. CASE UNCHANGED <<images, accepted, resent>>
  <2>1. ResizeTypes' /\ Sending'
    BY <1>1, <1>2, <1>4 DEF ResizeTypes, Sending
  <2>2. Accounts' /\ Chunks'
    BY <1>1, <1>2, <1>4 DEF Accounts, Chunks
  <2>3. Losses'
    <3>1. PICK c \in Nat, f \in Nat, r \in Nat : c = ChunkSize /\ f = faults /\ r = resent /\ r <= f
      BY <1>1, <1>3, ResizeConstants DEF ResizeTypes
    <3>2. Sum(dropped["reply"]) \in Nat
      BY <1>1, CountedIsNat DEF ResizeTypes, Cause
    <3>3. c * (f + 1 - r) = c * (f - r) + c
      BY <3>1
    <3>4. Sum(dropped["reply"]) <= c * (f - r)
      BY <1>1, <3>1 DEF Losses
    <3>5. c * (f - r) \in Nat
      BY <3>1
    <3>6. Sum(dropped["reply"]) <= c * (f + 1 - r)
      BY <3>1, <3>2, <3>3, <3>4, <3>5
    <3>7. Sum(dropped'["reply"]) <= ChunkSize * (faults' - resent')
      BY <1>2, <1>4, <3>1, <3>6
    <3>8. QED
      BY <1>1, <1>2, <3>7 DEF Losses, Ended
  <2>4. QED
    BY <2>1, <2>2, <2>3 DEF ResizeInv
<1>5. CASE ServeEnqueue /\ resent' = resent + 1
  <2>1. /\ Accounts' /\ Chunks' /\ Losses'
        /\ images' \in Seq(Name) /\ accepted' \in [Name -> Nat]
        /\ \A n \in Name : accepted'[n] = accepted[n] + (IF n \in ToSet(units) THEN 1 ELSE 0)
    BY <1>2, <1>3, <1>5, ServedKeeps
  <2>2. ResizeTypes'
    BY <1>1, <1>2, <1>3, <1>5, <2>1 DEF ResizeTypes
  <2>3. /\ wanted \subseteq Name \ Processed /\ ToSet(sourceFiles) \cap ToSet(units) = {}
        /\ ToSet(units) \subseteq wanted /\ ToSet(sourceFiles) \subseteq Name
    <3>1. sourceFiles \in Seq(Name)
      BY <1>1 DEF ResizeTypes
    <3>2. ToSet(sourceFiles) \subseteq Name
      BY <3>1 DEF ToSet
    <3>3. QED
      BY <1>1, <3>2 DEF Sending
  <2>4. \A n \in ToSet(sourceFiles) : accepted'[n] = 0
    BY <1>1, <2>1, <2>3 DEF Sending
  <2>5. \A n \in Name : n \notin wanted => accepted'[n] = 0
    BY <1>1, <2>1, <2>3 DEF Sending
  <2>6. ASSUME NEW n \in wanted
        PROVE  /\ accepted'[n] <= (IF n \in ToSet(units') /\ producer' # "done" THEN 0 ELSE 1) + resent'
               /\ \/ n \in ToSet(sourceFiles') \/ accepted'[n] > 0
                  \/ n \in ToSet(units') /\ producer' # "done"
    <3>1. PICK a \in Nat, r \in Nat : a = accepted[n] /\ r = resent
      BY <1>3, <2>3
    <3>2. a <= (IF n \in ToSet(units) THEN 0 ELSE 1) + r
      BY <1>1, <1>2, <3>1 DEF Sending
    <3>3. accepted'[n] = a + (IF n \in ToSet(units) THEN 1 ELSE 0)
      BY <2>1, <2>3, <3>1
    <3>4. n \in ToSet(sourceFiles) \/ a > 0 \/ n \in ToSet(units)
      BY <1>1, <3>1 DEF Sending
    <3>5. resent' = r + 1 /\ producer' # "done" /\ units' = units /\ sourceFiles' = sourceFiles
      BY <1>2, <1>5, <3>1
    <3>6. QED
      BY <3>2, <3>3, <3>4, <3>5
  <2>7. Sending'
    BY <1>1, <1>2, <2>3, <2>4, <2>5, <2>6 DEF Sending
  <2>8. QED
    BY <2>1, <2>2, <2>7 DEF ResizeInv
<1>6. QED
  BY <1>4, <1>5 DEF SendFails

(* The server loses its queue, or the answer with a chunk of it.           *)
LEMMA QueueLoses ==
  ASSUME ResizeInv, NEW cause \in Cause, NEW seq \in Seq(Name), Drop(cause, seq),
         images' \in Seq(Name),
         \A n : Occurrences(images, n) = Occurrences(seq, n) + Occurrences(images', n),
         UNCHANGED <<accepted, workUnits, resized>>
  PROVE  Accounts' /\ dropped' \in [Cause -> [Name -> Nat]]
<1>1. dropped' = [dropped EXCEPT ![cause] = Adding(dropped[cause], seq)]
  BY DEF Drop
<1>2. dropped \in [Cause -> [Name -> Nat]] /\ dropped[cause] \in [Name -> Nat]
  BY DEF ResizeInv, ResizeTypes
<1>3. Adding(dropped[cause], seq) \in [Name -> Nat]
  BY <1>2, SumOfAdding
<1>4. dropped' \in [Cause -> [Name -> Nat]]
  BY <1>1, <1>2, <1>3
<1>5. ASSUME NEW n \in Name PROVE accepted'[n] = Places(n, images', workUnits', resized', dropped')
  <2>1. accepted[n] = Places(n, images, workUnits, resized, dropped)
    BY DEF ResizeInv, Accounts
  <2>2. PICK a \in Nat, u \in Nat, b \in Nat :
          a = Occurrences(images, n) /\ u = Occurrences(seq, n) /\ b = Occurrences(images', n)
    BY OccurrencesUpto DEF ResizeInv, ResizeTypes
  <2>3. a = u + b
    BY <2>2
  <2>4. PICK h \in Nat : h = HandOf(workUnits, n)
    <3>1. HandOf(workUnits, n) \in Nat
      BY HandIsNat DEF ResizeInv, ResizeTypes
    <3>2. QED
      BY <3>1
  <2>5. PICK e \in Nat, x \in Nat, y \in Nat, z \in Nat :
          e = resized[n] /\ x = dropped["reply"][n] /\ y = dropped["kill"][n] /\ z = dropped["stop"][n]
    BY DEF ResizeInv, ResizeTypes, Cause
  <2>6. accepted[n] = a + h + e + x + y + z
    BY <2>1, <2>2, <2>4, <2>5 DEF Places
  <2>7. Adding(dropped[cause], seq)[n] = dropped[cause][n] + u
    BY <2>2 DEF Adding
  <2>8. dropped'["reply"][n] + dropped'["kill"][n] + dropped'["stop"][n] = x + y + z + u
    <3>1. CASE cause = "reply"
      <4>1. dropped'["reply"][n] = x + u /\ dropped'["kill"][n] = y /\ dropped'["stop"][n] = z
        BY <1>1, <1>2, <2>5, <2>7, <3>1 DEF Cause
      <4>2. QED
        BY <4>1
    <3>2. CASE cause = "kill"
      <4>1. dropped'["reply"][n] = x /\ dropped'["kill"][n] = y + u /\ dropped'["stop"][n] = z
        BY <1>1, <1>2, <2>5, <2>7, <3>2 DEF Cause
      <4>2. QED
        BY <4>1
    <3>3. CASE cause = "stop"
      <4>1. dropped'["reply"][n] = x /\ dropped'["kill"][n] = y /\ dropped'["stop"][n] = z + u
        BY <1>1, <1>2, <2>5, <2>7, <3>3 DEF Cause
      <4>2. QED
        BY <4>1
    <3>4. QED
      BY <3>1, <3>2, <3>3 DEF Cause
  <2>9. PICK x1 \in Nat, y1 \in Nat, z1 \in Nat :
          x1 = dropped'["reply"][n] /\ y1 = dropped'["kill"][n] /\ z1 = dropped'["stop"][n]
    BY <1>4 DEF Cause
  <2>10. Places(n, images', workUnits', resized', dropped') = b + h + e + x1 + y1 + z1
    BY <2>2, <2>4, <2>5, <2>9 DEF Places
  <2>11. x1 + y1 + z1 = x + y + z + u
    BY <2>8, <2>9
  <2>12. QED
    BY <2>3, <2>6, <2>10, <2>11
<1>6. Accounts'
  BY <1>5 DEF Accounts
<1>7. QED
  BY <1>4, <1>6

LEMMA RestartKeeps == ResizeInv /\ ServerRestarts => ResizeInv'
<1> SUFFICES ASSUME ResizeInv, ServerRestarts PROVE ResizeInv'
  OBVIOUS
<1>1. ResizeTypes /\ Accounts /\ Sending /\ Chunks /\ Losses
  BY DEF ResizeInv
<1>2. /\ faults' = faults + 1 /\ images' = <<>> /\ Drop("stop", images)
      /\ sourceFiles' = sourceFiles /\ units' = units /\ producer' = producer /\ wanted' = wanted
      /\ accepted' = accepted /\ resent' = resent
      /\ worker' = worker /\ workUnits' = workUnits /\ resized' = resized
  BY DEF ServerRestarts, producing, working
<1>3. Accounts' /\ dropped' \in [Cause -> [Name -> Nat]]
  <2>1. images' \in Seq(Name) /\ images \in Seq(Name) /\ "stop" \in Cause
    BY <1>1, <1>2 DEF ResizeTypes, Cause
  <2>2. \A n : Occurrences(images, n) = Occurrences(images, n) + Occurrences(images', n)
    BY <1>2, <2>1, OccursInNone, OccurrencesUpto
  <2>3. QED
    BY <1>2, <2>1, <2>2, QueueLoses
<1>4. ResizeTypes' /\ Sending' /\ Chunks'
  <2>1. images' \in Seq(Name)
    BY <1>2
  <2>2. QED
    BY <1>1, <1>2, <1>3, <2>1 DEF ResizeTypes, Sending, Chunks
<1>5. dropped'["reply"] = dropped["reply"] /\ dropped'["kill"] = dropped["kill"]
  BY <1>1, <1>2 DEF Drop, ResizeTypes, Cause
<1>6. Losses'
  <2>1. PICK c \in Nat, f \in Nat, r \in Nat : c = ChunkSize /\ f = faults /\ r = resent /\ r <= f
    BY <1>1, ResizeConstants DEF ResizeTypes
  <2>2. c * (f + 1 - r) = c * (f - r) + c /\ c * (f - r) \in Nat
    BY <2>1
  <2>3. PICK s \in Nat : s = Sum(dropped["reply"])
    <3>1. Sum(dropped["reply"]) \in Nat
      BY <1>1, CountedIsNat DEF ResizeTypes, Cause
    <3>2. QED
      BY <3>1
  <2>4. s <= c * (f - r)
    BY <1>1, <2>1, <2>3 DEF Losses
  <2>5. s <= c * (f + 1 - r)
    BY <2>1, <2>2, <2>3, <2>4
  <2>6. Sum(dropped'["reply"]) <= ChunkSize * (faults' - resent')
    BY <1>2, <1>5, <2>1, <2>3, <2>5
  <2>7. QED
    BY <1>1, <1>2, <1>5, <2>6 DEF Losses, Ended
<1>7. QED
  BY <1>3, <1>4, <1>6 DEF ResizeInv

(* A worker takes a chunk, or its answer is lost.                          *)
LEMMA DequeueKeepsUnits ==
  ASSUME NEW w \in ResizeWorker, ResizeInv, DequeueUnits(w)
  PROVE  ResizeInv'
<1>1. ResizeTypes /\ Accounts /\ Sending /\ Chunks /\ Losses
  BY DEF ResizeInv
<1>2. /\ worker[w] = "ready" /\ images' = RestOf(images)
      /\ workUnits' = [workUnits EXCEPT ![w] = ChunkOf(images)]
      /\ worker' = [worker EXCEPT ![w] = IF images = <<>> THEN "ready" ELSE "work"]
      /\ sourceFiles' = sourceFiles /\ units' = units /\ producer' = producer /\ wanted' = wanted
      /\ accepted' = accepted /\ resent' = resent /\ faults' = faults
      /\ resized' = resized /\ dropped' = dropped
  BY DEF DequeueUnits, Answered, ServeDequeue, RestOf, producing
<1>3. images \in Seq(Name) /\ workUnits \in [ResizeWorker -> Seq(Name)]
  BY <1>1 DEF ResizeTypes
<1>4. /\ ChunkOf(images) \in Seq(Name) /\ images' \in Seq(Name) /\ Len(ChunkOf(images)) <= ChunkSize
      /\ ChunkOf(images) = <<>> <=> images = <<>>
      /\ \A n : Occurrences(images, n) = Occurrences(ChunkOf(images), n) + Occurrences(images', n)
  BY <1>2, <1>3, ChunkSplits
<1>5. workUnits[w] = <<>>
  BY <1>1, <1>2 DEF Chunks
<1>6. ResizeTypes'
  BY <1>1, <1>2, <1>4 DEF ResizeTypes
<1>7. ASSUME NEW n \in Name PROVE accepted'[n] = Places(n, images', workUnits', resized', dropped')
  <2>1. PICK a \in Nat, u \in Nat, b \in Nat :
          a = Occurrences(images, n) /\ u = Occurrences(ChunkOf(images), n) /\ b = Occurrences(images', n)
    BY <1>3, <1>4, OccurrencesUpto
  <2>2. PICK h \in Nat, k \in Nat : h = HandOf(workUnits, n) /\ k = HandOf(workUnits', n)
    BY <1>3, <1>6, HandIsNat DEF ResizeTypes
  <2>3. HandOf(workUnits', n) + Occurrences(workUnits[w], n) = HandOf(workUnits, n) + Occurrences(ChunkOf(images), n)
    <3>1. PICK after : after = workUnits'
      OBVIOUS
    <3>2. PICK v \in Seq(Name) : v = ChunkOf(images)
      BY <1>4
    <3>3. TakesUp(after, workUnits, w, v)
      BY <1>2, <3>1, <3>2 DEF TakesUp
    <3>4. HandOf(after, n) + Occurrences(workUnits[w], n) = HandOf(workUnits, n) + Occurrences(v, n)
      BY <1>3, <3>3, HandChanges
    <3>5. QED
      BY <3>1, <3>2, <3>4
  <2>4. Occurrences(workUnits[w], n) = 0
    BY <1>5, OccursInNone
  <2>5. a = u + b /\ k = h + u
    BY <1>4, <2>1, <2>2, <2>3, <2>4
  <2>6. PICK e \in Nat, x \in Nat, y \in Nat, z \in Nat :
          e = resized[n] /\ x = dropped["reply"][n] /\ y = dropped["kill"][n] /\ z = dropped["stop"][n]
    BY <1>1 DEF ResizeTypes, Cause
  <2>7. accepted[n] = a + h + e + x + y + z
    BY <1>1, <2>1, <2>2, <2>6 DEF Accounts, Places
  <2>8. Places(n, images', workUnits', resized', dropped') = b + k + e + x + y + z
    BY <1>2, <2>1, <2>2, <2>6 DEF Places
  <2>9. QED
    BY <1>2, <2>5, <2>7, <2>8
<1>8. Accounts'
  BY <1>7 DEF Accounts
<1>9. Sending'
  BY <1>1, <1>2 DEF Sending
<1>10. Chunks'
  <2>1. ASSUME NEW x \in ResizeWorker
        PROVE  Len(workUnits'[x]) <= ChunkSize /\ (worker'[x] = "work" <=> workUnits'[x] # <<>>)
    <3>1. CASE x = w
      BY <1>1, <1>2, <1>4, <3>1 DEF ResizeTypes
    <3>2. CASE x # w
      BY <1>1, <1>2, <3>2 DEF ResizeTypes, Chunks
    <3>3. QED
      BY <3>1, <3>2
  <2>2. QED
    BY <2>1 DEF Chunks
<1>11. Losses'
  <2>1. Ended' = Ended
    BY <1>1, <1>2 DEF Ended, ResizeTypes
  <2>2. QED
    BY <1>1, <1>2, <2>1 DEF Losses
<1>12. QED
  BY <1>6, <1>8, <1>9, <1>10, <1>11 DEF ResizeInv

LEMMA DequeueFailsKeeps ==
  ASSUME NEW w \in ResizeWorker, ResizeInv, DequeueFails(w)
  PROVE  ResizeInv'
<1>1. ResizeTypes /\ Accounts /\ Sending /\ Chunks /\ Losses
  BY DEF ResizeInv
<1>2. /\ faults' = faults + 1 /\ resent' = resent
      /\ sourceFiles' = sourceFiles /\ units' = units /\ producer' = producer /\ wanted' = wanted
      /\ accepted' = accepted
      /\ worker' = worker /\ workUnits' = workUnits /\ resized' = resized
  BY DEF DequeueFails, Throws, producing, working
<1>3. images \in Seq(Name) /\ "reply" \in Cause /\ dropped["reply"] \in [Name -> Nat]
  BY <1>1 DEF ResizeTypes, Cause
<1>4. /\ ChunkOf(images) \in Seq(Name) /\ RestOf(images) \in Seq(Name) /\ Len(ChunkOf(images)) <= ChunkSize
      /\ \A n : Occurrences(images, n) = Occurrences(ChunkOf(images), n) + Occurrences(RestOf(images), n)
  BY <1>3, ChunkSplits
<1>5. Sending' /\ Chunks'
  BY <1>1, <1>2 DEF Sending, Chunks
<1>6. PICK c \in Nat, f \in Nat, r \in Nat : c = ChunkSize /\ f = faults /\ r = resent /\ r <= f
  BY <1>1, ResizeConstants DEF ResizeTypes
<1>7. c * (f + 1 - r) = c * (f - r) + c /\ c * (f - r) \in Nat
  BY <1>6
<1>8. PICK s \in Nat : s = Sum(dropped["reply"])
  BY <1>3, CountedIsNat
<1>9. s <= c * (f - r)
  BY <1>1, <1>6, <1>8 DEF Losses
<1>10. CASE UNCHANGED <<images, dropped>>
  <2>1. ResizeTypes' /\ Accounts'
    BY <1>1, <1>2, <1>10 DEF ResizeTypes, Accounts
  <2>2. Sum(dropped'["reply"]) <= ChunkSize * (faults' - resent')
    <3>1. s <= c * (f + 1 - r)
      BY <1>6, <1>7, <1>9
    <3>2. QED
      BY <1>2, <1>6, <1>8, <1>10, <3>1
  <2>3. Losses'
    BY <1>1, <1>2, <1>10, <2>2 DEF Losses, Ended
  <2>4. QED
    BY <1>5, <2>1, <2>3 DEF ResizeInv
<1>11. CASE ServeDequeue /\ Drop("reply", ChunkOf(images))
  <2>1. images' = RestOf(images)
    BY <1>11 DEF ServeDequeue, RestOf
  <2>2. Accounts' /\ dropped' \in [Cause -> [Name -> Nat]]
    BY <1>2, <1>3, <1>4, <1>11, <2>1, QueueLoses
  <2>3. ResizeTypes'
    BY <1>1, <1>2, <1>4, <2>1, <2>2 DEF ResizeTypes
  <2>4. /\ dropped'["reply"] = Adding(dropped["reply"], ChunkOf(images))
        /\ dropped'["kill"] = dropped["kill"]
    BY <1>1, <1>11 DEF Drop, ResizeTypes, Cause
  <2>5. PICK k \in Nat : k = Len(ChunkOf(images)) /\ k <= c
    BY <1>4, <1>6
  <2>6. Sum(dropped'["reply"]) = s + k
    BY <1>3, <1>4, <1>8, <2>4, <2>5, SumOfAdding
  <2>7. s + k <= c * (f + 1 - r)
    BY <1>6, <1>7, <1>9, <2>5
  <2>8. Sum(dropped'["reply"]) <= ChunkSize * (faults' - resent')
    BY <1>2, <1>6, <2>6, <2>7
  <2>9. Losses'
    BY <1>1, <1>2, <2>4, <2>8 DEF Losses, Ended
  <2>10. QED
    BY <1>5, <2>2, <2>3, <2>9 DEF ResizeInv
<1>12. QED
  BY <1>10, <1>11 DEF DequeueFails

LEMMA QuitKeeps ==
  ASSUME NEW w \in ResizeWorker, ResizeInv, Quit(w)
  PROVE  ResizeInv'
<1>1. ResizeTypes /\ Accounts /\ Sending /\ Chunks /\ Losses
  BY DEF ResizeInv
<1>2. /\ worker[w] = "ready" /\ worker' = [worker EXCEPT ![w] = "exited"]
      /\ sourceFiles' = sourceFiles /\ units' = units /\ producer' = producer /\ wanted' = wanted
      /\ accepted' = accepted /\ resent' = resent /\ faults' = faults /\ images' = images
      /\ workUnits' = workUnits /\ resized' = resized /\ dropped' = dropped
  BY DEF Quit, producing
<1>3. ResizeTypes' /\ Accounts' /\ Sending'
  BY <1>1, <1>2 DEF ResizeTypes, Accounts, Sending
<1>4. Chunks'
  BY <1>1, <1>2 DEF ResizeTypes, Chunks
<1>5. Ended' = Ended \cup {w} /\ w \notin Ended
  BY <1>1, <1>2 DEF ResizeTypes, Ended
<1>6. Cardinality(Ended') = Cardinality(Ended) + 1
  BY <1>5, EndedIsFinite, FS_AddElement
<1>7. Losses'
  <2>1. PICK c \in Nat, k \in Nat : c = ChunkSize /\ k = Cardinality(Ended)
    BY ResizeConstants, EndedIsFinite
  <2>2. PICK s \in Nat : s = Sum(dropped["kill"])
    <3>1. Sum(dropped["kill"]) \in Nat
      BY <1>1, CountedIsNat DEF ResizeTypes, Cause
    <3>2. QED
      BY <3>1
  <2>3. s <= c * k /\ c * (k + 1) = c * k + c /\ c * k \in Nat
    BY <1>1, <2>1, <2>2 DEF Losses
  <2>4. s <= c * (k + 1)
    BY <2>1, <2>2, <2>3
  <2>5. Sum(dropped'["kill"]) <= ChunkSize * Cardinality(Ended')
    BY <1>2, <1>6, <2>1, <2>2, <2>4
  <2>6. QED
    BY <1>1, <1>2, <2>5 DEF Losses
<1>8. QED
  BY <1>3, <1>4, <1>7 DEF ResizeInv

LEMMA ResizeImageKeeps ==
  ASSUME NEW w \in ResizeWorker, ResizeInv, ResizeImage(w)
  PROVE  ResizeInv'
<1>1. ResizeTypes /\ Accounts /\ Sending /\ Chunks /\ Losses
  BY DEF ResizeInv
<1>2. /\ worker[w] = "work" /\ resized' = Adding(resized, <<Head(workUnits[w])>>)
      /\ workUnits' = [workUnits EXCEPT ![w] = Tail(workUnits[w])]
      /\ worker' = [worker EXCEPT ![w] = IF Len(workUnits[w]) = 1 THEN "ready" ELSE "work"]
      /\ sourceFiles' = sourceFiles /\ units' = units /\ producer' = producer /\ wanted' = wanted
      /\ accepted' = accepted /\ resent' = resent /\ faults' = faults /\ images' = images
      /\ dropped' = dropped
  BY DEF ResizeImage, producing
<1>3. /\ workUnits \in [ResizeWorker -> Seq(Name)] /\ workUnits[w] \in Seq(Name) /\ workUnits[w] # <<>>
      /\ resized \in [Name -> Nat] /\ images \in Seq(Name)
  BY <1>1, <1>2 DEF ResizeTypes, Chunks
<1>4. PICK s \in Seq(Name) : s = workUnits[w] /\ s # <<>>
  BY <1>3
<1>5. /\ Head(s) \in Name /\ Tail(s) \in Seq(Name) /\ Len(Tail(s)) = Len(s) - 1
      /\ \A n : Occurrences(s, n) = Occurrences(<<Head(s)>>, n) + Occurrences(Tail(s), n)
  BY <1>4, HeadCounts
<1>6. <<Head(s)>> \in Seq(Name)
  BY <1>5
<1>7. PICK one \in Seq(Name) : one = <<Head(s)>>
  BY <1>6
<1>8. resized' = Adding(resized, one) /\ resized' \in [Name -> Nat]
  BY <1>2, <1>3, <1>4, <1>7, SumOfAdding
<1>9. ResizeTypes'
  BY <1>1, <1>2, <1>4, <1>5, <1>8 DEF ResizeTypes
<1>10. ASSUME NEW n \in Name PROVE accepted'[n] = Places(n, images', workUnits', resized', dropped')
  <2>1. PICK a \in Nat, o \in Nat, v \in Nat, t \in Nat :
          a = Occurrences(images, n) /\ o = Occurrences(one, n) /\ v = Occurrences(s, n)
          /\ t = Occurrences(Tail(s), n)
    BY <1>3, <1>5, OccurrencesUpto
  <2>2. PICK h \in Nat, k \in Nat : h = HandOf(workUnits, n) /\ k = HandOf(workUnits', n)
    BY <1>3, <1>9, HandIsNat DEF ResizeTypes
  <2>3. k + v = h + t
    <3>1. workUnits' = [workUnits EXCEPT ![w] = Tail(s)]
      BY <1>2, <1>4
    <3>2. PICK hand, after : hand = workUnits /\ after = workUnits'
      OBVIOUS
    <3>3. PICK tail \in Seq(Name) : tail = Tail(s)
      BY <1>5
    <3>4. hand \in [ResizeWorker -> Seq(Name)] /\ TakesUp(after, hand, w, tail)
      BY <1>3, <3>1, <3>2, <3>3 DEF TakesUp
    <3>5. HandOf(after, n) + Occurrences(hand[w], n) = HandOf(hand, n) + Occurrences(tail, n)
      BY <3>4, HandChanges
    <3>6. QED
      BY <1>4, <2>1, <2>2, <3>2, <3>3, <3>5
  <2>4. v = o + t
    BY <1>5, <1>7, <2>1
  <2>5. PICK e \in Nat, x \in Nat, y \in Nat, z \in Nat :
          e = resized[n] /\ x = dropped["reply"][n] /\ y = dropped["kill"][n] /\ z = dropped["stop"][n]
    BY <1>1 DEF ResizeTypes, Cause
  <2>6. resized'[n] = e + o
    BY <1>8, <2>1, <2>5 DEF Adding
  <2>7. accepted[n] = a + h + e + x + y + z
    BY <1>1, <2>1, <2>2, <2>5 DEF Accounts, Places
  <2>8. Places(n, images', workUnits', resized', dropped') = a + k + (e + o) + x + y + z
    BY <1>2, <2>1, <2>2, <2>5, <2>6 DEF Places
  <2>9. QED
    BY <1>2, <2>3, <2>4, <2>7, <2>8
<1>11. Accounts'
  BY <1>10 DEF Accounts
<1>12. Sending'
  BY <1>1, <1>2 DEF Sending
<1>13. Chunks'
  <2>1. PICK k \in Nat, c \in Nat : k = Len(s) /\ c = ChunkSize /\ k <= c
    BY <1>1, <1>4, ResizeConstants DEF Chunks
  <2>2. ASSUME NEW x \in ResizeWorker
        PROVE  Len(workUnits'[x]) <= ChunkSize /\ (worker'[x] = "work" <=> workUnits'[x] # <<>>)
    <3>1. CASE x = w
      <4>1. workUnits'[x] = Tail(s) /\ worker'[x] = IF k = 1 THEN "ready" ELSE "work"
        BY <1>1, <1>2, <1>4, <2>1, <3>1 DEF ResizeTypes
      <4>2. Len(Tail(s)) = k - 1
        BY <1>5, <2>1
      <4>3. Tail(s) = <<>> <=> k = 1
        <5>1. PICK tail \in Seq(Name) : tail = Tail(s)
          BY <1>5
        <5>2. tail = <<>> <=> Len(tail) = 0
          OBVIOUS
        <5>3. QED
          BY <2>1, <4>2, <5>1, <5>2
      <4>4. QED
        BY <2>1, <4>1, <4>2, <4>3
    <3>2. CASE x # w
      BY <1>1, <1>2, <3>2 DEF ResizeTypes, Chunks
    <3>3. QED
      BY <3>1, <3>2
  <2>3. QED
    BY <2>2 DEF Chunks
<1>14. Losses'
  <2>1. Ended' = Ended
    BY <1>1, <1>2 DEF Ended, ResizeTypes
  <2>2. QED
    BY <1>1, <1>2, <2>1 DEF Losses
<1>15. QED
  BY <1>9, <1>11, <1>12, <1>13, <1>14 DEF ResizeInv

(* The second signal: a chunk at most is lost.                             *)
LEMMA InterruptKeeps ==
  ASSUME NEW w \in ResizeWorker, ResizeInv, Interrupt(w)
  PROVE  ResizeInv'
<1>1. ResizeTypes /\ Accounts /\ Sending /\ Chunks /\ Losses
  BY DEF ResizeInv
<1>2. /\ worker[w] # "exited"
      /\ sourceFiles' = sourceFiles /\ units' = units /\ producer' = producer /\ wanted' = wanted
      /\ accepted' = accepted /\ resent' = resent /\ faults' = faults /\ images' = images
      /\ resized' = resized
  BY DEF Interrupt, producing
<1>3. CASE ~gracefullyQuit[w]
  <2>1. worker' = worker /\ workUnits' = workUnits /\ dropped' = dropped
    BY <1>3 DEF Interrupt
  <2>2. QED
    BY <1>1, <1>2, <2>1 DEF ResizeInv, ResizeTypes, Accounts, Sending, Chunks, Losses, Ended
<1>4. CASE gracefullyQuit[w]
  <2>1. /\ worker' = [worker EXCEPT ![w] = "exited"] /\ workUnits' = [workUnits EXCEPT ![w] = <<>>]
        /\ Drop("kill", workUnits[w])
    BY <1>4 DEF Interrupt
  <2>2. /\ workUnits \in [ResizeWorker -> Seq(Name)] /\ workUnits[w] \in Seq(Name)
        /\ images \in Seq(Name) /\ dropped["kill"] \in [Name -> Nat]
    BY <1>1 DEF ResizeTypes, Cause
  <2>3. PICK s \in Seq(Name) : s = workUnits[w]
    BY <2>2
  <2>4. /\ dropped' = [dropped EXCEPT !["kill"] = Adding(dropped["kill"], s)]
        /\ Adding(dropped["kill"], s) \in [Name -> Nat]
        /\ Sum(Adding(dropped["kill"], s)) = Sum(dropped["kill"]) + Len(s)
    BY <2>1, <2>2, <2>3, SumOfAdding DEF Drop
  <2>5. /\ dropped'["reply"] = dropped["reply"] /\ dropped'["stop"] = dropped["stop"]
        /\ dropped'["kill"] = Adding(dropped["kill"], s)
        /\ dropped' \in [Cause -> [Name -> Nat]]
    BY <1>1, <2>4 DEF ResizeTypes, Cause
  <2>6. ResizeTypes'
    <3>1. <<>> \in Seq(Name)
      OBVIOUS
    <3>2. QED
      BY <1>1, <1>2, <2>1, <2>5, <3>1 DEF ResizeTypes
  <2>7. ASSUME NEW n \in Name PROVE accepted'[n] = Places(n, images', workUnits', resized', dropped')
    <3>1. PICK a \in Nat, v \in Nat : a = Occurrences(images, n) /\ v = Occurrences(s, n)
      BY <2>2, OccurrencesUpto
    <3>2. PICK h \in Nat, k \in Nat : h = HandOf(workUnits, n) /\ k = HandOf(workUnits', n)
      BY <2>2, <2>6, HandIsNat DEF ResizeTypes
    <3>3. k + v = h
      <4>1. PICK hand, after : hand = workUnits /\ after = workUnits'
        OBVIOUS
      <4>2. <<>> \in Seq(Name)
        OBVIOUS
      <4>3. PICK none \in Seq(Name) : none = <<>>
        BY <4>2
      <4>4. hand \in [ResizeWorker -> Seq(Name)] /\ TakesUp(after, hand, w, none)
        BY <2>1, <2>2, <4>1, <4>3 DEF TakesUp
      <4>5. HandOf(after, n) + Occurrences(hand[w], n) = HandOf(hand, n) + Occurrences(none, n)
        BY <4>4, HandChanges
      <4>6. Occurrences(none, n) = 0
        BY <4>3, OccursInNone
      <4>7. QED
        BY <2>3, <3>1, <3>2, <4>1, <4>5, <4>6
    <3>4. PICK e \in Nat, x \in Nat, y \in Nat, z \in Nat :
            e = resized[n] /\ x = dropped["reply"][n] /\ y = dropped["kill"][n] /\ z = dropped["stop"][n]
      BY <1>1 DEF ResizeTypes, Cause
    <3>5. /\ dropped'["reply"][n] = x /\ dropped'["stop"][n] = z /\ dropped'["kill"][n] = y + v
      BY <2>5, <3>1, <3>4 DEF Adding
    <3>6. accepted[n] = a + h + e + x + y + z
      BY <1>1, <3>1, <3>2, <3>4 DEF Accounts, Places
    <3>7. Places(n, images', workUnits', resized', dropped') = a + k + e + x + (y + v) + z
      BY <1>2, <3>1, <3>2, <3>4, <3>5 DEF Places
    <3>8. QED
      BY <1>2, <3>3, <3>6, <3>7
  <2>8. Accounts' /\ Sending'
    BY <1>1, <1>2, <2>7 DEF Accounts, Sending
  <2>9. Chunks'
    <3>1. ASSUME NEW x \in ResizeWorker
          PROVE  Len(workUnits'[x]) <= ChunkSize /\ (worker'[x] = "work" <=> workUnits'[x] # <<>>)
      <4>1. CASE x = w
        <5>1. workUnits'[x] = <<>> /\ worker'[x] = "exited" /\ Len(<<>>) = 0
          BY <1>1, <2>1, <4>1 DEF ResizeTypes
        <5>2. 0 <= ChunkSize
          BY ResizeConstants
        <5>3. QED
          BY <5>1, <5>2
      <4>2. CASE x # w
        BY <1>1, <2>1, <4>2 DEF ResizeTypes, Chunks
      <4>3. QED
        BY <4>1, <4>2
    <3>2. QED
      BY <3>1 DEF Chunks
  <2>10. Losses'
    <3>1. Ended' = Ended \cup {w} /\ w \notin Ended
      BY <1>1, <1>2, <2>1 DEF ResizeTypes, Ended
    <3>2. Cardinality(Ended') = Cardinality(Ended) + 1
      BY <3>1, EndedIsFinite, FS_AddElement
    <3>3. PICK c \in Nat, j \in Nat : c = ChunkSize /\ j = Cardinality(Ended)
      BY ResizeConstants, EndedIsFinite
    <3>4. PICK d \in Nat, l \in Nat : d = Sum(dropped["kill"]) /\ l = Len(s) /\ l <= c
      <4>1. Sum(dropped["kill"]) \in Nat
        BY <2>2, CountedIsNat
      <4>2. Len(s) \in Nat /\ Len(s) <= c
        BY <1>1, <2>3, <3>3 DEF Chunks
      <4>3. QED
        BY <4>1, <4>2
    <3>5. d <= c * j /\ c * (j + 1) = c * j + c /\ c * j \in Nat
      BY <1>1, <3>3, <3>4 DEF Losses
    <3>6. d + l <= c * (j + 1)
      BY <3>3, <3>4, <3>5
    <3>7. Sum(dropped'["kill"]) <= ChunkSize * Cardinality(Ended')
      BY <2>4, <2>5, <3>2, <3>3, <3>4, <3>6
    <3>8. QED
      BY <1>1, <1>2, <2>5, <3>7 DEF Losses
  <2>11. QED
    BY <2>6, <2>8, <2>9, <2>10 DEF ResizeInv
<1>5. QED
  BY <1>3, <1>4

(* Both signals during a call: the chunk the server has given up is lost.  *)
LEMMA InterruptInCallKeeps ==
  ASSUME NEW w \in ResizeWorker, ResizeInv, InterruptInCall(w)
  PROVE  ResizeInv'
<1>1. ResizeTypes /\ Accounts /\ Sending /\ Chunks /\ Losses
  BY DEF ResizeInv
<1>2. /\ worker[w] = "ready" /\ worker' = [worker EXCEPT ![w] = "exited"]
      /\ faults' = faults /\ resent' = resent
      /\ sourceFiles' = sourceFiles /\ units' = units /\ producer' = producer /\ wanted' = wanted
      /\ accepted' = accepted /\ workUnits' = workUnits /\ resized' = resized
      /\ ServeDequeue /\ Drop("kill", ChunkOf(images))
  BY DEF InterruptInCall, producing
<1>3. images \in Seq(Name) /\ "kill" \in Cause /\ dropped["kill"] \in [Name -> Nat]
  BY <1>1 DEF ResizeTypes, Cause
<1>4. /\ ChunkOf(images) \in Seq(Name) /\ RestOf(images) \in Seq(Name) /\ Len(ChunkOf(images)) <= ChunkSize
      /\ \A n : Occurrences(images, n) = Occurrences(ChunkOf(images), n) + Occurrences(RestOf(images), n)
  BY <1>3, ChunkSplits
<1>5. images' = RestOf(images)
  BY <1>2 DEF ServeDequeue, RestOf
<1>6. Accounts' /\ dropped' \in [Cause -> [Name -> Nat]]
  BY <1>2, <1>3, <1>4, <1>5, QueueLoses
<1>7. ResizeTypes' /\ Sending'
  BY <1>1, <1>2, <1>4, <1>5, <1>6 DEF ResizeTypes, Sending
<1>8. Chunks'
  BY <1>1, <1>2 DEF Chunks, ResizeTypes
<1>9. /\ dropped'["kill"] = Adding(dropped["kill"], ChunkOf(images))
      /\ dropped'["reply"] = dropped["reply"]
  BY <1>1, <1>2 DEF Drop, ResizeTypes, Cause
<1>10. Ended' = Ended \cup {w} /\ w \notin Ended
  BY <1>1, <1>2 DEF ResizeTypes, Ended
<1>11. Cardinality(Ended') = Cardinality(Ended) + 1
  BY <1>10, EndedIsFinite, FS_AddElement
<1>12. PICK c \in Nat, j \in Nat : c = ChunkSize /\ j = Cardinality(Ended)
  BY ResizeConstants, EndedIsFinite
<1>13. PICK s \in Nat : s = Sum(dropped["kill"])
  BY <1>3, CountedIsNat
<1>14. PICK k \in Nat : k = Len(ChunkOf(images)) /\ k <= c
  BY <1>4, <1>12
<1>15. Sum(dropped'["kill"]) = s + k
  BY <1>3, <1>4, <1>9, <1>13, <1>14, SumOfAdding
<1>16. s <= c * j /\ c * (j + 1) = c * j + c /\ c * j \in Nat
  BY <1>1, <1>12, <1>13 DEF Losses
<1>17. s + k <= c * (j + 1)
  BY <1>12, <1>13, <1>14, <1>16
<1>18. Losses'
  <2>1. Sum(dropped'["kill"]) <= ChunkSize * Cardinality(Ended')
    BY <1>11, <1>12, <1>15, <1>17
  <2>2. QED
    BY <1>1, <1>2, <1>9, <2>1 DEF Losses
<1>19. QED
  BY <1>6, <1>7, <1>8, <1>18 DEF ResizeInv

LEMMA NextResizeKeeps == ResizeInv /\ [NextResize]_resizeVars => ResizeInv'
<1> SUFFICES ASSUME ResizeInv, [NextResize]_resizeVars PROVE ResizeInv'
  OBVIOUS
<1>1. ASSUME NextResize PROVE ResizeInv'
  BY <1>1, ScanKeeps, SentKeeps, SendFailsKeeps, RestartKeeps, QuitKeeps, DequeueKeepsUnits,
     DequeueFailsKeeps, ResizeImageKeeps, InterruptKeeps, InterruptInCallKeeps DEF NextResize
<1>2. CASE UNCHANGED resizeVars
  BY <1>2 DEF resizeVars, producing, working, ResizeInv, ResizeTypes, Accounts, Sending, Chunks, Losses, Ended
<1>3. QED
  BY <1>1, <1>2

(* The server of the resizing gets every image that is not in the          *)
(* destination bucket, no other, and each no more than once and once for   *)
(* every call whose answer was lost; each that it got is in its queue,     *)
(* with a worker, resized or lost, and the losses are at most a chunk for  *)
(* each failed answer and each worker interrupted twice, in a call or not. *)
THEOREM UnitsAreAccounted == InitResize /\ [][NextResize]_resizeVars => []UnitsAccounted
<1>1. InitResize => ResizeInv
  BY InitResizeInv
<1>2. ResizeInv /\ [NextResize]_resizeVars => ResizeInv'
  BY NextResizeKeeps
<1>3. ResizeInv => UnitsAccounted
  BY InvGivesAccounts
<1>4. QED
  BY <1>1, <1>2, <1>3, PTL

-----------------------------------------------------------------------------
(* FrequencyCounter: the definitions of the module for a tuple map t.      *)

FoundIn(t, a, i) ==
  {n \in {k \in 1..Len(a.words) + 1 - i : \A m \in 1..k - 1 : m > LookAhead => Phrase(a, i, m) \in DOMAIN t} :
     Phrase(a, i, n) \in DOMAIN t}
SpokenOf(t, a, i) == {t[Phrase(a, i, n)] : n \in FoundIn(t, a, i)} \ {a.title}
EndIn(t, a, i) == IF FoundIn(t, a, i) = {} THEN 0 ELSE i + Max(FoundIn(t, a, i)) - 1
Start(t, a, b) == \A j \in 1..b - 1 : EndIn(t, a, j) < b
BeginningIn(t, a, i) == Max({b \in 1..i : Start(t, a, b)})
GroupsIn(t, a, c) == {BeginningIn(t, a, i) : i \in {j \in DOMAIN a.words : c \in SpokenOf(t, a, j)}}
SpokenIn(t, a, c) == {i \in DOMAIN a.words : c \in SpokenOf(t, a, i)}
BackIn(t, a) ==
  \E i, j \in DOMAIN a.words : i < j /\ 0 < EndIn(t, a, j) /\ EndIn(t, a, j) < EndIn(t, a, i)
TimesIn(t, a, c) == IF BackIn(t, a) THEN SpokenIn(t, a, c) ELSE GroupsIn(t, a, c)
LeastIn(t, pages, c) == MapThenSumSet(LAMBDA n : Cardinality(GroupsIn(t, pages[n], c)), DOMAIN pages)
MostIn(t, pages, c) == MapThenSumSet(LAMBDA n : Cardinality(TimesIn(t, pages[n], c)), DOMAIN pages)

LEMMA CounterWords ==
  /\ \A a, i : /\ FoundAt(a, i) = FoundIn(tupleMap, a, i) /\ ConceptsAt(a, i) = SpokenOf(tupleMap, a, i)
               /\ EndOf(a, i) = EndIn(tupleMap, a, i)
  /\ \A pages, c : /\ Least(pages, c) = LeastIn(tupleMap, pages, c)
                   /\ Most(pages, c) = MostIn(tupleMap, pages, c)
<1>1. \A a, i : FoundAt(a, i) = FoundIn(tupleMap, a, i)
  BY DEF FoundAt, FoundIn, Tried, IsTuple
<1>2. \A a, i : ConceptsAt(a, i) = SpokenOf(tupleMap, a, i)
  BY DEF ConceptsAt, SpokenOf, FoundAt, FoundIn, Tried, IsTuple
<1>3. \A a, i : EndOf(a, i) = EndIn(tupleMap, a, i)
  BY DEF EndOf, EndIn, FoundAt, FoundIn, Tried, IsTuple
<1>4. \A pages, c : Least(pages, c) = LeastIn(tupleMap, pages, c)
  BY DEF Least, LeastIn, Groups, GroupsIn, Beginning, BeginningIn, Start, EndOf, EndIn, ConceptsAt, SpokenOf,
     FoundAt, FoundIn, Tried, IsTuple, MapThenSumSet, MapThenFoldSet
<1>5. \A pages, c : Most(pages, c) = MostIn(tupleMap, pages, c)
  BY DEF Most, MostIn, TimesIn, GoesBack, BackIn, Mentioned, SpokenIn, Groups, GroupsIn, Beginning, BeginningIn,
     Start, EndOf, EndIn, ConceptsAt, SpokenOf, FoundAt, FoundIn, Tried, IsTuple, MapThenSumSet, MapThenFoldSet
<1>6. QED
  BY <1>1, <1>2, <1>3, <1>4, <1>5

-----------------------------------------------------------------------------
(* The text of a page: where tuples end, and where groups of them begin.   *)

IsText(words) == \E S : words \in Seq(S)

LEMMA GreatestIs ==
  ASSUME NEW n \in Nat, NEW S \in SUBSET (1..n), S # {}
  PROVE  Max(S) \in S /\ \A x \in S : x <= Max(S)
<1>1. PICK T : T = {x \in Nat : n - x \in S}
  OBVIOUS
<1>2. T \subseteq Nat /\ T # {}
  <2>1. PICK s \in S : s \in 1..n
    OBVIOUS
  <2>2. n - s \in Nat /\ n - (n - s) = s
    BY <2>1
  <2>3. QED
    BY <1>1, <2>2
<1>3. PICK x \in T : \A y \in T : x <= y
  BY <1>2, LeastNumber
<1>4. n - x \in S /\ x \in Nat
  BY <1>1, <1>3
<1>5. ASSUME NEW s \in S PROVE n - x >= s
  <2>1. n - s \in Nat /\ n - (n - s) = s /\ s \in Nat
    OBVIOUS
  <2>2. n - s \in T
    BY <1>1, <2>1
  <2>3. QED
    BY <1>3, <1>4, <2>1, <2>2
<1>6. \E m \in S : \A y \in S : m >= y
  BY <1>4, <1>5
<1>7. Max(S) \in S /\ \A y \in S : Max(S) >= y
  BY <1>6 DEF Max
<1>8. \A y \in S : y \in Nat
  OBVIOUS
<1>9. QED
  BY <1>7, <1>8

LEMMA EndBasics ==
  ASSUME NEW t, NEW a, IsText(a.words), NEW i \in 1..Len(a.words)
  PROVE  /\ EndIn(t, a, i) \in Nat
         /\ FoundIn(t, a, i) = {} => EndIn(t, a, i) = 0
         /\ FoundIn(t, a, i) # {} => EndIn(t, a, i) = i + Max(FoundIn(t, a, i)) - 1 /\ EndIn(t, a, i) >= i
<1>1. Len(a.words) \in Nat
  BY DEF IsText
<1>2. Len(a.words) + 1 - i \in Nat
  BY <1>1
<1>3. PICK n, S : n = Len(a.words) + 1 - i /\ S = FoundIn(t, a, i)
  OBVIOUS
<1>4. n \in Nat /\ S \in SUBSET (1..n)
  BY <1>2, <1>3 DEF FoundIn
<1>5. S # {} => Max(S) \in 1..n
  BY <1>4, GreatestIs
<1>6. EndIn(t, a, i) = IF S = {} THEN 0 ELSE i + Max(S) - 1
  BY <1>3 DEF EndIn
<1>7. QED
  BY <1>3, <1>4, <1>5, <1>6

NoStart(t, a, j, w) == \A b \in j + 1..w : ~Start(t, a, b)

LEMMA BeginningIs ==
  ASSUME NEW t, NEW a, NEW i \in Nat \ {0}
  PROVE  /\ BeginningIn(t, a, i) \in 1..i /\ Start(t, a, BeginningIn(t, a, i))
         /\ NoStart(t, a, BeginningIn(t, a, i), i)
<1>1. PICK S : S = {b \in 1..i : Start(t, a, b)}
  OBVIOUS
<1>2. Start(t, a, 1)
  BY DEF Start
<1>3. S \in SUBSET (1..i) /\ S # {}
  BY <1>1, <1>2
<1>4. Max(S) \in S /\ \A x \in S : x <= Max(S)
  BY <1>3, GreatestIs
<1>5. BeginningIn(t, a, i) = Max(S)
  BY <1>1 DEF BeginningIn
<1>6. PICK m : m = Max(S)
  OBVIOUS
<1>7. m \in 1..i /\ Start(t, a, m) /\ \A b \in m + 1..i : ~Start(t, a, b)
  BY <1>1, <1>4, <1>6
<1>8. QED
  BY <1>5, <1>6, <1>7 DEF NoStart

LEMMA SameBeginning ==
  ASSUME NEW t, NEW a, NEW i \in Nat \ {0}, NEW j \in 1..i
  PROVE  BeginningIn(t, a, i) = BeginningIn(t, a, j) <=> NoStart(t, a, j, i)
<1>1. PICK x, y : x = BeginningIn(t, a, i) /\ y = BeginningIn(t, a, j)
  OBVIOUS
<1>2. x \in 1..i /\ Start(t, a, x) /\ \A b \in x + 1..i : ~Start(t, a, b)
  BY <1>1, BeginningIs DEF NoStart
<1>3. y \in 1..j /\ Start(t, a, y) /\ \A b \in y + 1..j : ~Start(t, a, b)
  BY <1>1, BeginningIs DEF NoStart
<1>4. ASSUME x = y PROVE NoStart(t, a, j, i)
  BY <1>2, <1>3, <1>4 DEF NoStart
<1>5. ASSUME NoStart(t, a, j, i) PROVE x = y
  <2>1. x <= j
    BY <1>2, <1>5 DEF NoStart
  <2>2. ~(x < y)
    BY <1>2, <1>3
  <2>3. ~(y < x)
    BY <1>2, <1>3, <2>1
  <2>4. QED
    BY <1>2, <1>3, <2>2, <2>3
<1>6. QED
  BY <1>1, <1>4, <1>5

-----------------------------------------------------------------------------
(* What has been counted of a page before its word w.                      *)

GroupsTo(t, a, c, w) == {BeginningIn(t, a, i) : i \in {j \in 1..w - 1 : c \in SpokenOf(t, a, j)}}
SpokenTo(t, a, c, w) == {i \in 1..w - 1 : c \in SpokenOf(t, a, i)}
TimesTo(t, a, c, w) == IF BackIn(t, a) THEN SpokenTo(t, a, c, w) ELSE GroupsTo(t, a, c, w)
(* The end of the last tuple found, which is the furthest unless one ended *)
(* before an earlier one.                                                  *)
Window(t, a, w, end) ==
  /\ end \in Nat
  /\ end = 0 \/ \E j \in 1..w - 1 : EndIn(t, a, j) = end
  /\ ~BackIn(t, a) => \A j \in 1..w - 1 : EndIn(t, a, j) <= end
(* What is remembered was found in the group of the last word; all that    *)
(* was found there, unless a tuple ended too early.                        *)
Recalls(t, a, w, known) ==
  /\ w > 1 => \A c \in known : \E j \in 1..w - 1 : c \in SpokenOf(t, a, j) /\ NoStart(t, a, j, w - 1)
  /\ ~BackIn(t, a) => \A j \in 1..w - 1 : NoStart(t, a, j, w - 1) => SpokenOf(t, a, j) \subseteq known
KnownAt(w, end, known) == IF w > end THEN {} ELSE known
EndAfter(t, a, w, end) == IF FoundIn(t, a, w) = {} THEN end ELSE EndIn(t, a, w)
OnText(t, a, w, end, known) == IsText(a.words) /\ w \in 1..Len(a.words) /\ Window(t, a, w, end) /\ Recalls(t, a, w, known)

LEMMA WordBasics ==
  ASSUME NEW t, NEW a, NEW w, NEW end, NEW known, OnText(t, a, w, end, known)
  PROVE  /\ IsText(a.words) /\ Len(a.words) \in Nat /\ DOMAIN a.words = 1..Len(a.words)
         /\ w \in Nat \ {0} /\ w <= Len(a.words) /\ end \in Nat
<1>1. IsText(a.words) /\ w \in 1..Len(a.words) /\ end \in Nat
  BY DEF OnText, Window
<1>2. Len(a.words) \in Nat /\ DOMAIN a.words = 1..Len(a.words)
  BY <1>1 DEF IsText
<1>3. QED
  BY <1>1, <1>2

LEMMA WithinAGroup ==
  ASSUME NEW t, NEW a, NEW w, NEW end, NEW known, OnText(t, a, w, end, known)
  PROVE  /\ w <= end => ~Start(t, a, w)
         /\ w > end /\ ~BackIn(t, a) => Start(t, a, w)
<1>1. w \in Nat \ {0} /\ end \in Nat /\ Len(a.words) \in Nat /\ w <= Len(a.words) /\ IsText(a.words)
  BY WordBasics
<1>2. \A j \in 1..w - 1 : j \in 1..Len(a.words) /\ EndIn(t, a, j) \in Nat
  <2>1. ASSUME NEW j \in 1..w - 1 PROVE j \in 1..Len(a.words)
    BY <1>1
  <2>2. ASSUME NEW j \in 1..w - 1 PROVE EndIn(t, a, j) \in Nat
    <3>1. j \in 1..Len(a.words)
      BY <2>1
    <3>2. QED
      BY <1>1, <3>1, EndBasics
  <2>3. QED
    BY <2>1, <2>2
<1>3. ASSUME w <= end PROVE ~Start(t, a, w)
  <2>1. PICK j \in 1..w - 1 : EndIn(t, a, j) = end
    BY <1>1, <1>3 DEF OnText, Window
  <2>2. QED
    BY <1>1, <1>3, <2>1 DEF Start
<1>4. ASSUME w > end, ~BackIn(t, a) PROVE Start(t, a, w)
  <2>1. \A j \in 1..w - 1 : EndIn(t, a, j) <= end
    BY <1>4 DEF OnText, Window
  <2>2. QED
    BY <1>1, <1>2, <1>4, <2>1 DEF Start
<1>5. QED
  BY <1>3, <1>4

LEMMA WindowMoves ==
  ASSUME NEW t, NEW a, NEW w, NEW end, NEW known, OnText(t, a, w, end, known)
  PROVE  Window(t, a, w + 1, EndAfter(t, a, w, end))
<1>1. /\ w \in Nat \ {0} /\ end \in Nat /\ Len(a.words) \in Nat /\ w <= Len(a.words) /\ IsText(a.words)
      /\ DOMAIN a.words = 1..Len(a.words) /\ w + 1 - 1 = w
  BY WordBasics
<1>2. PICK e, n : e = EndAfter(t, a, w, end) /\ n = EndIn(t, a, w)
  OBVIOUS
<1>3. n \in Nat /\ (\/ e = end /\ n = 0
                    \/ e = n /\ n > 0)
  <2>1. w \in 1..Len(a.words)
    BY <1>1
  <2>2. /\ EndIn(t, a, w) \in Nat
        /\ FoundIn(t, a, w) = {} => EndIn(t, a, w) = 0
        /\ FoundIn(t, a, w) # {} => EndIn(t, a, w) >= w
    BY <1>1, <2>1, EndBasics
  <2>3. QED
    BY <1>1, <1>2, <2>2 DEF EndAfter
<1>4. n \in Nat
  <2>1. w \in 1..Len(a.words)
    BY <1>1
  <2>2. QED
    BY <1>1, <1>2, <2>1, EndBasics
<1>5. Window(t, a, w, end)
  BY DEF OnText
<1>6. e \in Nat
  BY <1>1, <1>3, <1>4
<1>7. e = 0 \/ \E j \in 1..w : EndIn(t, a, j) = e
  <2>1. CASE e = end
    BY <1>1, <1>5, <2>1 DEF Window
  <2>2. CASE e = n
    BY <1>1, <1>2, <2>2
  <2>3. QED
    BY <1>3, <2>1, <2>2
<1>8. ASSUME ~BackIn(t, a), NEW j \in 1..w PROVE EndIn(t, a, j) <= e
  <2>1. \A i \in 1..w - 1 : EndIn(t, a, i) <= end
    BY <1>5, <1>8 DEF Window
  <2>2. CASE j = w
    BY <1>1, <1>2, <1>3, <1>4, <2>2
  <2>3. CASE j # w /\ e = end
    BY <1>1, <2>1, <2>3
  <2>4. CASE j # w /\ e = n /\ n > 0
    <3>1. j < w /\ j \in DOMAIN a.words /\ w \in DOMAIN a.words
      BY <1>1, <2>4
    <3>2. ~(EndIn(t, a, w) < EndIn(t, a, j))
      BY <1>2, <1>8, <2>4, <3>1 DEF BackIn
    <3>3. EndIn(t, a, j) \in Nat
      BY <1>1, <3>1, EndBasics
    <3>4. QED
      BY <1>2, <1>4, <2>4, <3>2, <3>3
  <2>5. QED
    BY <1>3, <2>2, <2>3, <2>4
<1>9. QED
  BY <1>1, <1>2, <1>6, <1>7, <1>8 DEF Window

LEMMA RecallMoves ==
  ASSUME NEW t, NEW a, NEW w, NEW end, NEW known, OnText(t, a, w, end, known)
  PROVE  Recalls(t, a, w + 1, KnownAt(w, end, known) \cup SpokenOf(t, a, w))
<1>1. w \in Nat \ {0} /\ end \in Nat /\ w + 1 - 1 = w
  BY WordBasics
<1>2. PICK k : k = KnownAt(w, end, known)
  OBVIOUS
<1>3. Window(t, a, w, end) /\ Recalls(t, a, w, known)
  BY DEF OnText
<1>4. (w <= end => ~Start(t, a, w)) /\ (w > end /\ ~BackIn(t, a) => Start(t, a, w))
  BY WithinAGroup
<1>5. ASSUME NEW c \in k PROVE \E j \in 1..w : c \in SpokenOf(t, a, j) /\ NoStart(t, a, j, w)
  <2>1. w <= end /\ c \in known
    BY <1>1, <1>2, <1>5 DEF KnownAt
  <2>2. w > 1
    BY <1>1, <1>3, <2>1 DEF Window
  <2>3. PICK j \in 1..w - 1 : c \in SpokenOf(t, a, j) /\ NoStart(t, a, j, w - 1)
    BY <1>3, <2>1, <2>2 DEF Recalls
  <2>4. NoStart(t, a, j, w)
    BY <1>1, <1>4, <2>1, <2>3 DEF NoStart
  <2>5. QED
    BY <1>1, <2>3, <2>4
<1>6. ASSUME NEW c \in SpokenOf(t, a, w) PROVE \E j \in 1..w : c \in SpokenOf(t, a, j) /\ NoStart(t, a, j, w)
  <2>1. NoStart(t, a, w, w)
    BY <1>1 DEF NoStart
  <2>2. QED
    BY <1>1, <1>6, <2>1
<1>7. ASSUME ~BackIn(t, a), NEW j \in 1..w, NoStart(t, a, j, w)
      PROVE  SpokenOf(t, a, j) \subseteq k \cup SpokenOf(t, a, w)
  <2>1. CASE j = w
    BY <2>1
  <2>2. CASE j # w
    <3>1. j \in 1..w - 1 /\ w \in j + 1..w
      BY <1>1, <2>2
    <3>2. NoStart(t, a, j, w - 1) /\ ~Start(t, a, w)
      BY <1>1, <1>7, <3>1 DEF NoStart
    <3>3. ~(w > end)
      BY <1>4, <1>7, <3>2
    <3>4. k = known
      BY <1>2, <3>3 DEF KnownAt
    <3>5. SpokenOf(t, a, j) \subseteq known
      BY <1>3, <1>7, <3>1, <3>2 DEF Recalls
    <3>6. QED
      BY <3>4, <3>5
  <2>3. QED
    BY <2>1, <2>2
<1>8. QED
  BY <1>1, <1>2, <1>5, <1>6, <1>7 DEF Recalls

(* A concept counts at a word exactly if its group is new there, or at     *)
(* least if it is.                                                         *)
LEMMA CountsNewGroups ==
  ASSUME NEW t, NEW a, NEW w, NEW end, NEW known, OnText(t, a, w, end, known), NEW c, c \in SpokenOf(t, a, w)
  PROVE  /\ c \in KnownAt(w, end, known) => BeginningIn(t, a, w) \in GroupsTo(t, a, c, w)
         /\ c \notin KnownAt(w, end, known) /\ ~BackIn(t, a) => BeginningIn(t, a, w) \notin GroupsTo(t, a, c, w)
<1>1. w \in Nat \ {0} /\ end \in Nat
  BY WordBasics
<1>2. Window(t, a, w, end) /\ Recalls(t, a, w, known)
  BY DEF OnText
<1>3. (w <= end => ~Start(t, a, w)) /\ (w > end /\ ~BackIn(t, a) => Start(t, a, w))
  BY WithinAGroup
<1>4. \A j \in 1..w - 1 : BeginningIn(t, a, w) = BeginningIn(t, a, j) <=> NoStart(t, a, j, w)
  BY <1>1, SameBeginning
<1>5. ASSUME c \in KnownAt(w, end, known) PROVE BeginningIn(t, a, w) \in GroupsTo(t, a, c, w)
  <2>1. w <= end /\ c \in known
    BY <1>1, <1>5 DEF KnownAt
  <2>2. w > 1
    BY <1>1, <1>2, <2>1 DEF Window
  <2>3. PICK j \in 1..w - 1 : c \in SpokenOf(t, a, j) /\ NoStart(t, a, j, w - 1)
    BY <1>2, <2>1, <2>2 DEF Recalls
  <2>4. NoStart(t, a, j, w)
    BY <1>1, <1>3, <2>1, <2>3 DEF NoStart
  <2>5. QED
    BY <1>4, <2>3, <2>4 DEF GroupsTo
<1>6. ASSUME ~BackIn(t, a), BeginningIn(t, a, w) \in GroupsTo(t, a, c, w) PROVE c \in KnownAt(w, end, known)
  <2>1. PICK j \in 1..w - 1 : c \in SpokenOf(t, a, j) /\ BeginningIn(t, a, w) = BeginningIn(t, a, j)
    BY <1>6 DEF GroupsTo
  <2>2. NoStart(t, a, j, w) /\ w \in j + 1..w
    BY <1>1, <1>4, <2>1
  <2>3. NoStart(t, a, j, w - 1) /\ ~Start(t, a, w)
    BY <1>1, <2>2 DEF NoStart
  <2>4. c \in known
    BY <1>2, <1>6, <2>1, <2>3 DEF Recalls
  <2>5. ~(w > end)
    BY <1>3, <1>6, <2>3
  <2>6. QED
    BY <2>4, <2>5 DEF KnownAt
<1>7. QED
  BY <1>5, <1>6

LEMMA GroupsGrow ==
  ASSUME NEW t, NEW a, NEW c, NEW w \in Nat \ {0}
  PROVE  /\ GroupsTo(t, a, c, w + 1)
              = GroupsTo(t, a, c, w) \cup IF c \in SpokenOf(t, a, w) THEN {BeginningIn(t, a, w)} ELSE {}
         /\ SpokenTo(t, a, c, w + 1) = SpokenTo(t, a, c, w) \cup IF c \in SpokenOf(t, a, w) THEN {w} ELSE {}
         /\ w \notin SpokenTo(t, a, c, w)
         /\ GroupsTo(t, a, c, w) \subseteq 1..w - 1 /\ SpokenTo(t, a, c, w) \subseteq 1..w - 1
<1>1. PICK S, S2 : S = {j \in 1..w - 1 : c \in SpokenOf(t, a, j)} /\ S2 = {j \in 1..w : c \in SpokenOf(t, a, j)}
  OBVIOUS
<1>2. S2 = S \cup IF c \in SpokenOf(t, a, w) THEN {w} ELSE {}
  BY <1>1
<1>3. w + 1 - 1 = w
  OBVIOUS
<1>4. /\ SpokenTo(t, a, c, w) = S /\ SpokenTo(t, a, c, w + 1) = S2
      /\ GroupsTo(t, a, c, w) = {BeginningIn(t, a, i) : i \in S}
      /\ GroupsTo(t, a, c, w + 1) = {BeginningIn(t, a, i) : i \in S2}
  BY <1>1, <1>3 DEF SpokenTo, GroupsTo
<1>5. {BeginningIn(t, a, i) : i \in S2}
        = {BeginningIn(t, a, i) : i \in S} \cup IF c \in SpokenOf(t, a, w) THEN {BeginningIn(t, a, w)} ELSE {}
  BY <1>2
<1>6. \A i \in S : BeginningIn(t, a, i) \in 1..w - 1
  <2>1. ASSUME NEW i \in S PROVE BeginningIn(t, a, i) \in 1..w - 1
    <3>1. i \in 1..w - 1 /\ i \in Nat \ {0}
      BY <1>1
    <3>2. BeginningIn(t, a, i) \in 1..i
      BY <3>1, BeginningIs
    <3>3. QED
      BY <3>1, <3>2
  <2>2. QED
    BY <2>1
<1>7. w \notin S /\ S \subseteq 1..w - 1
  BY <1>1
<1>8. QED
  BY <1>2, <1>4, <1>5, <1>6, <1>7

IfNew(t, a, c, w, end, known) == IF c \in SpokenOf(t, a, w) \ KnownAt(w, end, known) THEN 1 ELSE 0

LEMMA GroupsAreFinite ==
  ASSUME NEW t, NEW a, NEW c, NEW w \in Nat \ {0}
  PROVE  /\ IsFiniteSet(GroupsTo(t, a, c, w)) /\ IsFiniteSet(SpokenTo(t, a, c, w))
         /\ Cardinality(GroupsTo(t, a, c, w)) \in Nat /\ Cardinality(SpokenTo(t, a, c, w)) \in Nat
<1>1. IsFiniteSet(1..w - 1)
  BY FS_Interval
<1>2. GroupsTo(t, a, c, w) \subseteq 1..w - 1 /\ SpokenTo(t, a, c, w) \subseteq 1..w - 1
  BY GroupsGrow
<1>3. QED
  BY <1>1, <1>2, FS_Subset, FS_CardinalityType

LEMMA CountMoves ==
  ASSUME NEW t, NEW a, NEW w, NEW end, NEW known, OnText(t, a, w, end, known), NEW c
  PROVE  /\ Cardinality(GroupsTo(t, a, c, w + 1))
              <= Cardinality(GroupsTo(t, a, c, w)) + IfNew(t, a, c, w, end, known)
         /\ Cardinality(TimesTo(t, a, c, w + 1))
              >= Cardinality(TimesTo(t, a, c, w)) + IfNew(t, a, c, w, end, known)
<1>0. w \in Nat \ {0}
  BY WordBasics
<1>1. PICK G, S, b, n : /\ G = GroupsTo(t, a, c, w) /\ S = SpokenTo(t, a, c, w)
                        /\ b = BeginningIn(t, a, w) /\ n = IfNew(t, a, c, w, end, known)
  OBVIOUS
<1>2. /\ IsFiniteSet(G) /\ IsFiniteSet(S) /\ Cardinality(G) \in Nat /\ Cardinality(S) \in Nat
      /\ w \notin S
  BY <1>0, <1>1, GroupsAreFinite, GroupsGrow
<1>3. CASE c \notin SpokenOf(t, a, w)
  <2>1. GroupsTo(t, a, c, w + 1) = G /\ SpokenTo(t, a, c, w + 1) = S
    <3>1. /\ GroupsTo(t, a, c, w + 1)
                = GroupsTo(t, a, c, w) \cup IF c \in SpokenOf(t, a, w) THEN {BeginningIn(t, a, w)} ELSE {}
          /\ SpokenTo(t, a, c, w + 1) = SpokenTo(t, a, c, w) \cup IF c \in SpokenOf(t, a, w) THEN {w} ELSE {}
      BY <1>0, GroupsGrow
    <3>2. QED
      BY <1>1, <1>3, <3>1
  <2>2. n = 0
    BY <1>1, <1>3 DEF IfNew
  <2>3. TimesTo(t, a, c, w + 1) = TimesTo(t, a, c, w) /\ Cardinality(TimesTo(t, a, c, w)) \in Nat
    BY <1>1, <1>2, <2>1 DEF TimesTo
  <2>4. QED
    BY <1>1, <1>2, <2>1, <2>2, <2>3
<1>4. CASE c \in SpokenOf(t, a, w)
  <2>1. GroupsTo(t, a, c, w + 1) = G \cup {b} /\ SpokenTo(t, a, c, w + 1) = S \cup {w}
    BY <1>0, <1>1, <1>4, GroupsGrow
  <2>2. /\ Cardinality(G \cup {b}) = IF b \in G THEN Cardinality(G) ELSE Cardinality(G) + 1
        /\ Cardinality(S \cup {w}) = Cardinality(S) + 1
    BY <1>2, FS_AddElement
  <2>3. n = IF c \in KnownAt(w, end, known) THEN 0 ELSE 1
    BY <1>1, <1>4 DEF IfNew
  <2>4. /\ c \in KnownAt(w, end, known) => b \in G
        /\ c \notin KnownAt(w, end, known) /\ ~BackIn(t, a) => b \notin G
    BY <1>1, <1>4, CountsNewGroups
  <2>5. Cardinality(G \cup {b}) <= Cardinality(G) + n
    BY <1>2, <2>2, <2>3, <2>4
  <2>6. CASE BackIn(t, a)
    <3>1. TimesTo(t, a, c, w) = S /\ TimesTo(t, a, c, w + 1) = S \cup {w}
      BY <1>1, <2>1, <2>6 DEF TimesTo
    <3>2. Cardinality(S \cup {w}) >= Cardinality(S) + n
      BY <1>2, <2>2, <2>3
    <3>3. QED
      BY <1>1, <2>1, <2>5, <3>1, <3>2
  <2>7. CASE ~BackIn(t, a)
    <3>1. TimesTo(t, a, c, w) = G /\ TimesTo(t, a, c, w + 1) = G \cup {b}
      BY <1>1, <2>1, <2>7 DEF TimesTo
    <3>2. Cardinality(G \cup {b}) >= Cardinality(G) + n
      BY <1>2, <2>2, <2>3, <2>4, <2>7
    <3>3. QED
      BY <1>1, <2>1, <2>5, <3>1, <3>2
  <2>8. QED
    BY <2>6, <2>7
<1>5. QED
  BY <1>3, <1>4

LEMMA TextEnds ==
  ASSUME NEW t, NEW a, IsText(a.words), NEW c
  PROVE  /\ GroupsTo(t, a, c, Len(a.words) + 1) = GroupsIn(t, a, c)
         /\ TimesTo(t, a, c, Len(a.words) + 1) = TimesIn(t, a, c)
         /\ Cardinality(GroupsIn(t, a, c)) \in Nat /\ Cardinality(TimesIn(t, a, c)) \in Nat
<1>1. PICK n : n = Len(a.words)
  OBVIOUS
<1>2. n \in Nat /\ DOMAIN a.words = 1..n /\ n + 1 - 1 = n /\ n + 1 \in Nat \ {0}
  BY <1>1 DEF IsText
<1>3. GroupsTo(t, a, c, n + 1) = GroupsIn(t, a, c) /\ SpokenTo(t, a, c, n + 1) = SpokenIn(t, a, c)
  BY <1>2 DEF GroupsTo, GroupsIn, SpokenTo, SpokenIn
<1>4. TimesTo(t, a, c, n + 1) = TimesIn(t, a, c)
  BY <1>3 DEF TimesTo, TimesIn
<1>5. Cardinality(GroupsIn(t, a, c)) \in Nat /\ Cardinality(SpokenIn(t, a, c)) \in Nat
  BY <1>2, <1>3, GroupsAreFinite
<1>6. Cardinality(TimesIn(t, a, c)) \in Nat
  BY <1>5 DEF TimesIn
<1>7. QED
  BY <1>1, <1>3, <1>4, <1>5, <1>6

-----------------------------------------------------------------------------
(* The sums over the pages that have been counted.                         *)

HasPages(s) == \E S : s \in Seq(S) /\ \A a \in S : IsText(a.words)
LeastOf(t, pages, c) == [n \in DOMAIN pages |-> Cardinality(GroupsIn(t, pages[n], c))]
MostOf(t, pages, c) == [n \in DOMAIN pages |-> Cardinality(TimesIn(t, pages[n], c))]
LeastSums(f, t, pages, c) ==
  f = [s \in SUBSET DOMAIN pages |->
         IF s = {} THEN 0 ELSE Cardinality(GroupsIn(t, pages[One(s)], c)) + f[s \ {One(s)}]]
MostSums(f, t, pages, c) ==
  f = [s \in SUBSET DOMAIN pages |->
         IF s = {} THEN 0 ELSE Cardinality(TimesIn(t, pages[One(s)], c)) + f[s \ {One(s)}]]

LEMMA PagesBasics ==
  ASSUME NEW s, HasPages(s)
  PROVE  Len(s) \in Nat /\ DOMAIN s = 1..Len(s) /\ \A n \in 1..Len(s) : IsText(s[n].words)
<1>1. PICK S : s \in Seq(S) /\ \A a \in S : IsText(a.words)
  BY DEF HasPages
<1>2. QED
  BY <1>1

LEMMA PageCounts ==
  ASSUME NEW t, NEW pages, HasPages(pages), NEW c
  PROVE  Counts(LeastOf(t, pages, c), 1..Len(pages)) /\ Counts(MostOf(t, pages, c), 1..Len(pages))
<1>1. Len(pages) \in Nat /\ DOMAIN pages = 1..Len(pages) /\ \A n \in 1..Len(pages) : IsText(pages[n].words)
  BY PagesBasics
<1>2. IsFiniteSet(1..Len(pages))
  BY <1>1, FS_Interval
<1>3. ASSUME NEW n \in 1..Len(pages)
      PROVE  LeastOf(t, pages, c)[n] \in Nat /\ MostOf(t, pages, c)[n] \in Nat
  <2>1. PICK a : a = pages[n]
    OBVIOUS
  <2>2. IsText(a.words)
    BY <1>1, <2>1
  <2>3. Cardinality(GroupsIn(t, a, c)) \in Nat /\ Cardinality(TimesIn(t, a, c)) \in Nat
    BY <2>2, TextEnds
  <2>4. QED
    BY <1>1, <2>1, <2>3 DEF LeastOf, MostOf
<1>4. QED
  BY <1>2, <1>3 DEF Counts

LEMMA SolutionIsTotal ==
  ASSUME NEW g, NEW S, Counts(g, S), NEW f, Sums(f, g, S)
  PROVE  f[S] = Total(g, S)
<1>1. IsFiniteSet(S) /\ S \in SUBSET S
  BY DEF Counts
<1>2. PICK h : Sums(h, g, S) /\ Total(g, S) = h[S]
  BY <1>1, TotalIs
<1>3. QED
  BY <1>1, <1>2, SumsAgree

LEMMA LeastIsTotal ==
  ASSUME NEW t, NEW pages, HasPages(pages), NEW c
  PROVE  LeastIn(t, pages, c) = Total(LeastOf(t, pages, c), 1..Len(pages))
<1>1. PICK g, S : g = LeastOf(t, pages, c) /\ S = 1..Len(pages)
  OBVIOUS
<1>2. Counts(g, S) /\ DOMAIN pages = S
  BY <1>1, PageCounts, PagesBasics
<1>3. \A s \in SUBSET S : s # {} => One(s) \in S
  BY SomeOne
<1>4. \A s \in SUBSET S : s # {} => g[One(s)] = Cardinality(GroupsIn(t, pages[One(s)], c))
  BY <1>1, <1>2, <1>3 DEF LeastOf
<1>5. ASSUME NEW f PROVE LeastSums(f, t, pages, c) <=> Sums(f, g, S)
  <2>1. [s \in SUBSET S |-> IF s = {} THEN 0 ELSE Cardinality(GroupsIn(t, pages[One(s)], c)) + f[s \ {One(s)}]]
          = [s \in SUBSET S |-> IF s = {} THEN 0 ELSE g[One(s)] + f[s \ {One(s)}]]
    BY <1>4
  <2>2. QED
    BY <1>2, <2>1 DEF LeastSums, Sums
<1>6. PICK f : f = CHOOSE h : LeastSums(h, t, pages, c)
  OBVIOUS
<1>7. LeastIn(t, pages, c) = f[S]
  BY <1>2, <1>6 DEF LeastIn, MapThenSumSet, MapThenFoldSet, LeastSums, One
<1>8. \E h : Sums(h, g, S)
  BY <1>2, SumsExist DEF Counts
<1>9. Sums(f, g, S)
  BY <1>5, <1>6, <1>8
<1>10. QED
  BY <1>1, <1>2, <1>7, <1>9, SolutionIsTotal

LEMMA MostIsTotal ==
  ASSUME NEW t, NEW pages, HasPages(pages), NEW c
  PROVE  MostIn(t, pages, c) = Total(MostOf(t, pages, c), 1..Len(pages))
<1>1. PICK g, S : g = MostOf(t, pages, c) /\ S = 1..Len(pages)
  OBVIOUS
<1>2. Counts(g, S) /\ DOMAIN pages = S
  BY <1>1, PageCounts, PagesBasics
<1>3. \A s \in SUBSET S : s # {} => One(s) \in S
  BY SomeOne
<1>4. \A s \in SUBSET S : s # {} => g[One(s)] = Cardinality(TimesIn(t, pages[One(s)], c))
  BY <1>1, <1>2, <1>3 DEF MostOf
<1>5. ASSUME NEW f PROVE MostSums(f, t, pages, c) <=> Sums(f, g, S)
  <2>1. [s \in SUBSET S |-> IF s = {} THEN 0 ELSE Cardinality(TimesIn(t, pages[One(s)], c)) + f[s \ {One(s)}]]
          = [s \in SUBSET S |-> IF s = {} THEN 0 ELSE g[One(s)] + f[s \ {One(s)}]]
    BY <1>4
  <2>2. QED
    BY <1>2, <2>1 DEF MostSums, Sums
<1>6. PICK f : f = CHOOSE h : MostSums(h, t, pages, c)
  OBVIOUS
<1>7. MostIn(t, pages, c) = f[S]
  BY <1>2, <1>6 DEF MostIn, MapThenSumSet, MapThenFoldSet, MostSums, One
<1>8. \E h : Sums(h, g, S)
  BY <1>2, SumsExist DEF Counts
<1>9. Sums(f, g, S)
  BY <1>5, <1>6, <1>8
<1>10. QED
  BY <1>1, <1>2, <1>7, <1>9, SolutionIsTotal

LEMMA OneMore ==
  ASSUME NEW n \in Nat, NEW g, NEW h, Counts(g, 1..n), Counts(h, 1..n + 1), \A i \in 1..n : g[i] = h[i]
  PROVE  Total(h, 1..n + 1) = Total(g, 1..n) + h[n + 1] /\ Total(g, 1..n) \in Nat
<1>1. n + 1 \in 1..n + 1 /\ (1..n + 1) \ {n + 1} = 1..n
  OBVIOUS
<1>2. Total(h, 1..n + 1) = h[n + 1] + Total(h, (1..n + 1) \ {n + 1})
  BY <1>1, TotalStep
<1>3. Total(g, 1..n) = Total(h, 1..n)
  BY TotalSame
<1>4. Total(g, 1..n) \in Nat
  BY TotalStep
<1>5. h[n + 1] \in Nat
  BY <1>1 DEF Counts
<1>6. PICK x, y : x = Total(g, 1..n) /\ y = h[n + 1]
  OBVIOUS
<1>7. Total(h, 1..n + 1) = y + x
  BY <1>1, <1>2, <1>3, <1>6
<1>8. y + x = x + y
  BY <1>4, <1>5, <1>6
<1>9. QED
  BY <1>4, <1>6, <1>7, <1>8

LEMMA AnotherPage ==
  ASSUME NEW t, NEW pages, HasPages(pages), NEW a, IsText(a.words), NEW c
  PROVE  /\ HasPages(Append(pages, a)) /\ LeastIn(t, pages, c) \in Nat /\ MostIn(t, pages, c) \in Nat
         /\ LeastIn(t, Append(pages, a), c) = LeastIn(t, pages, c) + Cardinality(GroupsIn(t, a, c))
         /\ MostIn(t, Append(pages, a), c) = MostIn(t, pages, c) + Cardinality(TimesIn(t, a, c))
<1>1. PICK S : pages \in Seq(S) /\ \A x \in S : IsText(x.words)
  BY DEF HasPages
<1>2. PICK more, n, T : more = Append(pages, a) /\ n = Len(pages) /\ T = S \cup {a}
  OBVIOUS
<1>3. more \in Seq(T) /\ Len(more) = n + 1 /\ n \in Nat /\ more[n + 1] = a /\ \A i \in 1..n : more[i] = pages[i]
  BY <1>1, <1>2
<1>4. HasPages(more)
  BY <1>1, <1>2, <1>3 DEF HasPages
<1>5. DOMAIN pages = 1..n /\ DOMAIN more = 1..n + 1
  BY <1>1, <1>2, <1>3
<1>6. /\ Counts(LeastOf(t, pages, c), 1..n) /\ Counts(MostOf(t, pages, c), 1..n)
      /\ Counts(LeastOf(t, more, c), 1..n + 1) /\ Counts(MostOf(t, more, c), 1..n + 1)
  BY <1>2, <1>3, <1>4, PageCounts
<1>7. /\ \A i \in 1..n : LeastOf(t, pages, c)[i] = LeastOf(t, more, c)[i]
      /\ LeastOf(t, more, c)[n + 1] = Cardinality(GroupsIn(t, a, c))
  BY <1>3, <1>5 DEF LeastOf
<1>8. /\ \A i \in 1..n : MostOf(t, pages, c)[i] = MostOf(t, more, c)[i]
      /\ MostOf(t, more, c)[n + 1] = Cardinality(TimesIn(t, a, c))
  BY <1>3, <1>5 DEF MostOf
<1>9. /\ Total(LeastOf(t, more, c), 1..n + 1)
           = Total(LeastOf(t, pages, c), 1..n) + LeastOf(t, more, c)[n + 1]
      /\ Total(LeastOf(t, pages, c), 1..n) \in Nat
  BY <1>3, <1>6, <1>7, OneMore
<1>10. /\ Total(MostOf(t, more, c), 1..n + 1)
            = Total(MostOf(t, pages, c), 1..n) + MostOf(t, more, c)[n + 1]
       /\ Total(MostOf(t, pages, c), 1..n) \in Nat
  BY <1>3, <1>6, <1>8, OneMore
<1>11. /\ LeastIn(t, pages, c) = Total(LeastOf(t, pages, c), 1..n)
       /\ MostIn(t, pages, c) = Total(MostOf(t, pages, c), 1..n)
  BY <1>2, LeastIsTotal, MostIsTotal
<1>12. /\ LeastIn(t, more, c) = Total(LeastOf(t, more, c), 1..n + 1)
       /\ MostIn(t, more, c) = Total(MostOf(t, more, c), 1..n + 1)
  BY <1>3, <1>4, LeastIsTotal, MostIsTotal
<1>13. QED
  BY <1>2, <1>4, <1>7, <1>8, <1>9, <1>10, <1>11, <1>12

-----------------------------------------------------------------------------
(* The inductive invariant.                                                *)

CountOf(tally, c) == IF c \in DOMAIN tally THEN tally[c] ELSE 0
CountsOK(t, tally) == DOMAIN tally \subseteq Range(t) /\ \A c \in DOMAIN tally : tally[c] \in Nat
BetweenPages(t, pages, tally) ==
  \A c : LeastIn(t, pages, c) <= CountOf(tally, c) /\ CountOf(tally, c) <= MostIn(t, pages, c)
(* In the midst of a page its share so far is added.                       *)
OnPage(t, pages, tally, a, w) ==
  \A c : /\ LeastIn(t, pages, c) + Cardinality(GroupsTo(t, a, c, w)) <= CountOf(tally, c)
         /\ CountOf(tally, c) <= MostIn(t, pages, c) + Cardinality(TimesTo(t, a, c, w))
AtWord(t, a, w, end, known) ==
  /\ IsText(a.words) /\ w \in 1..Len(a.words) + 1
  /\ Window(t, a, w, end) /\ Recalls(t, a, w, known)
FileOK(t, pages, file, tally, n) ==
  /\ n \in 0..Len(pages)
  /\ \A c : /\ CountOf(file, c) \in Nat /\ LeastIn(t, SubSeq(pages, 1, n), c) <= CountOf(file, c)
            /\ CountOf(file, c) > 0 => c \in DOMAIN tally /\ CountOf(file, c) <= tally[c]

CounterInv ==
  /\ HasPages(waitingPages) /\ HasPages(chunk) /\ HasPages(counted)
  /\ CountsOK(tupleMap, conceptCounts)
  /\ counting = "words" =>
       /\ AtWord(tupleMap, article, word, furthestWindow, dupChecker)
       /\ OnPage(tupleMap, counted, conceptCounts, article, word)
  /\ counting \in {"ready", "chunk"} => BetweenPages(tupleMap, counted, conceptCounts)
  /\ ~quitting => frequencies = <<>>
  /\ quitting => FileOK(tupleMap, counted, frequencies, conceptCounts, inFile)

LEMMA CountIsNat ==
  ASSUME NEW t, NEW tally, CountsOK(t, tally), NEW c
  PROVE  CountOf(tally, c) \in Nat
BY DEF CountsOK, CountOf

LEMMA PartOfPages ==
  ASSUME NEW s, HasPages(s), NEW m \in Nat \ {0}, NEW n \in Nat, n <= Len(s)
  PROVE  HasPages(SubSeq(s, m, n))
<1>1. PICK S : s \in Seq(S) /\ \A a \in S : IsText(a.words)
  BY DEF HasPages
<1>2. SubSeq(s, m, n) \in Seq(S)
  BY <1>1
<1>3. QED
  BY <1>1, <1>2 DEF HasPages

LEMMA MinOfTwo ==
  ASSUME NEW m \in Nat, NEW n \in Nat
  PROVE  Min({m, n}) \in Nat /\ Min({m, n}) <= n
<1>1. \E x \in {m, n} : \A y \in {m, n} : x =< y
  OBVIOUS
<1>2. Min({m, n}) \in {m, n} /\ \A y \in {m, n} : Min({m, n}) =< y
  BY <1>1 DEF Min
<1>3. QED
  BY <1>2

(* The counts after a word.                                                *)
Added(tally, new) == [c \in DOMAIN tally \cup new |-> CountOf(tally, c) + (IF c \in new THEN 1 ELSE 0)]

LEMMA AddedCounts ==
  ASSUME NEW t, NEW tally, CountsOK(t, tally), NEW new, new \subseteq Range(t)
  PROVE  /\ CountsOK(t, Added(tally, new))
         /\ \A c : CountOf(Added(tally, new), c) = CountOf(tally, c) + (IF c \in new THEN 1 ELSE 0)
<1>1. \A c : CountOf(tally, c) \in Nat
  BY CountIsNat
<1>2. PICK k : k = Added(tally, new)
  OBVIOUS
<1>3. /\ DOMAIN k = DOMAIN tally \cup new
      /\ \A c \in DOMAIN tally \cup new : k[c] = CountOf(tally, c) + (IF c \in new THEN 1 ELSE 0)
  BY <1>2 DEF Added
<1>4. CountsOK(t, k)
  BY <1>1, <1>3 DEF CountsOK
<1>5. ASSUME NEW c PROVE CountOf(k, c) = CountOf(tally, c) + (IF c \in new THEN 1 ELSE 0)
  <2>1. CASE c \in DOMAIN tally \cup new
    BY <1>3, <2>1 DEF CountOf
  <2>2. CASE c \notin DOMAIN tally \cup new
    BY <1>3, <2>2 DEF CountOf
  <2>3. QED
    BY <2>1, <2>2
<1>6. QED
  BY <1>2, <1>4, <1>5

LEMMA SpokenAreConcepts ==
  ASSUME NEW t, NEW a, NEW i
  PROVE  SpokenOf(t, a, i) \subseteq Range(t)
BY DEF SpokenOf, FoundIn, Range

LEMMA FileKept ==
  ASSUME NEW t, NEW pages, NEW file, NEW tally, NEW n, FileOK(t, pages, file, tally, n), CountsOK(t, tally),
         NEW new, new \subseteq Range(t)
  PROVE  FileOK(t, pages, file, Added(tally, new), n)
<1>1. PICK k : k = Added(tally, new)
  OBVIOUS
<1>2. CountsOK(t, k) /\ \A c : CountOf(k, c) = CountOf(tally, c) + (IF c \in new THEN 1 ELSE 0)
  BY <1>1, AddedCounts
<1>3. DOMAIN tally \subseteq DOMAIN k
  BY <1>1 DEF Added
<1>4. ASSUME NEW c \in DOMAIN tally PROVE c \in DOMAIN k /\ tally[c] <= k[c] /\ tally[c] \in Nat /\ k[c] \in Nat
  <2>1. tally[c] \in Nat /\ c \in DOMAIN k
    BY <1>3 DEF CountsOK
  <2>2. CountOf(tally, c) = tally[c] /\ CountOf(k, c) = k[c]
    BY <2>1 DEF CountOf
  <2>3. QED
    BY <1>2, <2>1, <2>2
<1>5. \A c : /\ CountOf(file, c) \in Nat /\ LeastIn(t, SubSeq(pages, 1, n), c) <= CountOf(file, c)
             /\ n \in 0..Len(pages)
  BY DEF FileOK
<1>6. ASSUME NEW c, CountOf(file, c) > 0 PROVE c \in DOMAIN k /\ CountOf(file, c) <= k[c]
  <2>1. c \in DOMAIN tally /\ CountOf(file, c) <= tally[c]
    BY <1>6 DEF FileOK
  <2>2. c \in DOMAIN k /\ tally[c] <= k[c] /\ tally[c] \in Nat /\ k[c] \in Nat
    BY <1>4, <2>1
  <2>3. QED
    BY <1>5, <2>1, <2>2
<1>7. QED
  BY <1>1, <1>5, <1>6 DEF FileOK

LEMMA InitCounterInv == InitCounter => CounterInv
<1> SUFFICES ASSUME InitCounter PROVE CounterInv
  OBVIOUS
<1>1. /\ waitingPages \in DumpPages /\ counting = "ready" /\ chunk = <<>> /\ conceptCounts = <<>>
      /\ frequencies = <<>> /\ quitting = FALSE /\ counted = <<>>
  BY Zenon DEF InitCounter
<1>2. HasPages(<<>>)
  <2>1. PICK e, S : e = <<>> /\ S = {}
    OBVIOUS
  <2>2. e \in Seq(S) /\ \A a \in S : IsText(a.words)
    BY <2>1
  <2>3. HasPages(e)
    BY Zenon, <2>2 DEF HasPages
  <2>4. QED
    BY <2>1, <2>3
<1>3. HasPages(waitingPages)
  <2>1. PICK s : s = waitingPages
    OBVIOUS
  <2>2. s \in Seq(Range(s)) /\ \A n \in DOMAIN s : s[n].words \in Seq(Range(s[n].words))
    <3>1. s \in DumpPages
      BY <1>1, <2>1
    <3>2. IsSequence(s) /\ \A n \in DOMAIN s : IsSequence(s[n].words)
      BY Zenon, <3>1, CounterAssumption DEF CounterAssumption
    <3>3. QED
      BY Zenon, <3>2 DEF IsSequence
  <2>3. \A a \in Range(s) : IsText(a.words)
    BY <2>2 DEF Range, IsText
  <2>4. QED
    BY <2>1, <2>2, <2>3 DEF HasPages
<1>4. DOMAIN conceptCounts = {}
  BY <1>1
<1>5. CountsOK(tupleMap, conceptCounts) /\ \A c : CountOf(conceptCounts, c) = 0
  BY <1>4 DEF CountsOK, CountOf
<1>6. ASSUME NEW c PROVE LeastIn(tupleMap, counted, c) = 0 /\ MostIn(tupleMap, counted, c) = 0
  <2>1. PICK t, s : t = tupleMap /\ s = counted
    OBVIOUS
  <2>2. HasPages(s) /\ 1..Len(s) = {}
    <3>1. s = <<>>
      BY <1>1, <2>1
    <3>2. Len(s) = 0
      BY <3>1
    <3>3. QED
      BY <1>2, <3>1, <3>2
  <2>3. LeastIn(t, s, c) = Total(LeastOf(t, s, c), {}) /\ MostIn(t, s, c) = Total(MostOf(t, s, c), {})
    BY <2>2, LeastIsTotal, MostIsTotal
  <2>4. \A g : Total(g, {}) = 0
    BY TotalOfNothing, FS_EmptySet
  <2>5. QED
    BY <2>1, <2>3, <2>4
<1>7. BetweenPages(tupleMap, counted, conceptCounts)
  BY <1>5, <1>6 DEF BetweenPages
<1>8. QED
  BY <1>1, <1>2, <1>3, <1>5, <1>7 DEF CounterInv

-----------------------------------------------------------------------------
(* Its steps.                                                              *)

LEMMA TextBegins ==
  ASSUME NEW t, NEW pages, HasPages(pages), NEW tally, BetweenPages(t, pages, tally), NEW a, IsText(a.words), NEW known
  PROVE  AtWord(t, a, 1, 0, known) /\ OnPage(t, pages, tally, a, 1)
<1>1. Len(a.words) \in Nat
  BY DEF IsText
<1>2. Window(t, a, 1, 0) /\ Recalls(t, a, 1, known)
  BY DEF Window, Recalls
<1>3. AtWord(t, a, 1, 0, known)
  <2>1. PICK n : n = Len(a.words)
    OBVIOUS
  <2>2. 1 \in 1..n + 1
    BY <1>1, <2>1
  <2>3. QED
    BY <1>2, <2>1, <2>2 DEF AtWord
<1>4. ASSUME NEW c
      PROVE  /\ LeastIn(t, pages, c) + Cardinality(GroupsTo(t, a, c, 1)) <= CountOf(tally, c)
             /\ CountOf(tally, c) <= MostIn(t, pages, c) + Cardinality(TimesTo(t, a, c, 1))
  <2>1. GroupsTo(t, a, c, 1) = {} /\ SpokenTo(t, a, c, 1) = {}
    BY DEF GroupsTo, SpokenTo
  <2>2. TimesTo(t, a, c, 1) = {}
    BY <2>1 DEF TimesTo
  <2>3. PICK l, m, x : l = LeastIn(t, pages, c) /\ m = MostIn(t, pages, c) /\ x = CountOf(tally, c)
    OBVIOUS
  <2>4. l \in Nat /\ m \in Nat
    BY <2>3, AnotherPage
  <2>5. l <= x /\ x <= m
    BY <2>3 DEF BetweenPages
  <2>6. Cardinality({}) = 0
    BY FS_EmptySet
  <2>7. QED
    BY <2>1, <2>2, <2>3, <2>4, <2>5, <2>6
<1>5. QED
  BY <1>3, <1>4 DEF OnPage

LEMMA WordCounts ==
  ASSUME NEW t, NEW pages, HasPages(pages), NEW tally, CountsOK(t, tally), NEW a, NEW w, NEW end, NEW known,
         OnText(t, a, w, end, known), OnPage(t, pages, tally, a, w),
         NEW new, new = SpokenOf(t, a, w) \ KnownAt(w, end, known)
  PROVE  /\ OnPage(t, pages, Added(tally, new), a, w + 1)
         /\ AtWord(t, a, w + 1, EndAfter(t, a, w, end), KnownAt(w, end, known) \cup SpokenOf(t, a, w))
<1>1. /\ IsText(a.words) /\ Len(a.words) \in Nat /\ w \in Nat \ {0} /\ w <= Len(a.words)
  BY WordBasics
<1>2. w + 1 \in 1..Len(a.words) + 1
  BY <1>1
<1>3. AtWord(t, a, w + 1, EndAfter(t, a, w, end), KnownAt(w, end, known) \cup SpokenOf(t, a, w))
  <2>1. Window(t, a, w + 1, EndAfter(t, a, w, end))
    BY WindowMoves
  <2>2. Recalls(t, a, w + 1, KnownAt(w, end, known) \cup SpokenOf(t, a, w))
    BY RecallMoves
  <2>3. QED
    BY <1>1, <1>2, <2>1, <2>2 DEF AtWord
<1>4. new \subseteq Range(t)
  BY SpokenAreConcepts
<1>5. ASSUME NEW c
      PROVE  /\ LeastIn(t, pages, c) + Cardinality(GroupsTo(t, a, c, w + 1)) <= CountOf(Added(tally, new), c)
             /\ CountOf(Added(tally, new), c) <= MostIn(t, pages, c) + Cardinality(TimesTo(t, a, c, w + 1))
  <2>1. PICK l, m, x, x2, n : /\ l = LeastIn(t, pages, c) /\ m = MostIn(t, pages, c) /\ x = CountOf(tally, c)
                              /\ x2 = CountOf(Added(tally, new), c) /\ n = IfNew(t, a, c, w, end, known)
    OBVIOUS
  <2>2. PICK g, g2, s, s2 :
           /\ g = Cardinality(GroupsTo(t, a, c, w)) /\ g2 = Cardinality(GroupsTo(t, a, c, w + 1))
           /\ s = Cardinality(TimesTo(t, a, c, w)) /\ s2 = Cardinality(TimesTo(t, a, c, w + 1))
    OBVIOUS
  <2>3. l \in Nat /\ m \in Nat
    BY <1>1, <2>1, AnotherPage
  <2>4. x \in Nat
    BY <2>1, CountIsNat
  <2>5. n \in {0, 1}
    BY <2>1 DEF IfNew
  <2>6. x2 = x + n
    <3>1. x2 = x + (IF c \in new THEN 1 ELSE 0)
      BY <1>4, <2>1, AddedCounts
    <3>2. n = (IF c \in new THEN 1 ELSE 0)
      BY <2>1 DEF IfNew
    <3>3. QED
      BY <3>1, <3>2
  <2>7. g \in Nat /\ g2 \in Nat /\ s \in Nat /\ s2 \in Nat
    <3>1. w + 1 \in Nat \ {0}
      BY <1>1
    <3>2. /\ Cardinality(GroupsTo(t, a, c, w)) \in Nat /\ Cardinality(SpokenTo(t, a, c, w)) \in Nat
          /\ Cardinality(GroupsTo(t, a, c, w + 1)) \in Nat /\ Cardinality(SpokenTo(t, a, c, w + 1)) \in Nat
      BY <1>1, <3>1, GroupsAreFinite
    <3>3. QED
      BY <2>2, <3>2 DEF TimesTo
  <2>8. g2 <= g + n /\ s2 >= s + n
    BY <2>1, <2>2, CountMoves
  <2>9. l + g <= x /\ x <= m + s
    BY <2>1, <2>2 DEF OnPage
  <2>10. l + g2 <= x2 /\ x2 <= m + s2
    BY <2>3, <2>4, <2>5, <2>6, <2>7, <2>8, <2>9
  <2>11. QED
    BY <2>1, <2>2, <2>10
<1>6. OnPage(t, pages, Added(tally, new), a, w + 1)
  BY <1>5 DEF OnPage
<1>7. QED
  BY <1>3, <1>6

LEMMA PageDone ==
  ASSUME NEW t, NEW pages, HasPages(pages), NEW tally, NEW a, NEW w, NEW end, NEW known,
         AtWord(t, a, w, end, known), w > Len(a.words), OnPage(t, pages, tally, a, w)
  PROVE  BetweenPages(t, Append(pages, a), tally) /\ HasPages(Append(pages, a)) /\ IsText(a.words)
<1>1. IsText(a.words) /\ w \in 1..Len(a.words) + 1
  BY DEF AtWord
<1>2. PICK n : n = Len(a.words)
  OBVIOUS
<1>3. n \in Nat /\ w = n + 1
  <2>1. n \in Nat
    BY <1>1, <1>2 DEF IsText
  <2>2. w \in 1..n + 1 /\ w > n
    BY <1>1, <1>2
  <2>3. QED
    BY <2>1, <2>2
<1>4. ASSUME NEW c
      PROVE  /\ LeastIn(t, Append(pages, a), c) <= CountOf(tally, c)
             /\ CountOf(tally, c) <= MostIn(t, Append(pages, a), c)
  <2>1. GroupsTo(t, a, c, w) = GroupsIn(t, a, c) /\ TimesTo(t, a, c, w) = TimesIn(t, a, c)
    BY <1>1, <1>2, <1>3, TextEnds
  <2>2. /\ LeastIn(t, Append(pages, a), c) = LeastIn(t, pages, c) + Cardinality(GroupsIn(t, a, c))
        /\ MostIn(t, Append(pages, a), c) = MostIn(t, pages, c) + Cardinality(TimesIn(t, a, c))
    BY <1>1, AnotherPage
  <2>3. /\ LeastIn(t, pages, c) + Cardinality(GroupsTo(t, a, c, w)) <= CountOf(tally, c)
        /\ CountOf(tally, c) <= MostIn(t, pages, c) + Cardinality(TimesTo(t, a, c, w))
    BY DEF OnPage
  <2>4. QED
    BY <2>1, <2>2, <2>3
<1>5. HasPages(Append(pages, a))
  BY <1>1, AnotherPage
<1>6. QED
  BY <1>1, <1>4, <1>5 DEF BetweenPages

LEMMA FileStays ==
  ASSUME NEW t, NEW pages, HasPages(pages), NEW a, NEW file, NEW tally, NEW n, FileOK(t, pages, file, tally, n)
  PROVE  FileOK(t, Append(pages, a), file, tally, n)
<1>1. PICK S : pages \in Seq(S)
  BY DEF HasPages
<1>2. n \in 0..Len(pages) /\ Len(pages) \in Nat
  BY <1>1 DEF FileOK
<1>3. Len(Append(pages, a)) = Len(pages) + 1
  BY <1>1
<1>4. n \in 0..Len(Append(pages, a))
  BY <1>2, <1>3
<1>5. SubSeq(Append(pages, a), 1, n) = SubSeq(pages, 1, n)
  <2>1. PICK more, T : more = Append(pages, a) /\ T = S \cup {a}
    OBVIOUS
  <2>2. more \in Seq(T) /\ pages \in Seq(T) /\ \A i \in 1..Len(pages) : more[i] = pages[i]
    BY <1>1, <2>1
  <2>3. PICK x, y : x = SubSeq(more, 1, n) /\ y = SubSeq(pages, 1, n)
    OBVIOUS
  <2>4. /\ x \in Seq(T) /\ y \in Seq(T) /\ Len(x) = n /\ Len(y) = n
        /\ \A i \in 1..n : x[i] = more[i] /\ y[i] = pages[i]
    BY <1>2, <1>3, <2>1, <2>2, <2>3
  <2>5. \A i \in 1..n : x[i] = y[i]
    BY <1>2, <2>2, <2>4
  <2>6. x = y
    BY <2>4, <2>5
  <2>7. QED
    BY <2>1, <2>3, <2>6
<1>6. QED
  BY <1>4, <1>5 DEF FileOK

LEMMA FileWritten ==
  ASSUME NEW t, NEW pages, HasPages(pages), NEW tally, CountsOK(t, tally),
         \A c : LeastIn(t, pages, c) <= CountOf(tally, c)
  PROVE  FileOK(t, pages, tally, tally, Len(pages))
<1>1. PICK S : pages \in Seq(S)
  BY DEF HasPages
<1>2. SubSeq(pages, 1, Len(pages)) = pages /\ Len(pages) \in 0..Len(pages)
  BY <1>1
<1>3. ASSUME NEW c, CountOf(tally, c) > 0 PROVE c \in DOMAIN tally /\ CountOf(tally, c) <= tally[c]
  <2>1. c \in DOMAIN tally
    BY <1>3 DEF CountOf
  <2>2. CountOf(tally, c) = tally[c] /\ tally[c] \in Nat
    BY <2>1 DEF CountOf, CountsOK
  <2>3. QED
    BY <2>1, <2>2
<1>4. \A c : CountOf(tally, c) \in Nat
  BY CountIsNat
<1>5. QED
  BY <1>2, <1>3, <1>4 DEF FileOK

LEMMA DequeueChunkKeeps == CounterInv /\ DequeueChunk => CounterInv'
<1> SUFFICES ASSUME CounterInv, DequeueChunk PROVE CounterInv'
  OBVIOUS
<1>1. PICK n : n = Min({PagesPerCall, Len(waitingPages)})
  OBVIOUS
<1>2. HasPages(waitingPages) /\ Len(waitingPages) \in Nat /\ PagesPerCall \in Nat
  BY PagesBasics, CounterAssumption DEF CounterInv, CounterAssumption
<1>3. n \in Nat /\ n <= Len(waitingPages)
  BY <1>1, <1>2, MinOfTwo
<1>4. /\ counting = "ready" /\ counting' \in {"exited", "chunk"}
      /\ chunk' = SubSeq(waitingPages, 1, n) /\ waitingPages' = SubSeq(waitingPages, n + 1, Len(waitingPages))
      /\ tupleMap' = tupleMap /\ conceptCounts' = conceptCounts /\ frequencies' = frequencies
      /\ quitting' = quitting /\ counted' = counted /\ inFile' = inFile
  BY <1>1 DEF DequeueChunk
<1>5. HasPages(chunk')
  BY <1>2, <1>3, <1>4, PartOfPages
<1>6. HasPages(waitingPages')
  <2>1. n + 1 \in Nat \ {0} /\ Len(waitingPages) <= Len(waitingPages)
    BY <1>2, <1>3
  <2>2. QED
    BY <1>2, <1>4, <2>1, PartOfPages
<1>7. BetweenPages(tupleMap, counted, conceptCounts)
  BY <1>4 DEF CounterInv
<1>8. QED
  BY <1>4, <1>5, <1>6, <1>7 DEF CounterInv

LEMMA CallLostKeeps == CounterInv /\ CallLost => CounterInv'
<1> SUFFICES ASSUME CounterInv, CallLost PROVE CounterInv'
  OBVIOUS
<1>1. HasPages(waitingPages) /\ Len(waitingPages) \in Nat /\ PagesPerCall \in Nat
  BY PagesBasics, CounterAssumption DEF CounterInv, CounterAssumption
<1>2. PICK n \in {0, Min({PagesPerCall, Len(waitingPages)})} :
        waitingPages' = SubSeq(waitingPages, n + 1, Len(waitingPages))
  BY DEF CallLost
<1>3. n \in Nat
  BY <1>1, MinOfTwo
<1>4. HasPages(waitingPages')
  <2>1. n + 1 \in Nat \ {0} /\ Len(waitingPages) <= Len(waitingPages)
    BY <1>1, <1>3
  <2>2. QED
    BY <1>1, <1>2, <2>1, PartOfPages
<1>5. /\ counting = "ready" /\ counting' = counting /\ chunk' = chunk
      /\ tupleMap' = tupleMap /\ conceptCounts' = conceptCounts /\ frequencies' = frequencies
      /\ quitting' = quitting /\ counted' = counted /\ inFile' = inFile
  BY DEF CallLost
<1>6. QED
  BY <1>4, <1>5 DEF CounterInv

LEMMA HandleRawPageKeeps == CounterInv /\ HandleRawPage => CounterInv'
<1> SUFFICES ASSUME CounterInv, HandleRawPage PROVE CounterInv'
  OBVIOUS
<1>1. /\ counting = "chunk" /\ chunk # <<>> /\ counting' = "words" /\ chunk' = Tail(chunk)
      /\ word' = 1 /\ furthestWindow' = 0 /\ waitingPages' = waitingPages
      /\ tupleMap' = tupleMap /\ conceptCounts' = conceptCounts /\ frequencies' = frequencies
      /\ quitting' = quitting /\ counted' = counted /\ inFile' = inFile
  BY DEF HandleRawPage
<1>2. PICK words \in Endings(Head(chunk).words) : article' = [title |-> Head(chunk).title, words |-> words]
  BY DEF HandleRawPage
<1>3. HasPages(chunk)
  BY DEF CounterInv
<1>4. PICK S : chunk \in Seq(S) /\ \A a \in S : IsText(a.words)
  BY <1>3 DEF HasPages
<1>5. Head(chunk) \in S /\ Tail(chunk) \in Seq(S)
  BY <1>1, <1>4
<1>6. HasPages(Tail(chunk))
  BY <1>4, <1>5 DEF HasPages
<1>7. IsText(words)
  <2>1. PICK s : s = Head(chunk).words
    OBVIOUS
  <2>2. IsText(s)
    BY <1>4, <1>5, <2>1
  <2>3. CASE words = s
    BY <2>2, <2>3
  <2>4. CASE words # s
    <3>1. PICK w \in OtherWords : words = Append(Front(s), w) /\ s # <<>>
      BY <1>2, <2>1, <2>4 DEF Endings
    <3>2. PICK T : s \in Seq(T)
      BY <2>2 DEF IsText
    <3>3. Len(s) \in Nat /\ Len(s) > 0
      BY <3>1, <3>2
    <3>4. Front(s) = SubSeq(s, 1, Len(s) - 1)
      BY DEF Front
    <3>5. SubSeq(s, 1, Len(s) - 1) \in Seq(T)
      BY <3>2, <3>3
    <3>6. PICK f, U : f = Front(s) /\ U = T \cup OtherWords
      OBVIOUS
    <3>7. f \in Seq(U) /\ w \in U
      BY <3>4, <3>5, <3>6
    <3>8. Append(f, w) \in Seq(U)
      BY <3>7
    <3>9. QED
      BY <3>1, <3>6, <3>8 DEF IsText
  <2>5. QED
    BY <2>3, <2>4
<1>8. PICK a : a = article'
  OBVIOUS
<1>9. IsText(a.words)
  BY <1>2, <1>7, <1>8
<1>10. HasPages(counted) /\ BetweenPages(tupleMap, counted, conceptCounts)
  BY <1>1 DEF CounterInv
<1>11. \A known : AtWord(tupleMap, a, 1, 0, known) /\ OnPage(tupleMap, counted, conceptCounts, a, 1)
  BY <1>9, <1>10, TextBegins
<1>12. /\ AtWord(tupleMap', article', word', furthestWindow', dupChecker')
       /\ OnPage(tupleMap', counted', conceptCounts', article', word')
  BY <1>1, <1>8, <1>11
<1>13. QED
  BY <1>1, <1>6, <1>12 DEF CounterInv

LEMMA CountFromKeeps == CounterInv /\ CountFrom => CounterInv'
<1> SUFFICES ASSUME CounterInv, CountFrom PROVE CounterInv'
  OBVIOUS
<1>1. /\ counting = "words" /\ word <= Len(article.words) /\ counting' = counting /\ chunk' = chunk
      /\ article' = article /\ word' = word + 1 /\ waitingPages' = waitingPages
      /\ tupleMap' = tupleMap /\ frequencies' = frequencies
      /\ quitting' = quitting /\ counted' = counted /\ inFile' = inFile
  BY DEF CountFrom
<1>2. PICK t, a, w, end, known, tally : /\ t = tupleMap /\ a = article /\ w = word /\ end = furthestWindow
                                        /\ known = dupChecker /\ tally = conceptCounts
  OBVIOUS
<1>3. PICK new : new = SpokenOf(t, a, w) \ KnownAt(w, end, known)
  OBVIOUS
<1>4. NewAt(word) = new /\ FoundAt(article, word) = FoundIn(t, a, w)
  BY <1>2, <1>3, CounterWords DEF NewAt, Remembered, KnownAt
<1>5. conceptCounts' = Added(tally, new)
  BY <1>2, <1>4 DEF CountFrom, Added, CountOf
<1>6. dupChecker' = KnownAt(w, end, known) \cup SpokenOf(t, a, w)
  <2>1. dupChecker' = Remembered \cup NewAt(word)
    BY DEF CountFrom
  <2>2. Remembered = KnownAt(w, end, known)
    BY <1>2 DEF Remembered, KnownAt
  <2>3. QED
    BY <1>3, <1>4, <2>1, <2>2
<1>7. furthestWindow' = EndAfter(t, a, w, end)
  <2>1. furthestWindow' = IF FoundAt(article, word) = {} THEN furthestWindow ELSE word + Max(FoundAt(article, word)) - 1
    BY DEF CountFrom
  <2>2. QED
    BY <1>2, <1>4, <2>1 DEF EndAfter, EndIn
<1>8. /\ HasPages(counted) /\ CountsOK(t, tally) /\ AtWord(t, a, w, end, known)
      /\ OnPage(t, counted, tally, a, w)
  BY <1>1, <1>2 DEF CounterInv
<1>9. OnText(t, a, w, end, known)
  <2>1. IsText(a.words) /\ w \in 1..Len(a.words) + 1 /\ Window(t, a, w, end) /\ Recalls(t, a, w, known)
    BY <1>8 DEF AtWord
  <2>2. PICK n : n = Len(a.words)
    OBVIOUS
  <2>3. n \in Nat /\ w \in 1..n + 1 /\ w <= n
    BY <1>1, <1>2, <2>1, <2>2 DEF IsText
  <2>4. w \in 1..Len(a.words)
    BY <2>2, <2>3
  <2>5. QED
    BY <2>1, <2>4 DEF OnText
<1>10. /\ OnPage(t, counted, Added(tally, new), a, w + 1)
       /\ AtWord(t, a, w + 1, EndAfter(t, a, w, end), KnownAt(w, end, known) \cup SpokenOf(t, a, w))
  BY <1>3, <1>8, <1>9, WordCounts
<1>11. new \subseteq Range(t)
  BY <1>3, SpokenAreConcepts
<1>12. CountsOK(t, Added(tally, new))
  BY <1>8, <1>11, AddedCounts
<1>13. quitting => FileOK(t, counted, frequencies, Added(tally, new), inFile)
  <2>1. quitting => FileOK(t, counted, frequencies, tally, inFile)
    BY <1>2 DEF CounterInv
  <2>2. QED
    BY <1>8, <1>11, <2>1, FileKept
<1>14. /\ CountsOK(tupleMap', conceptCounts')
       /\ AtWord(tupleMap', article', word', furthestWindow', dupChecker')
       /\ OnPage(tupleMap', counted', conceptCounts', article', word')
       /\ quitting' => FileOK(tupleMap', counted', frequencies', conceptCounts', inFile')
  BY <1>1, <1>2, <1>5, <1>6, <1>7, <1>10, <1>12, <1>13
<1>15. QED
  BY <1>1, <1>14 DEF CounterInv

LEMMA PageCountedKeeps == CounterInv /\ PageCounted => CounterInv'
<1> SUFFICES ASSUME CounterInv, PageCounted PROVE CounterInv'
  OBVIOUS
<1>1. /\ counting = "words" /\ word > Len(article.words) /\ counting' = "chunk" /\ chunk' = chunk
      /\ waitingPages' = waitingPages /\ tupleMap' = tupleMap /\ conceptCounts' = conceptCounts
      /\ frequencies' = frequencies /\ quitting' = quitting /\ counted' = Append(counted, article) /\ inFile' = inFile
  BY DEF PageCounted
<1>2. PICK t, a, w, end, known, tally : /\ t = tupleMap /\ a = article /\ w = word /\ end = furthestWindow
                                        /\ known = dupChecker /\ tally = conceptCounts
  OBVIOUS
<1>3. /\ HasPages(counted) /\ CountsOK(t, tally) /\ AtWord(t, a, w, end, known)
      /\ OnPage(t, counted, tally, a, w) /\ w > Len(a.words)
  BY <1>1, <1>2 DEF CounterInv
<1>4. BetweenPages(t, Append(counted, a), tally) /\ HasPages(Append(counted, a))
  BY <1>3, PageDone
<1>5. quitting => FileOK(t, Append(counted, a), frequencies, tally, inFile)
  <2>1. quitting => FileOK(t, counted, frequencies, tally, inFile)
    BY <1>2 DEF CounterInv
  <2>2. QED
    BY <1>3, <2>1, FileStays
<1>6. /\ HasPages(counted') /\ BetweenPages(tupleMap', counted', conceptCounts')
      /\ quitting' => FileOK(tupleMap', counted', frequencies', conceptCounts', inFile')
  BY <1>1, <1>2, <1>4, <1>5
<1>7. QED
  BY <1>1, <1>6 DEF CounterInv

LEMMA OutputFrequenciesKeeps == CounterInv /\ OutputFrequencies => CounterInv'
<1> SUFFICES ASSUME CounterInv, OutputFrequencies PROVE CounterInv'
  OBVIOUS
<1>1. /\ counting \in {"ready", "chunk", "words"} /\ chunk' = chunk /\ waitingPages' = waitingPages
      /\ article' = article /\ word' = word /\ furthestWindow' = furthestWindow /\ dupChecker' = dupChecker
      /\ tupleMap' = tupleMap /\ conceptCounts' = conceptCounts /\ counted' = counted
  BY DEF OutputFrequencies, onPage
<1>2. HasPages(counted) /\ CountsOK(tupleMap, conceptCounts)
  BY DEF CounterInv
<1>3. CASE counting' \in {"exited", "crashed"} /\ frequencies' = frequencies /\ quitting' = quitting /\ inFile' = inFile
  BY <1>1, <1>3 DEF CounterInv
<1>4. CASE /\ counting' = counting /\ quitting' = TRUE /\ frequencies' = conceptCounts /\ inFile' = Len(counted)
  <2>1. ASSUME NEW c PROVE LeastIn(tupleMap, counted, c) <= CountOf(conceptCounts, c)
    <3>1. CASE counting \in {"ready", "chunk"}
      BY <3>1 DEF CounterInv, BetweenPages
    <3>2. CASE counting = "words"
      <4>1. PICK t, a, w, tally, s : t = tupleMap /\ a = article /\ w = word /\ tally = conceptCounts /\ s = counted
        OBVIOUS
      <4>2. HasPages(s) /\ CountsOK(t, tally) /\ OnPage(t, s, tally, a, w) /\ IsText(a.words) /\ w \in 1..Len(a.words) + 1
        BY <3>2, <4>1 DEF CounterInv, AtWord
      <4>3. PICK l, g, x : /\ l = LeastIn(t, s, c) /\ g = Cardinality(GroupsTo(t, a, c, w))
                           /\ x = CountOf(tally, c)
        OBVIOUS
      <4>4. l \in Nat
        BY <4>2, <4>3, AnotherPage
      <4>5. w \in Nat \ {0}
        BY <4>2 DEF IsText
      <4>6. g \in Nat
        BY <4>3, <4>5, GroupsAreFinite
      <4>7. x \in Nat
        BY <4>2, <4>3, CountIsNat
      <4>8. l + g <= x
        BY <4>2, <4>3 DEF OnPage
      <4>9. l <= x
        BY <4>4, <4>6, <4>7, <4>8
      <4>10. QED
        BY <4>1, <4>3, <4>9
    <3>3. QED
      BY <1>1, <3>1, <3>2
  <2>2. FileOK(tupleMap, counted, conceptCounts, conceptCounts, Len(counted))
    BY <1>2, <2>1, FileWritten
  <2>3. FileOK(tupleMap', counted', frequencies', conceptCounts', inFile')
    BY <1>1, <1>4, <2>2
  <2>4. QED
    BY <1>1, <1>4, <2>3 DEF CounterInv
<1>5. QED
  BY <1>3, <1>4 DEF OutputFrequencies

LEMMA CounterInvKept == CounterInv /\ [NextCounter]_counterVars => CounterInv'
<1> SUFFICES ASSUME CounterInv, [NextCounter]_counterVars PROVE CounterInv'
  OBVIOUS
<1>1. CASE DequeueChunk
  BY <1>1, DequeueChunkKeeps
<1>2. CASE CallLost
  BY <1>2, CallLostKeeps
<1>3. CASE QuitGracefully
  BY <1>3 DEF QuitGracefully, CounterInv, onPage
<1>4. CASE HandleRawPage
  BY <1>4, HandleRawPageKeeps
<1>5. CASE ChunkDone
  BY <1>5 DEF ChunkDone, CounterInv, onPage
<1>6. CASE CountFrom
  BY <1>6, CountFromKeeps
<1>7. CASE PageCounted
  BY <1>7, PageCountedKeeps
<1>8. CASE OutputFrequencies
  BY <1>8, OutputFrequenciesKeeps
<1>9. CASE UNCHANGED counterVars
  BY <1>9 DEF counterVars, CounterInv, onPage
<1>10. QED
  BY <1>1, <1>2, <1>3, <1>4, <1>5, <1>6, <1>7, <1>8, <1>9 DEF NextCounter

LEMMA CountsAreOnce == CounterInv => ConceptsCountOnce
<1> SUFFICES ASSUME CounterInv PROVE ConceptsCountOnce
  OBVIOUS
<1>1. ASSUME counting \in {"ready", "chunk"}
      PROVE  /\ DOMAIN conceptCounts \subseteq Concepts
             /\ \A c \in Concepts :
                  LET count == IF c \in DOMAIN conceptCounts THEN conceptCounts[c] ELSE 0
                  IN  Least(counted, c) <= count /\ count <= Most(counted, c)
  <2>1. DOMAIN conceptCounts \subseteq Concepts
    BY DEF CounterInv, CountsOK, Concepts
  <2>2. \A c : /\ LeastIn(tupleMap, counted, c) <= CountOf(conceptCounts, c)
               /\ CountOf(conceptCounts, c) <= MostIn(tupleMap, counted, c)
    BY <1>1 DEF CounterInv, BetweenPages
  <2>3. \A c : Least(counted, c) <= CountOf(conceptCounts, c) /\ CountOf(conceptCounts, c) <= Most(counted, c)
    BY <2>2, CounterWords
  <2>4. QED
    BY <2>1, <2>3 DEF CountOf
<1>2. ~quitting => frequencies = <<>>
  BY DEF CounterInv
<1>3. ASSUME quitting
      PROVE  \A c \in Concepts :
               LET count == IF c \in DOMAIN frequencies THEN frequencies[c] ELSE 0
               IN  /\ Least(SubSeq(counted, 1, inFile), c) <= count
                   /\ count > 0 => c \in DOMAIN conceptCounts /\ count <= conceptCounts[c]
  <2>1. \A c : /\ LeastIn(tupleMap, SubSeq(counted, 1, inFile), c) <= CountOf(frequencies, c)
               /\ CountOf(frequencies, c) > 0
                    => c \in DOMAIN conceptCounts /\ CountOf(frequencies, c) <= conceptCounts[c]
    BY <1>3 DEF CounterInv, FileOK
  <2>2. \A c : Least(SubSeq(counted, 1, inFile), c) <= CountOf(frequencies, c)
    BY <2>1, CounterWords
  <2>3. QED
    BY <2>1, <2>2 DEF CountOf
<1>4. QED
  BY <1>1, <1>2, <1>3 DEF ConceptsCountOnce

(* concept_frequency_counter.cpp counts a concept once in every group of   *)
(* overlapping tuples that speaks of it, for whatever tuples the index and *)
(* pages the queue hold and however often calls are lost: never less, and  *)
(* more only where a tuple ends before one that began earlier, when the    *)
(* program forgets what it found in the group.  The file, once written,    *)
(* covers the pages counted until then.                                    *)
THEOREM ConceptsStayCountedOnce == InitCounter /\ [][NextCounter]_counterVars => []ConceptsCountOnce
<1>1. InitCounter => CounterInv
  BY InitCounterInv
<1>2. CounterInv /\ [NextCounter]_counterVars => CounterInv'
  BY CounterInvKept
<1>3. CounterInv => ConceptsCountOnce
  BY CountsAreOnce
<1>4. QED
  BY <1>1, <1>2, <1>3, PTL

-----------------------------------------------------------------------------
(* SparseGraphLoad and ConceptResolver: FoldLeft folds over the sets of    *)
(* indices, the last index first.  One step of each of their folds:        *)

NamedIn(table, name) == IF name \in DOMAIN table THEN table[name] ELSE <<>>
CostsAfter(g, costs) ==
  [p \in g.lines |-> Min({costs[p]} \cup {costs[q] + Len(g.ins[p]) : q \in ToSet(g.ins[p] \o g.outs[p])})]
Step(kind, p, x, e) ==
  CASE kind = "page"  -> FindOrBuildPage(x, e)
    [] kind = "edge"  -> AddToEdges(x, e)
    [] kind = "alias" -> AppendOrBuild(x, e, p)
    [] kind = "name"  -> WithCanonical(x, e)
    [] kind = "seen"  -> AddSeen(x, e)
    [] kind = "redirect" -> WithRedirect(x, e)
    [] kind = "outlink"  -> AddToOutlinks(x, p, e)
    [] kind = "inlink"   -> AddToInlinks(x, p, e)
    [] kind = "weight"   -> x + Len(p[e])
    [] kind = "costs"    -> CostsAfter(p, x)
    [] OTHER          -> x + Len(NamedIn(p, e))

LEMMA StepIs ==
  ASSUME NEW p, NEW x, NEW e
  PROVE  /\ Step("page", p, x, e) = FindOrBuildPage(x, e) /\ Step("edge", p, x, e) = AddToEdges(x, e)
         /\ Step("alias", p, x, e) = AppendOrBuild(x, e, p) /\ Step("sum", p, x, e) = x + Len(NamedIn(p, e))
         /\ Step("name", p, x, e) = WithCanonical(x, e) /\ Step("seen", p, x, e) = AddSeen(x, e)
         /\ Step("redirect", p, x, e) = WithRedirect(x, e) /\ Step("weight", p, x, e) = x + Len(p[e])
         /\ Step("outlink", p, x, e) = AddToOutlinks(x, p, e) /\ Step("inlink", p, x, e) = AddToInlinks(x, p, e)
         /\ Step("costs", p, x, e) = CostsAfter(p, x)
BY DEF Step

FoldsBy(f, kind, p, base, s, I) ==
  f = [S \in SUBSET I |-> IF S = {} THEN base ELSE Step(kind, p, f[S \ {Max(S)}], s[Max(S)])]
(* After n elements it is at f[n].                                         *)
FoldsUpTo(f, kind, p, base, s, N) ==
  f[0] = base /\ \A n \in 0..N - 1 : f[n + 1] = Step(kind, p, f[n], s[n + 1])

LEMMA MaxOf ==
  ASSUME NEW s, \A y \in s : y \in Nat, NEW x \in s, \A y \in s : x >= y
  PROVE  Max(s) = x
<1>1. Max(s) \in s /\ \A y \in s : Max(s) >= y
  BY DEF Max
<1>2. Max(s) \in Nat /\ x \in Nat /\ Max(s) >= x /\ x >= Max(s)
  BY <1>1
<1>3. QED
  BY <1>2

LEMMA FoldByExists ==
  ASSUME NEW kind, NEW p, NEW base, NEW s, NEW N \in Nat
  PROVE  \E f : FoldsBy(f, kind, p, base, s, 1..N)
<1> DEFINE T == {n \in Nat : \E f : FoldsBy(f, kind, p, base, s, 1..n)}
<1>1. 0 \in T
  <2>1. FoldsBy([S \in SUBSET (1..0) |-> base], kind, p, base, s, 1..0)
    BY DEF FoldsBy
  <2>2. QED
    BY <2>1
<1>2. ASSUME NEW n \in T PROVE n + 1 \in T
  <2>1. n \in Nat
    OBVIOUS
  <2>2. PICK f : FoldsBy(f, kind, p, base, s, 1..n)
    BY <1>2
  <2> DEFINE g == [S \in SUBSET (1..n + 1) |->
                     IF n + 1 \in S THEN Step(kind, p, f[S \ {n + 1}], s[n + 1]) ELSE f[S]]
  <2>3. ASSUME NEW S \in SUBSET (1..n + 1)
        PROVE  g[S] = IF S = {} THEN base ELSE Step(kind, p, g[S \ {Max(S)}], s[Max(S)])
    <3>1. CASE n + 1 \in S
      <4>1. Max(S) = n + 1
        <5>1. \A y \in S : y \in Nat /\ n + 1 >= y
          BY <2>1
        <5>2. QED
          BY <3>1, <5>1, MaxOf
      <4>2. S \ {n + 1} \in SUBSET (1..n)
        BY <2>1
      <4>3. g[S \ {n + 1}] = f[S \ {n + 1}]
        BY <2>1, <4>2
      <4>4. QED
        BY <3>1, <4>1, <4>3
    <3>2. CASE n + 1 \notin S
      <4>1. S \in SUBSET (1..n)
        BY <2>1, <3>2
      <4>2. S # {} => S \ {Max(S)} \in SUBSET (1..n + 1) /\ S \ {Max(S)} \in SUBSET (1..n)
        BY <4>1
      <4>3. S # {} => g[S \ {Max(S)}] = f[S \ {Max(S)}]
        BY <3>2, <4>2
      <4>4. g[S] = f[S]
        BY <3>2
      <4>5. f[S] = IF S = {} THEN base ELSE Step(kind, p, f[S \ {Max(S)}], s[Max(S)])
        BY <2>2, <4>1 DEF FoldsBy
      <4>6. QED
        BY <4>3, <4>4, <4>5
    <3>3. QED
      BY <3>1, <3>2
  <2>4. FoldsBy(g, kind, p, base, s, 1..n + 1)
    <3>1. g = [S \in SUBSET (1..n + 1) |-> g[S]]
      OBVIOUS
    <3> HIDE DEF g
    <3>2. QED
      BY <2>3, <3>1 DEF FoldsBy
  <2>5. QED
    BY <2>1, <2>4
<1>3. T = Nat
  BY <1>1, <1>2, Induction
<1>4. QED
  BY <1>3

LEMMA FoldBySteps ==
  ASSUME NEW kind, NEW p, NEW base, NEW s, NEW N \in Nat, NEW f, FoldsBy(f, kind, p, base, s, 1..N)
  PROVE  \E h : FoldsUpTo(h, kind, p, base, s, N) /\ f[1..N] = h[N]
<1>1. PICK h : h = [n \in 0..N |-> f[1..n]]
  OBVIOUS
<1>2. f[1..0] = base
  BY DEF FoldsBy
<1>3. ASSUME NEW n \in 0..N - 1 PROVE f[1..n + 1] = Step(kind, p, f[1..n], s[n + 1])
  <2>1. 1..n + 1 \in SUBSET (1..N) /\ n + 1 \in 1..n + 1 /\ n + 1 \in Nat
    OBVIOUS
  <2>2. Max(1..n + 1) = n + 1
    <3>1. \A y \in 1..n + 1 : y \in Nat /\ n + 1 >= y
      OBVIOUS
    <3>2. QED
      BY <2>1, <3>1, MaxOf
  <2>3. (1..n + 1) \ {n + 1} = 1..n
    OBVIOUS
  <2>4. f[1..n + 1] = Step(kind, p, f[(1..n + 1) \ {Max(1..n + 1)}], s[Max(1..n + 1)])
    BY <2>1 DEF FoldsBy
  <2>5. QED
    BY <2>2, <2>3, <2>4
<1>4. h[0] = base /\ f[1..N] = h[N]
  BY <1>1, <1>2
<1>5. ASSUME NEW n \in 0..N - 1 PROVE h[n + 1] = Step(kind, p, h[n], s[n + 1])
  <2>1. n \in 0..N /\ n + 1 \in 0..N
    OBVIOUS
  <2>2. QED
    BY <1>1, <1>3, <2>1
<1>6. QED
  BY <1>4, <1>5 DEF FoldsUpTo

PageFolds(f, base, s, I) ==
  f = [S \in SUBSET I |-> IF S = {} THEN base ELSE FindOrBuildPage(f[S \ {Max(S)}], s[Max(S)])]
EdgeFolds(f, base, s, I) ==
  f = [S \in SUBSET I |-> IF S = {} THEN base ELSE AddToEdges(f[S \ {Max(S)}], s[Max(S)])]
AliasFolds(f, page, base, s, I) ==
  f = [S \in SUBSET I |-> IF S = {} THEN base ELSE AppendOrBuild(f[S \ {Max(S)}], s[Max(S)], page)]
SumFolds(f, table, s, I) ==
  f = [S \in SUBSET I |-> IF S = {} THEN 0 ELSE f[S \ {Max(S)}] + Len(NamedIn(table, s[Max(S)]))]

AliasesWith(base, s, page) == FoldLeft(LAMBDA table, alias : AppendOrBuild(table, alias, page), base, s)
NamedBy(table, s) == FoldLeft(LAMBDA sum, name : sum + Len(NamedIn(table, name)), 0, s)

LEMMA PageFold ==
  ASSUME NEW base, NEW s, NEW N \in Nat, DOMAIN s = 1..N
  PROVE  \E h : FoldsUpTo(h, "page", 0, base, s, N) /\ FoldLeft(FindOrBuildPage, base, s) = h[N]
<1>1. PICK f : f = CHOOSE g : PageFolds(g, base, s, 1..N)
  OBVIOUS
<1>2. FoldLeft(FindOrBuildPage, base, s) = f[1..N]
  BY <1>1 DEF FoldLeft, MapThenFoldSet, PageFolds
<1>3. ASSUME NEW g PROVE PageFolds(g, base, s, 1..N) <=> FoldsBy(g, "page", 0, base, s, 1..N)
  <2>1. \A x, e : Step("page", 0, x, e) = FindOrBuildPage(x, e)
    BY StepIs
  <2>2. [S \in SUBSET (1..N) |-> IF S = {} THEN base ELSE FindOrBuildPage(g[S \ {Max(S)}], s[Max(S)])]
          = [S \in SUBSET (1..N) |-> IF S = {} THEN base ELSE Step("page", 0, g[S \ {Max(S)}], s[Max(S)])]
    BY <2>1
  <2>3. QED
    BY <2>2 DEF PageFolds, FoldsBy
<1>4. FoldsBy(f, "page", 0, base, s, 1..N)
  BY <1>1, <1>3, FoldByExists
<1>5. QED
  BY <1>2, <1>4, FoldBySteps

LEMMA EdgeFold ==
  ASSUME NEW base, NEW s, NEW N \in Nat, DOMAIN s = 1..N
  PROVE  \E h : FoldsUpTo(h, "edge", 0, base, s, N) /\ FoldLeft(AddToEdges, base, s) = h[N]
<1>1. PICK f : f = CHOOSE g : EdgeFolds(g, base, s, 1..N)
  OBVIOUS
<1>2. FoldLeft(AddToEdges, base, s) = f[1..N]
  BY <1>1 DEF FoldLeft, MapThenFoldSet, EdgeFolds
<1>3. ASSUME NEW g PROVE EdgeFolds(g, base, s, 1..N) <=> FoldsBy(g, "edge", 0, base, s, 1..N)
  <2>1. \A x, e : Step("edge", 0, x, e) = AddToEdges(x, e)
    BY StepIs
  <2>2. [S \in SUBSET (1..N) |-> IF S = {} THEN base ELSE AddToEdges(g[S \ {Max(S)}], s[Max(S)])]
          = [S \in SUBSET (1..N) |-> IF S = {} THEN base ELSE Step("edge", 0, g[S \ {Max(S)}], s[Max(S)])]
    BY <2>1
  <2>3. QED
    BY <2>2 DEF EdgeFolds, FoldsBy
<1>4. FoldsBy(f, "edge", 0, base, s, 1..N)
  BY <1>1, <1>3, FoldByExists
<1>5. QED
  BY <1>2, <1>4, FoldBySteps

LEMMA AliasFold ==
  ASSUME NEW page, NEW base, NEW s, NEW N \in Nat, DOMAIN s = 1..N
  PROVE  \E h : FoldsUpTo(h, "alias", page, base, s, N) /\ AliasesWith(base, s, page) = h[N]
<1>1. PICK f : f = CHOOSE g : AliasFolds(g, page, base, s, 1..N)
  OBVIOUS
<1>2. AliasesWith(base, s, page) = f[1..N]
  BY <1>1 DEF AliasesWith, FoldLeft, MapThenFoldSet, AliasFolds
<1>3. ASSUME NEW g PROVE AliasFolds(g, page, base, s, 1..N) <=> FoldsBy(g, "alias", page, base, s, 1..N)
  <2>1. \A x, e : Step("alias", page, x, e) = AppendOrBuild(x, e, page)
    BY StepIs
  <2>2. [S \in SUBSET (1..N) |-> IF S = {} THEN base ELSE AppendOrBuild(g[S \ {Max(S)}], s[Max(S)], page)]
          = [S \in SUBSET (1..N) |-> IF S = {} THEN base ELSE Step("alias", page, g[S \ {Max(S)}], s[Max(S)])]
    BY <2>1
  <2>3. QED
    BY <2>2 DEF AliasFolds, FoldsBy
<1>4. FoldsBy(f, "alias", page, base, s, 1..N)
  BY <1>1, <1>3, FoldByExists
<1>5. QED
  BY <1>2, <1>4, FoldBySteps

LEMMA SumFold ==
  ASSUME NEW table, NEW s, NEW N \in Nat, DOMAIN s = 1..N
  PROVE  \E h : FoldsUpTo(h, "sum", table, 0, s, N) /\ NamedBy(table, s) = h[N]
<1>1. PICK f : f = CHOOSE g : SumFolds(g, table, s, 1..N)
  OBVIOUS
<1>2. NamedBy(table, s) = f[1..N]
  BY <1>1 DEF NamedBy, FoldLeft, MapThenFoldSet, SumFolds, NamedIn
<1>3. ASSUME NEW g PROVE SumFolds(g, table, s, 1..N) <=> FoldsBy(g, "sum", table, 0, s, 1..N)
  <2>1. \A x, e : Step("sum", table, x, e) = x + Len(NamedIn(table, e))
    BY StepIs
  <2>2. [S \in SUBSET (1..N) |-> IF S = {} THEN 0 ELSE g[S \ {Max(S)}] + Len(NamedIn(table, s[Max(S)]))]
          = [S \in SUBSET (1..N) |-> IF S = {} THEN 0 ELSE Step("sum", table, g[S \ {Max(S)}], s[Max(S)])]
    BY <2>1
  <2>3. QED
    BY <2>2 DEF SumFolds, FoldsBy
<1>4. FoldsBy(f, "sum", table, 0, s, 1..N)
  BY <1>1, <1>3, FoldByExists
<1>5. QED
  BY <1>2, <1>4, FoldBySteps

-----------------------------------------------------------------------------
(* The tables of the load.                                                 *)

IsList(s) == \E S : s \in Seq(S)
Pages(known) == IsList(known) /\ IsInjective(known)
(* What was known keeps its place.                                         *)
Longer(known, more) == Len(known) <= Len(more) /\ \A i \in 1..Len(known) : more[i] = known[i]

LEMMA Lists ==
  ASSUME NEW s, IsList(s)
  PROVE  Len(s) \in Nat /\ DOMAIN s = 1..Len(s) /\ s \in Seq(ToSet(s))
<1>1. PICK S : s \in Seq(S)
  BY DEF IsList
<1>2. Len(s) \in Nat /\ DOMAIN s = 1..Len(s) /\ s = [i \in 1..Len(s) |-> s[i]]
  BY <1>1
<1>3. \A i \in 1..Len(s) : s[i] \in ToSet(s)
  BY <1>2 DEF ToSet
<1>4. s \in Seq(ToSet(s))
  BY <1>2, <1>3
<1>5. QED
  BY <1>2, <1>4

LEMMA PageStep ==
  ASSUME NEW known, Pages(known), NEW x, NEW more, more = FindOrBuildPage(known, x)
  PROVE  Pages(more) /\ ToSet(more) = ToSet(known) \cup {x} /\ Longer(known, more)
<1>1. PICK S : known \in Seq(S)
  BY DEF Pages, IsList
<1>2. CASE x \in ToSet(known)
  <2>1. more = known
    BY <1>2 DEF FindOrBuildPage
  <2>2. Longer(known, known)
    BY <1>1 DEF Longer
  <2>3. QED
    BY <1>2, <2>1, <2>2
<1>3. CASE x \notin ToSet(known)
  <2>1. more = Append(known, x)
    BY <1>3 DEF FindOrBuildPage
  <2>2. PICK T : T = S \cup {x}
    OBVIOUS
  <2>3. known \in Seq(T) /\ x \in T
    BY <1>1, <2>2
  <2>4. /\ more \in Seq(T) /\ ToSet(more) = ToSet(known) \cup {x} /\ IsInjective(more)
    BY <1>3, <2>1, <2>3, AppendOnce DEF Pages
  <2>5. Longer(known, more)
    BY <2>1, <2>3 DEF Longer
  <2>6. QED
    BY <2>4, <2>5 DEF Pages, IsList
<1>4. QED
  BY <1>2, <1>3

LEMMA LongerStill ==
  ASSUME NEW a, NEW b, NEW c, IsList(a), IsList(b), IsList(c), Longer(a, b), Longer(b, c)
  PROVE  Longer(a, c)
<1>1. Len(a) \in Nat /\ Len(b) \in Nat /\ Len(c) \in Nat
  BY Lists
<1>2. PICK l, m, n : l = Len(a) /\ m = Len(b) /\ n = Len(c)
  OBVIOUS
<1>3. l <= m /\ m <= n /\ (\A i \in 1..l : b[i] = a[i]) /\ (\A i \in 1..m : c[i] = b[i])
  BY <1>2 DEF Longer
<1>4. l <= n /\ \A i \in 1..l : i \in 1..m
  BY <1>1, <1>2, <1>3
<1>5. QED
  BY <1>2, <1>3, <1>4 DEF Longer

(* What is known after the ends of a page's edges.                         *)
EndsOf(record) == [n \in DOMAIN record.edges |-> record.edges[n].end]
KnownAfter(known, title, record) == FoldLeft(FindOrBuildPage, FindOrBuildPage(known, title), EndsOf(record))

LEMMA PagesFound ==
  ASSUME NEW known, Pages(known), NEW title, NEW record, IsList(record.edges), NEW more,
         more = KnownAfter(known, title, record)
  PROVE  /\ Pages(more) /\ Longer(known, more)
         /\ ToSet(more) = ToSet(known) \cup {title} \cup {e.end : e \in ToSet(record.edges)}
<1>1. PICK own, s, N : own = FindOrBuildPage(known, title) /\ s = EndsOf(record) /\ N = Len(record.edges)
  OBVIOUS
<1>2. Pages(own) /\ ToSet(own) = ToSet(known) \cup {title} /\ Longer(known, own)
  BY <1>1, PageStep
<1>3. N \in Nat /\ DOMAIN s = 1..N /\ DOMAIN record.edges = 1..N
  BY <1>1, Lists DEF EndsOf
<1>4. PICK h : FoldsUpTo(h, "page", 0, own, s, N) /\ FoldLeft(FindOrBuildPage, own, s) = h[N]
  BY <1>3, PageFold
<1>5. more = h[N]
  BY <1>1, <1>4 DEF KnownAfter
<1> DEFINE Good(n) == Pages(h[n]) /\ Longer(known, h[n]) /\ ToSet(h[n]) = ToSet(own) \cup {s[i] : i \in 1..n}
<1> DEFINE T == {n \in Nat : n <= N => Good(n)}
<1>6. 0 \in T
  <2>1. h[0] = own
    BY <1>4 DEF FoldsUpTo
  <2>2. QED
    BY <1>2, <2>1
<1>7. ASSUME NEW n \in T PROVE n + 1 \in T
  <2>1. n \in Nat
    OBVIOUS
  <2>2. SUFFICES ASSUME n + 1 <= N PROVE Good(n + 1)
    BY <2>1
  <2>3. n \in 0..N - 1 /\ n <= N
    BY <1>3, <2>1, <2>2
  <2>4. PICK a, b, x : a = h[n] /\ b = h[n + 1] /\ x = s[n + 1]
    OBVIOUS
  <2>5. b = FindOrBuildPage(a, x)
    BY <1>4, <2>3, <2>4, StepIs DEF FoldsUpTo
  <2>6. Pages(a) /\ Longer(known, a) /\ ToSet(a) = ToSet(own) \cup {s[i] : i \in 1..n}
    BY <2>3, <2>4
  <2>7. Pages(b) /\ ToSet(b) = ToSet(a) \cup {x} /\ Longer(a, b)
    BY <2>5, <2>6, PageStep
  <2>8. Longer(known, b)
    BY <2>6, <2>7, LongerStill DEF Pages
  <2>9. {s[i] : i \in 1..n + 1} = {s[i] : i \in 1..n} \cup {x}
    BY <2>1, <2>4
  <2>10. ToSet(b) = ToSet(own) \cup {s[i] : i \in 1..n + 1}
    BY <2>6, <2>7, <2>9
  <2>11. QED
    BY <2>4, <2>7, <2>8, <2>10
<1>8. T \subseteq Nat
  OBVIOUS
<1>9. T = Nat
  <2> HIDE DEF T
  <2>1. QED
    BY <1>6, <1>7, <1>8, Induction
<1>10. Good(N)
  BY <1>3, <1>9
<1>11. {s[i] : i \in 1..N} = {e.end : e \in ToSet(record.edges)}
  BY <1>1, <1>3 DEF EndsOf, ToSet
<1>12. QED
  BY <1>2, <1>5, <1>10, <1>11

LEMMA IdIs ==
  ASSUME NEW known, Pages(known), NEW x, x \in ToSet(known)
  PROVE  IdOfPage(known, x) \in DOMAIN known /\ known[IdOfPage(known, x)] = x
<1>1. \E id \in DOMAIN known : known[id] = x
  BY DEF ToSet
<1>2. QED
  BY <1>1 DEF IdOfPage

LEMMA MinIs ==
  ASSUME NEW m \in Nat, NEW n \in Nat
  PROVE  Min({m, n}) = IF m <= n THEN m ELSE n
<1>1. Min({m, n}) \in {m, n} /\ \A y \in {m, n} : Min({m, n}) =< y
  <2>1. \E x \in {m, n} : \A y \in {m, n} : x =< y
    OBVIOUS
  <2>2. QED
    BY <2>1 DEF Min
<1>2. QED
  BY <1>1

UpToLimit(s, n) == SubSeq(s, 1, IF n <= MaxEdges THEN n ELSE MaxEdges)

LEMMA EdgesAdded ==
  ASSUME NEW s, IsList(s)
  PROVE  FoldLeft(AddToEdges, <<>>, s) = FirstOf(s)
<1>1. PICK N : N = Len(s)
  OBVIOUS
<1>2. PICK S : s \in Seq(S)
  BY DEF IsList
<1>3. N \in Nat /\ DOMAIN s = 1..N
  BY <1>1, <1>2
<1>4. PICK h : FoldsUpTo(h, "edge", 0, <<>>, s, N) /\ FoldLeft(AddToEdges, <<>>, s) = h[N]
  BY <1>3, EdgeFold
<1>5. MaxEdges \in Nat \ {0}
  BY LoadAssumption DEF LoadAssumption
<1> DEFINE T == {n \in Nat : n <= N => h[n] = UpToLimit(s, n)}
<1>6. 0 \in T
  <2>1. h[0] = <<>>
    BY <1>4 DEF FoldsUpTo
  <2>2. SubSeq(s, 1, 0) = <<>>
    BY <1>2
  <2>3. UpToLimit(s, 0) = SubSeq(s, 1, 0)
    BY <1>5 DEF UpToLimit
  <2>4. QED
    BY <2>1, <2>2, <2>3
<1>7. ASSUME NEW n \in T PROVE n + 1 \in T
  <2>1. n \in Nat
    OBVIOUS
  <2>2. SUFFICES ASSUME n + 1 <= N PROVE h[n + 1] = UpToLimit(s, n + 1)
    BY <2>1
  <2>3. n \in 0..N - 1 /\ n <= N
    BY <1>3, <2>1, <2>2
  <2>4. PICK a, b, x : a = h[n] /\ b = h[n + 1] /\ x = s[n + 1]
    OBVIOUS
  <2>5. b = AddToEdges(a, x)
    BY <1>4, <2>3, <2>4, StepIs DEF FoldsUpTo
  <2>6. a = UpToLimit(s, n)
    BY <2>3, <2>4
  <2>7. CASE n < MaxEdges
    <3>1. a = SubSeq(s, 1, n) /\ UpToLimit(s, n + 1) = SubSeq(s, 1, n + 1)
      BY <1>5, <2>1, <2>6, <2>7 DEF UpToLimit
    <3>2. Len(a) = n
      BY <1>1, <1>2, <2>1, <2>3, <3>1
    <3>3. b = Append(a, x)
      BY <2>5, <2>7, <3>2 DEF AddToEdges
    <3>4. Append(SubSeq(s, 1, n), s[n + 1]) = SubSeq(s, 1, n + 1)
      BY <1>1, <1>2, <2>1, <2>2
    <3>5. QED
      BY <2>4, <3>1, <3>3, <3>4
  <2>8. CASE ~(n < MaxEdges)
    <3>1. a = SubSeq(s, 1, MaxEdges) /\ UpToLimit(s, n + 1) = SubSeq(s, 1, MaxEdges)
      BY <1>5, <2>1, <2>6, <2>8 DEF UpToLimit
    <3>2. Len(a) = MaxEdges
      BY <1>1, <1>2, <1>5, <2>1, <2>3, <2>8, <3>1
    <3>3. b = a
      BY <1>5, <2>5, <3>2 DEF AddToEdges
    <3>4. QED
      BY <2>4, <3>1, <3>3
  <2>9. QED
    BY <2>7, <2>8
<1>8. T \subseteq Nat
  OBVIOUS
<1>9. T = Nat
  <2> HIDE DEF T
  <2>1. QED
    BY <1>6, <1>7, <1>8, Induction
<1>10. h[N] = UpToLimit(s, N)
  BY <1>3, <1>9
<1>11. Min({MaxEdges, N}) = IF N <= MaxEdges THEN N ELSE MaxEdges
  <2>1. Min({MaxEdges, N}) = IF MaxEdges <= N THEN MaxEdges ELSE N
    BY <1>3, <1>5, MinIs
  <2>2. QED
    BY <1>3, <1>5, <2>1
<1>12. QED
  BY <1>1, <1>4, <1>10, <1>11 DEF UpToLimit, FirstOf

LEMMA FirstPart ==
  ASSUME NEW s, IsList(s)
  PROVE  /\ IsList(FirstOf(s)) /\ Len(FirstOf(s)) = Min({MaxEdges, Len(s)}) /\ Len(FirstOf(s)) <= Len(s)
         /\ Len(FirstOf(s)) \in Nat /\ \A i \in 1..Len(FirstOf(s)) : i \in 1..Len(s) /\ FirstOf(s)[i] = s[i]
<1>1. PICK S : s \in Seq(S)
  BY DEF IsList
<1>2. MaxEdges \in Nat /\ Len(s) \in Nat
  BY <1>1, LoadAssumption DEF LoadAssumption
<1>3. PICK m : m = Min({MaxEdges, Len(s)})
  OBVIOUS
<1>4. m \in Nat /\ m <= Len(s)
  BY <1>2, <1>3, MinIs
<1>5. PICK t : t = SubSeq(s, 1, m)
  OBVIOUS
<1>6. t \in Seq(S) /\ Len(t) = m /\ \A i \in 1..m : t[i] = s[i]
  BY <1>1, <1>2, <1>4, <1>5
<1>7. t = FirstOf(s)
  BY <1>3, <1>5 DEF FirstOf
<1>8. IsList(t)
  BY <1>6 DEF IsList
<1>9. \A i \in 1..m : i \in 1..Len(s)
  BY <1>2, <1>4
<1>10. QED
  BY <1>3, <1>4, <1>6, <1>7, <1>8, <1>9

(* Edges lead to the pages that a record says.                             *)
LeadTo(known, out, said) ==
  /\ IsList(out) /\ Len(out) = Len(said)
  /\ \A n \in 1..Len(said) : /\ out[n].end \in DOMAIN known /\ known[out[n].end] = said[n].end
                             /\ out[n].min_weight = MinWeight(said[n].weights)
SaidOf(file, done, title) == IF title \in done THEN FirstOf(file[title].edges) ELSE <<>>
EdgesOK(known, edges, done, file) ==
  DOMAIN edges = DOMAIN known /\ \A id \in DOMAIN known : LeadTo(known, edges[id], SaidOf(file, done, known[id]))

OldEdges(edges, id) == IF id \in DOMAIN edges THEN edges[id] ELSE <<>>
NewEdges(known, record) ==
  [n \in DOMAIN record.edges |->
     [end |-> IdOfPage(known, record.edges[n].end), min_weight |-> MinWeight(record.edges[n].weights)]]
EdgesAfter(edges, known, title, record) ==
  [id \in DOMAIN known |->
     IF id = IdOfPage(known, title) THEN FoldLeft(AddToEdges, OldEdges(edges, id), NewEdges(known, record))
     ELSE OldEdges(edges, id)]

LEMMA NothingIsAList == IsList(<<>>) /\ Len(<<>>) = 0
<1>1. PICK e, S : e = <<>> /\ S = {}
  OBVIOUS
<1>2. e \in Seq(S) /\ Len(e) = 0
  BY <1>1
<1>3. IsList(e)
  BY <1>2 DEF IsList
<1>4. QED
  BY <1>1, <1>2, <1>3

LEMMA LeadsStill ==
  ASSUME NEW known, NEW more, IsList(known), IsList(more), Longer(known, more), NEW out, NEW said,
         LeadTo(known, out, said)
  PROVE  LeadTo(more, out, said)
<1>1. Len(known) \in Nat /\ DOMAIN known = 1..Len(known) /\ Len(more) \in Nat /\ DOMAIN more = 1..Len(more)
  BY Lists
<1>2. \A i \in DOMAIN known : i \in DOMAIN more /\ more[i] = known[i]
  BY <1>1 DEF Longer
<1>3. QED
  BY <1>2 DEF LeadTo

LEMMA NewEdgesLead ==
  ASSUME NEW known, Pages(known), NEW record, IsList(record.edges),
         \A e \in ToSet(record.edges) : e.end \in ToSet(known)
  PROVE  LeadTo(known, FoldLeft(AddToEdges, <<>>, NewEdges(known, record)), FirstOf(record.edges))
<1>1. PICK s, t : s = record.edges /\ t = NewEdges(known, record)
  OBVIOUS
<1>2. IsList(s) /\ Len(s) \in Nat /\ DOMAIN s = 1..Len(s)
  BY <1>1, Lists
<1>3. /\ DOMAIN t = 1..Len(s) /\ t = [n \in 1..Len(s) |-> t[n]]
      /\ \A n \in 1..Len(s) : /\ t[n].end = IdOfPage(known, s[n].end)
                              /\ t[n].min_weight = MinWeight(s[n].weights)
  BY <1>1, <1>2 DEF NewEdges
<1>4. IsList(t) /\ Len(t) = Len(s)
  <2>1. PICK S : S = {t[n] : n \in 1..Len(s)}
    OBVIOUS
  <2>2. t \in Seq(S) /\ Len(t) = Len(s)
    BY <1>2, <1>3, <2>1
  <2>3. QED
    BY <2>2 DEF IsList
<1>5. \A n \in 1..Len(s) : IdOfPage(known, s[n].end) \in DOMAIN known /\ known[IdOfPage(known, s[n].end)] = s[n].end
  <2>1. ASSUME NEW n \in 1..Len(s)
        PROVE  IdOfPage(known, s[n].end) \in DOMAIN known /\ known[IdOfPage(known, s[n].end)] = s[n].end
    <3>1. PICK x : x = s[n].end
      OBVIOUS
    <3>2. x \in ToSet(known)
      BY <1>1, <1>2, <3>1 DEF ToSet
    <3>3. QED
      BY <3>1, <3>2, IdIs
  <2>2. QED
    BY <2>1
<1>6. PICK p, q, m : p = FirstOf(t) /\ q = FirstOf(s) /\ m = Len(q)
  OBVIOUS
<1>7. /\ IsList(p) /\ IsList(q) /\ Len(p) = m /\ m \in Nat
      /\ \A i \in 1..m : i \in 1..Len(s) /\ p[i] = t[i] /\ q[i] = s[i]
  <2>1. /\ IsList(p) /\ Len(p) = Min({MaxEdges, Len(t)}) /\ \A i \in 1..Len(p) : p[i] = t[i]
    BY <1>4, <1>6, FirstPart
  <2>2. /\ IsList(q) /\ Len(q) = Min({MaxEdges, Len(s)}) /\ m \in Nat
        /\ \A i \in 1..Len(q) : i \in 1..Len(s) /\ q[i] = s[i]
    BY <1>2, <1>6, FirstPart
  <2>3. QED
    BY <1>4, <1>6, <2>1, <2>2
<1>8. LeadTo(known, p, q)
  BY <1>3, <1>5, <1>6, <1>7 DEF LeadTo
<1>9. FoldLeft(AddToEdges, <<>>, t) = p
  BY <1>4, <1>6, EdgesAdded
<1>10. QED
  BY <1>1, <1>6, <1>8, <1>9

LEMMA EdgesKept ==
  ASSUME NEW known, Pages(known), NEW more, Pages(more), Longer(known, more), NEW edges, NEW done, NEW file,
         EdgesOK(known, edges, done, file), NEW title, title \notin done, title \in ToSet(more),
         done \subseteq ToSet(known), IsList(file[title].edges),
         \A e \in ToSet(file[title].edges) : e.end \in ToSet(more)
  PROVE  EdgesOK(more, EdgesAfter(edges, more, title, file[title]), done \cup {title}, file)
<1>1. PICK page, after, record : /\ page = IdOfPage(more, title) /\ record = file[title]
                                 /\ after = EdgesAfter(edges, more, title, record)
  OBVIOUS
<1>2. page \in DOMAIN more /\ more[page] = title
  BY <1>1, IdIs
<1>3. IsList(known) /\ IsList(more) /\ IsInjective(more)
  BY DEF Pages
<1>4. Len(known) \in Nat /\ DOMAIN known = 1..Len(known) /\ Len(more) \in Nat /\ DOMAIN more = 1..Len(more)
  BY <1>3, Lists
<1>5. \A i \in DOMAIN known : i \in DOMAIN more /\ more[i] = known[i]
  BY <1>4 DEF Longer
<1>6. DOMAIN edges = DOMAIN known
  BY DEF EdgesOK
<1>7. DOMAIN after = DOMAIN more
  BY <1>1 DEF EdgesAfter
<1>8. ASSUME NEW id \in DOMAIN more PROVE LeadTo(more, after[id], SaidOf(file, done \cup {title}, more[id]))
  <2>1. CASE id = page
    <3>1. OldEdges(edges, id) = <<>>
      <4>1. CASE id \in DOMAIN known
        <5>1. known[id] = title /\ LeadTo(known, edges[id], SaidOf(file, done, title))
          BY <1>2, <1>5, <2>1, <4>1 DEF EdgesOK
        <5>2. SaidOf(file, done, title) = <<>>
          BY DEF SaidOf
        <5>3. IsList(edges[id]) /\ Len(edges[id]) = 0
          BY <5>1, <5>2, NothingIsAList DEF LeadTo
        <5>4. edges[id] = <<>>
          BY <5>3 DEF IsList
        <5>5. QED
          BY <1>6, <4>1, <5>4 DEF OldEdges
      <4>2. CASE id \notin DOMAIN known
        BY <1>6, <4>2 DEF OldEdges
      <4>3. QED
        BY <4>1, <4>2
    <3>2. after[id] = FoldLeft(AddToEdges, <<>>, NewEdges(more, record))
      <4>1. after[id] = FoldLeft(AddToEdges, OldEdges(edges, id), NewEdges(more, record))
        BY <1>1, <2>1 DEF EdgesAfter
      <4>2. QED
        BY <3>1, <4>1
    <3>3. LeadTo(more, FoldLeft(AddToEdges, <<>>, NewEdges(more, record)), FirstOf(record.edges))
      BY <1>1, NewEdgesLead
    <3>4. SaidOf(file, done \cup {title}, more[id]) = FirstOf(record.edges)
      BY <1>1, <1>2, <2>1 DEF SaidOf
    <3>5. QED
      BY <3>2, <3>3, <3>4
  <2>2. CASE id # page
    <3>1. after[id] = OldEdges(edges, id)
      BY <1>1, <2>2 DEF EdgesAfter
    <3>2. more[id] # title
      BY <1>2, <1>3, <2>2 DEF IsInjective
    <3>3. CASE id \in DOMAIN known
      <4>1. known[id] = more[id] /\ after[id] = edges[id]
        BY <1>5, <1>6, <3>1, <3>3 DEF OldEdges
      <4>2. SaidOf(file, done \cup {title}, more[id]) = SaidOf(file, done, known[id])
        BY <3>2, <4>1 DEF SaidOf
      <4>3. LeadTo(known, edges[id], SaidOf(file, done, known[id]))
        BY <3>3 DEF EdgesOK
      <4>4. LeadTo(more, edges[id], SaidOf(file, done, known[id]))
        BY <1>3, <4>3, LeadsStill
      <4>5. QED
        BY <4>1, <4>2, <4>4
    <3>4. CASE id \notin DOMAIN known
      <4>1. more[id] \notin done
        <5>1. SUFFICES ASSUME more[id] \in done PROVE FALSE
          OBVIOUS
        <5>2. PICK j \in DOMAIN known : known[j] = more[id]
          BY <5>1 DEF ToSet
        <5>3. j \in DOMAIN more /\ more[j] = more[id]
          BY <1>5, <5>2
        <5>4. QED
          BY <1>3, <3>4, <5>2, <5>3 DEF IsInjective
      <4>2. SaidOf(file, done \cup {title}, more[id]) = <<>> /\ after[id] = <<>>
        BY <1>6, <3>1, <3>2, <3>4, <4>1 DEF SaidOf, OldEdges
      <4>3. LeadTo(more, <<>>, <<>>)
        BY NothingIsAList DEF LeadTo
      <4>4. QED
        BY <4>2, <4>3
    <3>5. QED
      BY <3>3, <3>4
  <2>3. QED
    BY <2>1, <2>2
<1>9. EdgesOK(more, after, done \cup {title}, file)
  BY <1>7, <1>8 DEF EdgesOK
<1>10. QED
  BY <1>1, <1>9

-----------------------------------------------------------------------------
(* The alias lists.                                                        *)

(* A list with a page k times behind what it was.                          *)
Continues(new, old, k, page) ==
  /\ IsList(new) /\ IsList(old) /\ k \in Nat /\ Len(new) = Len(old) + k
  /\ \A i \in 1..Len(old) : new[i] = old[i]
  /\ \A i \in Len(old) + 1..Len(old) + k : new[i] = page

LEMMA ContinuesByNone ==
  ASSUME NEW old, IsList(old), NEW page
  PROVE  Continues(old, old, 0, page)
<1>1. Len(old) \in Nat
  BY Lists
<1>2. QED
  BY <1>1 DEF Continues

LEMMA ContinuesByOne ==
  ASSUME NEW new, NEW old, NEW k, NEW page, Continues(new, old, k, page)
  PROVE  Continues(new \o <<page>>, old, k + 1, page)
<1>1. PICK S : new \in Seq(S)
  BY DEF Continues, IsList
<1>2. PICK l, m, more : l = Len(old) /\ m = Len(new) /\ more = new \o <<page>>
  OBVIOUS
<1>3. l \in Nat /\ m = l + k /\ k \in Nat
  BY <1>2, Lists DEF Continues
<1>4. PICK T : T = S \cup {page}
  OBVIOUS
<1>5. new \in Seq(T) /\ <<page>> \in Seq(T)
  BY <1>1, <1>4
<1>6. more \in Seq(T) /\ Len(more) = m + 1 /\ more[m + 1] = page /\ \A i \in 1..m : more[i] = new[i]
  BY <1>2, <1>5
<1>7. (\A i \in 1..l : new[i] = old[i]) /\ (\A i \in l + 1..l + k : new[i] = page)
  BY <1>2 DEF Continues
<1>8. \A i \in 1..l : more[i] = old[i]
  BY <1>3, <1>6, <1>7
<1>9. \A i \in l + 1..l + (k + 1) : more[i] = page
  <2>1. ASSUME NEW i \in l + 1..l + (k + 1) PROVE more[i] = page
    <3>1. CASE i = m + 1
      BY <1>6, <3>1
    <3>2. CASE i # m + 1
      <4>1. i \in l + 1..l + k /\ i \in 1..m
        BY <1>3, <3>2
      <4>2. QED
        BY <1>6, <1>7, <4>1
    <3>3. QED
      BY <3>1, <3>2
  <2>2. QED
    BY <2>1
<1>10. IsList(more) /\ IsList(old) /\ k + 1 \in Nat /\ Len(more) = l + (k + 1)
  BY <1>3, <1>6 DEF IsList, Continues
<1>11. QED
  BY <1>2, <1>8, <1>9, <1>10 DEF Continues

LEMMA AliasTable ==
  ASSUME NEW page, NEW base, \A a : IsList(NamedIn(base, a)), NEW s, IsList(s)
  PROVE  /\ DOMAIN AliasesWith(base, s, page) = DOMAIN base \cup ToSet(s)
         /\ \A a : Continues(NamedIn(AliasesWith(base, s, page), a), NamedIn(base, a), Occurrences(s, a), page)
<1>1. PICK N : N = Len(s)
  OBVIOUS
<1>2. N \in Nat /\ DOMAIN s = 1..N
  BY <1>1, Lists
<1>3. PICK h : FoldsUpTo(h, "alias", page, base, s, N) /\ AliasesWith(base, s, page) = h[N]
  BY <1>2, AliasFold
<1> DEFINE Good(n) == /\ DOMAIN h[n] = DOMAIN base \cup {s[i] : i \in 1..n}
                      /\ \A a : Continues(NamedIn(h[n], a), NamedIn(base, a), Upto(s, a, n), page)
<1> DEFINE T == {n \in Nat : n <= N => Good(n)}
<1>4. 0 \in T
  <2>1. h[0] = base
    BY <1>3 DEF FoldsUpTo
  <2>2. \A a : Upto(s, a, 0) = 0
    BY UptoStep
  <2>3. \A a : Continues(NamedIn(base, a), NamedIn(base, a), 0, page)
    BY ContinuesByNone
  <2>4. QED
    BY <2>1, <2>2, <2>3
<1>5. ASSUME NEW n \in T PROVE n + 1 \in T
  <2>1. n \in Nat
    OBVIOUS
  <2>2. SUFFICES ASSUME n + 1 <= N PROVE Good(n + 1)
    BY <2>1
  <2>3. n \in 0..N - 1 /\ n <= N
    BY <1>2, <2>1, <2>2
  <2>4. PICK u, v, x : u = h[n] /\ v = h[n + 1] /\ x = s[n + 1]
    OBVIOUS
  <2>5. v = AppendOrBuild(u, x, page)
    BY <1>3, <2>3, <2>4, StepIs DEF FoldsUpTo
  <2>6. /\ DOMAIN u = DOMAIN base \cup {s[i] : i \in 1..n}
        /\ \A a : Continues(NamedIn(u, a), NamedIn(base, a), Upto(s, a, n), page)
    BY <2>3, <2>4
  <2>7. DOMAIN v = DOMAIN u \cup {x} /\ \A a : NamedIn(v, a) = IF a = x THEN NamedIn(u, a) \o <<page>> ELSE NamedIn(u, a)
    BY <2>5 DEF AppendOrBuild, NamedIn
  <2>8. DOMAIN v = DOMAIN base \cup {s[i] : i \in 1..n + 1}
    <3>1. {s[i] : i \in 1..n + 1} = {s[i] : i \in 1..n} \cup {x}
      BY <2>1, <2>4
    <3>2. QED
      BY <2>6, <2>7, <3>1
  <2>9. ASSUME NEW a PROVE Continues(NamedIn(v, a), NamedIn(base, a), Upto(s, a, n + 1), page)
    <3>1. PICK k : k = Upto(s, a, n)
      OBVIOUS
    <3>2. k \in Nat /\ Upto(s, a, n + 1) = k + (IF x = a THEN 1 ELSE 0)
      BY <2>1, <2>4, <3>1, UptoStep
    <3>3. Continues(NamedIn(u, a), NamedIn(base, a), k, page)
      BY <2>6, <3>1
    <3>4. CASE a = x
      <4>1. Continues(NamedIn(u, a) \o <<page>>, NamedIn(base, a), k + 1, page)
        BY <3>3, ContinuesByOne
      <4>2. QED
        BY <2>7, <3>2, <3>4, <4>1
    <3>5. CASE a # x
      BY <2>7, <3>2, <3>3, <3>5
    <3>6. QED
      BY <3>4, <3>5
  <2>10. QED
    BY <2>4, <2>8, <2>9
<1>6. T \subseteq Nat
  OBVIOUS
<1>7. T = Nat
  <2> HIDE DEF T
  <2>1. QED
    BY <1>4, <1>5, <1>6, Induction
<1>8. Good(N)
  BY <1>2, <1>7
<1>9. {s[i] : i \in 1..N} = ToSet(s)
  BY <1>2 DEF ToSet
<1>10. \A a : Upto(s, a, N) = Occurrences(s, a)
  BY <1>1, OccurrencesUpto DEF IsList
<1>11. QED
  BY <1>3, <1>8, <1>9, <1>10

(* Every name lists the pages whose records mention it.                    *)
NamesOf(record) == record.common_name \o record.aliases
PlacesIn(known, out, title) == {n \in DOMAIN out : known[out[n]] = title}
ListsPages(known, out, done) ==
  IsList(out) /\ \A i \in 1..Len(out) : out[i] \in DOMAIN known /\ known[out[i]] \in done
AliasesOK(known, table, done, file) ==
  /\ DOMAIN table = UNION {ToSet(NamesOf(file[t])) : t \in done}
  /\ \A a : ListsPages(known, NamedIn(table, a), done)
  /\ \A a, t : t \in done => Cardinality(PlacesIn(known, NamedIn(table, a), t)) = Occurrences(NamesOf(file[t]), a)

LEMMA PlacesMove ==
  ASSUME NEW known, NEW more, IsList(known), IsList(more), Longer(known, more), NEW done,
         NEW new, NEW old, NEW k, NEW page, Continues(new, old, k, page), ListsPages(known, old, done),
         page \in DOMAIN more, more[page] \notin done
  PROVE  /\ ListsPages(more, new, done \cup {more[page]})
         /\ \A t \in done : PlacesIn(more, new, t) = PlacesIn(known, old, t)
         /\ Cardinality(PlacesIn(more, new, more[page])) = k
<1>1. PICK l : l = Len(old)
  OBVIOUS
<1>2. /\ IsList(new) /\ k \in Nat /\ l \in Nat /\ Len(new) = l + k /\ DOMAIN new = 1..l + k /\ DOMAIN old = 1..l
      /\ \A i \in 1..l : new[i] = old[i]
      /\ \A i \in l + 1..l + k : new[i] = page
  BY <1>1, Lists DEF Continues
<1>3. \A i \in 1..l : old[i] \in DOMAIN known /\ known[old[i]] \in done
  BY <1>1 DEF ListsPages
<1>4. \A i \in DOMAIN known : i \in DOMAIN more /\ more[i] = known[i]
  <2>1. Len(known) \in Nat /\ DOMAIN known = 1..Len(known) /\ Len(more) \in Nat /\ DOMAIN more = 1..Len(more)
    BY Lists
  <2>2. QED
    BY <2>1 DEF Longer
<1>5. \A i \in 1..l : new[i] \in DOMAIN more /\ more[new[i]] = known[old[i]] /\ more[new[i]] \in done
  BY <1>2, <1>3, <1>4
<1>6. \A i \in 1..l + k : i \in 1..l \/ i \in l + 1..l + k
  BY <1>2
<1>7. ListsPages(more, new, done \cup {more[page]})
  BY <1>2, <1>5, <1>6 DEF ListsPages
<1>8. \A t \in done : PlacesIn(more, new, t) = PlacesIn(known, old, t)
  <2>1. ASSUME NEW t \in done PROVE PlacesIn(more, new, t) = PlacesIn(known, old, t)
    <3>1. \A i \in l + 1..l + k : more[new[i]] # t
      BY <1>2
    <3>2. \A i \in 1..l : i \in 1..l + k
      BY <1>2
    <3>3. QED
      BY <1>2, <1>5, <1>6, <3>1, <3>2 DEF PlacesIn
  <2>2. QED
    BY <2>1
<1>9. PlacesIn(more, new, more[page]) = l + 1..l + k
  <2>1. \A i \in 1..l : more[new[i]] # more[page]
    BY <1>5
  <2>2. \A i \in l + 1..l + k : more[new[i]] = more[page] /\ i \in 1..l + k
    BY <1>2
  <2>3. QED
    BY <1>2, <1>6, <2>1, <2>2 DEF PlacesIn
<1>10. Cardinality(l + 1..l + k) = k
  <2>1. l + 1 \in Int /\ l + k \in Int
    BY <1>2
  <2>2. Cardinality(l + 1..l + k) = IF l + 1 > l + k THEN 0 ELSE (l + k) - (l + 1) + 1
    BY <2>1, FS_Interval
  <2>3. QED
    BY <1>2, <2>2
<1>11. QED
  BY <1>7, <1>8, <1>9, <1>10

LEMMA AliasesKept ==
  ASSUME NEW known, NEW more, IsList(known), IsList(more), Longer(known, more), NEW done, NEW file, NEW table,
         AliasesOK(known, table, done, file), NEW page, page \in DOMAIN more, more[page] \notin done,
         IsList(NamesOf(file[more[page]]))
  PROVE  AliasesOK(more, AliasesWith(table, NamesOf(file[more[page]]), page), done \cup {more[page]}, file)
<1>1. PICK title, s, after : /\ title = more[page] /\ s = NamesOf(file[title])
                             /\ after = AliasesWith(table, s, page)
  OBVIOUS
<1>2. \A a : IsList(NamedIn(table, a))
  BY DEF AliasesOK, ListsPages
<1>3. /\ DOMAIN after = DOMAIN table \cup ToSet(s)
      /\ \A a : Continues(NamedIn(after, a), NamedIn(table, a), Occurrences(s, a), page)
  BY <1>1, <1>2, AliasTable
<1>4. ASSUME NEW a
      PROVE  /\ ListsPages(more, NamedIn(after, a), done \cup {title})
             /\ \A t \in done : PlacesIn(more, NamedIn(after, a), t) = PlacesIn(known, NamedIn(table, a), t)
             /\ Cardinality(PlacesIn(more, NamedIn(after, a), title)) = Occurrences(s, a)
  <2>1. PICK new, old, k : new = NamedIn(after, a) /\ old = NamedIn(table, a) /\ k = Occurrences(s, a)
    OBVIOUS
  <2>2. Continues(new, old, k, page) /\ ListsPages(known, old, done)
    BY <1>3, <2>1 DEF AliasesOK
  <2>3. /\ ListsPages(more, new, done \cup {more[page]})
        /\ \A t \in done : PlacesIn(more, new, t) = PlacesIn(known, old, t)
        /\ Cardinality(PlacesIn(more, new, more[page])) = k
    BY <2>2, PlacesMove
  <2>4. QED
    BY <1>1, <2>1, <2>3
<1>5. DOMAIN after = UNION {ToSet(NamesOf(file[t])) : t \in done \cup {title}}
  <2>1. DOMAIN table = UNION {ToSet(NamesOf(file[t])) : t \in done}
    BY DEF AliasesOK
  <2>2. QED
    BY <1>1, <1>3, <2>1
<1>6. ASSUME NEW a, NEW t \in done \cup {title}
      PROVE  Cardinality(PlacesIn(more, NamedIn(after, a), t)) = Occurrences(NamesOf(file[t]), a)
  <2>1. CASE t = title
    BY <1>1, <1>4, <2>1
  <2>2. CASE t \in done
    <3>1. Cardinality(PlacesIn(known, NamedIn(table, a), t)) = Occurrences(NamesOf(file[t]), a)
      BY <2>2 DEF AliasesOK
    <3>2. PlacesIn(more, NamedIn(after, a), t) = PlacesIn(known, NamedIn(table, a), t)
      BY <1>4, <2>2
    <3>3. QED
      BY <3>1, <3>2
  <2>3. QED
    BY <2>1, <2>2
<1>7. AliasesOK(more, after, done \cup {title}, file)
  BY <1>4, <1>5, <1>6 DEF AliasesOK
<1>8. QED
  BY <1>1, <1>7
-----------------------------------------------------------------------------
(* The shadow page.                                                        *)

LEMMA InCommon ==
  ASSUME NEW s, NEW t, IsList(s), IsList(t)
  PROVE  \E S : s \in Seq(S) /\ t \in Seq(S)
<1>1. PICK A, B : s \in Seq(A) /\ t \in Seq(B)
  BY DEF IsList
<1>2. PICK S : S = A \cup B
  OBVIOUS
<1>3. s \in Seq(S) /\ t \in Seq(S)
  BY <1>1, <1>2
<1>4. QED
  BY <1>3

LEMMA Joined ==
  ASSUME NEW s, NEW t, IsList(s), IsList(t)
  PROVE  IsList(s \o t) /\ Len(s \o t) = Len(s) + Len(t) /\ ToSet(s \o t) = ToSet(s) \cup ToSet(t)
<1>1. PICK S : s \in Seq(S) /\ t \in Seq(S)
  BY InCommon
<1>2. PICK st, a, b : st = s \o t /\ a = Len(s) /\ b = Len(t)
  OBVIOUS
<1>3. /\ st \in Seq(S) /\ Len(st) = a + b /\ a \in Nat /\ b \in Nat
      /\ \A i \in 1..a : st[i] = s[i]
      /\ \A i \in 1..b : st[a + i] = t[i]
  BY <1>1, <1>2, Concatenation
<1>4. DOMAIN st = 1..a + b /\ DOMAIN s = 1..a /\ DOMAIN t = 1..b
  BY <1>1, <1>2, <1>3
<1>5. \A i \in 1..a + b : i \in 1..a \/ (i - a \in 1..b /\ i = a + (i - a))
  BY <1>3
<1>6. \A i \in 1..a : i \in 1..a + b
  BY <1>3
<1>7. \A i \in 1..b : a + i \in 1..a + b
  BY <1>3
<1>8. ToSet(st) = ToSet(s) \cup ToSet(t)
  <2>1. ASSUME NEW x \in ToSet(st) PROVE x \in ToSet(s) \cup ToSet(t)
    <3>1. PICK i \in 1..a + b : x = st[i]
      BY <1>4 DEF ToSet
    <3>2. CASE i \in 1..a
      BY <1>3, <1>4, <3>1, <3>2 DEF ToSet
    <3>3. CASE i - a \in 1..b /\ i = a + (i - a)
      <4>1. PICK j \in 1..b : i = a + j
        BY <3>3
      <4>2. QED
        BY <1>3, <1>4, <3>1, <4>1 DEF ToSet
    <3>4. QED
      BY <1>5, <3>2, <3>3
  <2>2. ASSUME NEW x \in ToSet(s) PROVE x \in ToSet(st)
    BY <1>3, <1>4, <1>6 DEF ToSet
  <2>3. ASSUME NEW x \in ToSet(t) PROVE x \in ToSet(st)
    BY <1>3, <1>4, <1>7 DEF ToSet
  <2>4. QED
    BY <2>1, <2>2, <2>3
<1>9. IsList(st)
  BY <1>3 DEF IsList
<1>10. QED
  BY <1>2, <1>3, <1>8, <1>9

Flattens(f, seqs, N) == f = [i \in 1..N |-> IF i = 1 THEN seqs[i] ELSE f[i - 1] \o seqs[i]]

LEMMA FlattenExists ==
  ASSUME NEW seqs, NEW N \in Nat
  PROVE  \E f : Flattens(f, seqs, N)
<1> DEFINE T == {n \in Nat : \E f : Flattens(f, seqs, n)}
<1>1. 0 \in T
  <2>1. PICK f : f = [i \in 1..0 |-> 0]
    OBVIOUS
  <2>2. Flattens(f, seqs, 0)
    BY <2>1 DEF Flattens
  <2>3. QED
    BY <2>2
<1>2. ASSUME NEW n \in T PROVE n + 1 \in T
  <2>1. n \in Nat
    OBVIOUS
  <2>2. PICK f : Flattens(f, seqs, n)
    BY <1>2
  <2>3. PICK g : g = [i \in 1..n + 1 |-> IF i = n + 1 THEN (IF i = 1 THEN seqs[i] ELSE f[i - 1] \o seqs[i]) ELSE f[i]]
    OBVIOUS
  <2>4. ASSUME NEW i \in 1..n + 1
        PROVE  g[i] = IF i = 1 THEN seqs[i] ELSE g[i - 1] \o seqs[i]
    <3>1. i # 1 => i - 1 \in 1..n + 1 /\ i - 1 # n + 1
      BY <2>1
    <3>2. i # 1 => g[i - 1] = f[i - 1]
      BY <2>3, <3>1
    <3>3. CASE i = n + 1
      BY <2>3, <3>2, <3>3
    <3>4. CASE i # n + 1
      <4>1. i \in 1..n /\ g[i] = f[i]
        BY <2>1, <2>3, <3>4
      <4>2. f[i] = IF i = 1 THEN seqs[i] ELSE f[i - 1] \o seqs[i]
        BY <2>2, <4>1 DEF Flattens
      <4>3. QED
        BY <3>2, <4>1, <4>2
    <3>5. QED
      BY <3>3, <3>4
  <2>5. g = [i \in 1..n + 1 |-> g[i]]
    BY <2>3
  <2>6. Flattens(g, seqs, n + 1)
    BY <2>4, <2>5 DEF Flattens
  <2>7. QED
    BY <2>1, <2>6
<1>3. T \subseteq Nat
  OBVIOUS
<1>4. T = Nat
  <2> HIDE DEF T
  <2>1. QED
    BY <1>1, <1>2, <1>3, Induction
<1>5. QED
  BY <1>4

LEMMA Flattening ==
  ASSUME NEW seqs, Len(seqs) \in Nat, Len(seqs) # 0
  PROVE  \E f : FlattenSeq(seqs) = f[Len(seqs)] /\ Flattens(f, seqs, Len(seqs))
<1>1. PICK f : f = CHOOSE g : Flattens(g, seqs, Len(seqs))
  OBVIOUS
<1>2. FlattenSeq(seqs) = f[Len(seqs)]
  BY <1>1 DEF FlattenSeq, Flattens
<1>3. Flattens(f, seqs, Len(seqs))
  BY <1>1, FlattenExists
<1>4. QED
  BY <1>2, <1>3
(* All pages that names stand for, name by name.                           *)
ListsOf(table, request) == [n \in DOMAIN request |-> NamedIn(table, request[n])]
StandFor(table, request) == UNION {ToSet(NamedIn(table, name)) : name \in ToSet(request)}
FromFirst(q, n) == UNION {ToSet(q[i]) : i \in 1..n}

LEMMA NamedPages ==
  ASSUME NEW table, \A a : IsList(NamedIn(table, a)), NEW request, IsList(request), NEW pages,
         pages = FlattenSeq(ListsOf(table, request))
  PROVE  IsList(pages) /\ Len(pages) = NamedBy(table, request) /\ ToSet(pages) = StandFor(table, request)
<1>1. PICK N, q : N = Len(request) /\ q = ListsOf(table, request)
  OBVIOUS
<1>2. N \in Nat /\ DOMAIN request = 1..N
  BY <1>1, Lists
<1>3. q = [n \in 1..N |-> NamedIn(table, request[n])]
  BY <1>1, <1>2 DEF ListsOf
<1>4. Len(q) = N /\ \A n \in 1..N : q[n] = NamedIn(table, request[n]) /\ IsList(q[n])
  BY <1>2, <1>3
<1>5. PICK h : FoldsUpTo(h, "sum", table, 0, request, N) /\ NamedBy(table, request) = h[N]
  BY <1>2, SumFold
<1>6. h[0] = 0 /\ \A n \in 0..N - 1 : h[n + 1] = h[n] + Len(NamedIn(table, request[n + 1]))
  BY <1>5, StepIs DEF FoldsUpTo
<1>7. StandFor(table, request) = FromFirst(q, N)
  BY <1>2, <1>4 DEF StandFor, ToSet, FromFirst
<1>8. CASE N = 0
  <2>1. q = <<>>
    BY <1>3, <1>8
  <2>2. Len(<<>>) = 0 /\ FlattenSeq(<<>>) = <<>>
    BY NothingIsAList DEF FlattenSeq
  <2>3. pages = <<>>
    BY <1>1, <2>1, <2>2
  <2>4. IsList(pages) /\ Len(pages) = 0
    BY <2>3, NothingIsAList
  <2>5. ToSet(pages) = {}
    BY <2>4, Lists DEF ToSet
  <2>6. StandFor(table, request) = {}
    BY <1>7, <1>8 DEF FromFirst
  <2>7. QED
    BY <1>5, <1>6, <1>8, <2>4, <2>5, <2>6
<1>9. CASE N # 0
  <2>1. PICK f : FlattenSeq(q) = f[N] /\ Flattens(f, q, N)
    BY <1>2, <1>4, <1>9, Flattening
  <2>2. f[1] = q[1] /\ \A n \in 1..N - 1 : f[n + 1] = f[n] \o q[n + 1]
    <3>1. \A i \in 1..N : f[i] = IF i = 1 THEN q[i] ELSE f[i - 1] \o q[i]
      BY <2>1 DEF Flattens
    <3>2. 1 \in 1..N
      BY <1>2, <1>9
    <3>3. \A n \in 1..N - 1 : n + 1 \in 1..N /\ n + 1 # 1 /\ (n + 1) - 1 = n
      BY <1>2
    <3>4. QED
      BY <3>1, <3>2, <3>3
  <2> DEFINE Good(n) == IsList(f[n]) /\ Len(f[n]) = h[n] /\ ToSet(f[n]) = FromFirst(q, n)
  <2> DEFINE T == {n \in Nat : n + 1 <= N => Good(n + 1)}
  <2>3. 0 \in T
    <3>1. f[1] = q[1] /\ IsList(q[1]) /\ q[1] = NamedIn(table, request[1]) /\ h[0 + 1] = h[0] + Len(NamedIn(table, request[0 + 1]))
      BY <1>2, <1>4, <1>6, <1>9, <2>2
    <3>2. Len(q[1]) \in Nat
      BY <3>1, Lists
    <3>3. Len(f[1]) = h[1]
      BY <1>6, <3>1, <3>2
    <3>4. FromFirst(q, 1) = ToSet(q[1])
      <4>1. 1..1 = {1}
        OBVIOUS
      <4>2. QED
        BY <4>1 DEF FromFirst
    <3>5. Good(1)
      BY <3>1, <3>3, <3>4
    <3>6. QED
      BY <3>5
  <2>4. ASSUME NEW n \in T PROVE n + 1 \in T
    <3>1. n \in Nat
      OBVIOUS
    <3>2. PICK m : m = n + 1
      OBVIOUS
    <3>3. SUFFICES ASSUME m + 1 <= N PROVE Good(m + 1)
      BY <3>1, <3>2
    <3>4. m \in 1..N - 1 /\ m \in 0..N - 1 /\ m + 1 \in 1..N /\ m <= N
      BY <1>2, <3>1, <3>2, <3>3
    <3>5. PICK u, v, x : u = f[m] /\ v = f[m + 1] /\ x = q[m + 1]
      OBVIOUS
    <3>6. v = u \o x /\ IsList(x) /\ h[m + 1] = h[m] + Len(x)
      BY <1>4, <1>6, <2>2, <3>4, <3>5
    <3>7. IsList(u) /\ Len(u) = h[m] /\ ToSet(u) = FromFirst(q, m)
      BY <3>1, <3>2, <3>4, <3>5
    <3>8. IsList(v) /\ Len(v) = Len(u) + Len(x) /\ ToSet(v) = ToSet(u) \cup ToSet(x)
      BY <3>6, <3>7, Joined
    <3>9. FromFirst(q, m + 1) = FromFirst(q, m) \cup ToSet(x)
      <4>1. 1..m + 1 = 1..m \cup {m + 1}
        BY <3>4
      <4>2. \A S : S \in {ToSet(q[i]) : i \in 1..m + 1} <=> S \in {ToSet(q[i]) : i \in 1..m} \/ S = ToSet(x)
        BY <3>5, <4>1
      <4>3. QED
        BY <4>2 DEF FromFirst
    <3>10. ToSet(v) = FromFirst(q, m + 1)
      BY <3>7, <3>8, <3>9
    <3>11. QED
      BY <3>5, <3>6, <3>7, <3>8, <3>10
  <2>5. T \subseteq Nat
    OBVIOUS
  <2>6. T = Nat
    <3> HIDE DEF T
    <3>1. QED
      BY <2>3, <2>4, <2>5, Induction
  <2>7. Good(N)
    <3>1. PICK n : n = N - 1
      OBVIOUS
    <3>2. n \in Nat /\ n + 1 = N /\ n + 1 <= N
      BY <1>2, <1>9, <3>1
    <3>3. Good(n + 1)
      BY <2>6, <3>2
    <3>4. QED
      BY <3>2, <3>3
  <2>8. QED
    BY <1>1, <1>5, <1>7, <2>1, <2>7
<1>10. QED
  BY <1>8, <1>9
LEMMA Remainder ==
  ASSUME NEW b \in Nat, NEW x \in 0..b - 1
  PROVE  x % b = x
<1>1. b > 0 /\ x \in Nat /\ x < b
  OBVIOUS
<1>2. QED
  BY <1>1

(* What a shadow page promises of the names it was built for.              *)
ShadowOK(table, out, request) ==
  /\ Len(out) = Min({NamedBy(table, request), MaxEdges})
  /\ NamedBy(table, request) <= MaxEdges => {e.end : e \in ToSet(out)} = StandFor(table, request)
  /\ \A m, n \in DOMAIN out : m < n /\ 10 * Len(out) <= ByteRange => out[m].min_weight <= out[n].min_weight
ShadowOf(pages, increasing) ==
  [n \in DOMAIN pages |-> [end |-> pages[n], min_weight |-> IF increasing THEN (10 * (n - 1)) % ByteRange ELSE 0]]

LEMMA ShadowBuilt ==
  ASSUME NEW table, \A a : IsList(NamedIn(table, a)), NEW request, IsList(request), NEW increasing \in BOOLEAN,
         NEW out, out = FoldLeft(AddToEdges, <<>>, ShadowOf(FlattenSeq(ListsOf(table, request)), increasing))
  PROVE  ShadowOK(table, out, request)
<1>1. PICK pages, all, N : /\ pages = FlattenSeq(ListsOf(table, request)) /\ all = ShadowOf(pages, increasing)
                           /\ N = Len(pages)
  OBVIOUS
<1>2. IsList(pages) /\ N = NamedBy(table, request) /\ ToSet(pages) = StandFor(table, request)
  BY <1>1, NamedPages
<1>3. N \in Nat /\ DOMAIN pages = 1..N
  BY <1>1, <1>2, Lists
<1>4. /\ DOMAIN all = 1..N /\ all = [n \in 1..N |-> all[n]]
      /\ \A n \in 1..N : /\ all[n].end = pages[n]
                         /\ all[n].min_weight = IF increasing THEN (10 * (n - 1)) % ByteRange ELSE 0
  BY <1>1, <1>3 DEF ShadowOf
<1>5. IsList(all) /\ Len(all) = N
  <2>1. PICK S : S = {all[n] : n \in 1..N}
    OBVIOUS
  <2>2. all \in Seq(S) /\ Len(all) = N
    BY <1>3, <1>4, <2>1
  <2>3. QED
    BY <2>2 DEF IsList
<1>6. out = FirstOf(all)
  BY <1>1, <1>5, EdgesAdded
<1>7. PICK m : m = Len(out)
  OBVIOUS
<1>8. /\ IsList(out) /\ m = Min({MaxEdges, N}) /\ m <= N /\ m \in Nat /\ DOMAIN out = 1..m
      /\ \A i \in 1..m : i \in 1..N /\ out[i] = all[i]
  <2>1. /\ IsList(out) /\ m = Min({MaxEdges, N}) /\ m <= N /\ m \in Nat
        /\ \A i \in 1..m : i \in 1..N /\ out[i] = all[i]
    BY <1>5, <1>6, <1>7, FirstPart
  <2>2. QED
    BY <1>7, <2>1, Lists
<1>9. Len(out) = Min({N, MaxEdges})
  <2>1. {MaxEdges, N} = {N, MaxEdges}
    OBVIOUS
  <2>2. QED
    BY <1>7, <1>8, <2>1
<1>10. MaxEdges \in Nat /\ ByteRange \in Nat
  BY LoadAssumption DEF LoadAssumption
<1>11. ASSUME N <= MaxEdges PROVE {e.end : e \in ToSet(out)} = StandFor(table, request)
  <2>1. m = N
    <3>1. Min({MaxEdges, N}) = IF MaxEdges <= N THEN MaxEdges ELSE N
      BY <1>3, <1>10, MinIs
    <3>2. QED
      BY <1>3, <1>8, <1>10, <1>11, <3>1
  <2>2. \A i \in 1..N : out[i].end = pages[i]
    BY <1>4, <1>8, <2>1
  <2>3. {e.end : e \in ToSet(out)} = {out[i].end : i \in 1..N}
    BY <1>8, <2>1 DEF ToSet
  <2>4. ToSet(pages) = {pages[i] : i \in 1..N}
    BY <1>3 DEF ToSet
  <2>5. {out[i].end : i \in 1..N} = {pages[i] : i \in 1..N}
    BY <2>2
  <2>6. QED
    BY <1>2, <2>3, <2>4, <2>5
<1>12. ASSUME NEW i \in DOMAIN out, NEW j \in DOMAIN out, i < j, 10 * Len(out) <= ByteRange
       PROVE  out[i].min_weight <= out[j].min_weight
  <2>1. i \in 1..m /\ j \in 1..m /\ 10 * m <= ByteRange
    BY <1>7, <1>8, <1>12
  <2>2. /\ out[i].min_weight = IF increasing THEN (10 * (i - 1)) % ByteRange ELSE 0
        /\ out[j].min_weight = IF increasing THEN (10 * (j - 1)) % ByteRange ELSE 0
    BY <1>4, <1>8, <2>1
  <2>3. PICK a, b : a = 10 * (i - 1) /\ b = 10 * (j - 1)
    OBVIOUS
  <2>4. a \in 0..ByteRange - 1 /\ b \in 0..ByteRange - 1 /\ a <= b
    <3>1. i \in Nat /\ j \in Nat /\ 1 <= i /\ 1 <= j /\ i <= m /\ j <= m /\ i < j
      BY <1>8, <1>12, <2>1
    <3>2. PICK w : w = ByteRange
      OBVIOUS
    <3>3. w \in Nat /\ 10 * m <= w /\ m \in Nat
      BY <1>8, <1>10, <2>1, <3>2
    <3>4. a \in 0..w - 1 /\ b \in 0..w - 1 /\ a <= b
      BY <2>3, <3>1, <3>3
    <3>5. QED
      BY <3>2, <3>4
  <2>5. a % ByteRange = a /\ b % ByteRange = b
    BY <1>10, <2>4, Remainder
  <2>6. QED
    BY <2>2, <2>3, <2>4, <2>5
<1>13. QED
  BY <1>2, <1>9, <1>11, <1>12 DEF ShadowOK

LEMMA ShadowOfNobody ==
  ASSUME NEW table
  PROVE  ShadowOK(table, <<>>, <<>>)
<1>1. PICK e : e = <<>>
  OBVIOUS
<1>2. Len(e) = 0 /\ DOMAIN e = {} /\ DOMAIN e = 1..0 /\ ToSet(e) = {}
  BY <1>1 DEF ToSet
<1>3. PICK h : FoldsUpTo(h, "sum", table, 0, e, 0) /\ NamedBy(table, e) = h[0]
  BY <1>2, SumFold
<1>4. NamedBy(table, e) = 0
  BY <1>3 DEF FoldsUpTo
<1>5. MaxEdges \in Nat
  BY LoadAssumption DEF LoadAssumption
<1>6. Min({0, MaxEdges}) = 0
  BY <1>5, MinIs
<1>7. {x.end : x \in ToSet(e)} = StandFor(table, e)
  BY <1>2 DEF StandFor
<1>8. ShadowOK(table, e, e)
  BY <1>2, <1>4, <1>6, <1>7 DEF ShadowOK
<1>9. QED
  BY <1>1, <1>8
-----------------------------------------------------------------------------
(* The graph is the one the records read so far describe, and the last     *)
(* shadow page the one that was request for.                                 *)

EndNames(record) == {e.end : e \in ToSet(record.edges)}
NamedPagesOf(file, done) == done \cup UNION {EndNames(file[t]) : t \in done}
TablesOK(file, done, known, edges, table) ==
  /\ Pages(known) /\ ToSet(known) = NamedPagesOf(file, done)
  /\ EdgesOK(known, edges, done, file) /\ AliasesOK(known, table, done, file)
LoadInv ==
  /\ cabinet \in Cabinets /\ unread \subseteq DOMAIN cabinet
  /\ loading = "loaded" => unread = {}
  /\ loading \in {"load", "loaded"} => TablesOK(cabinet, DOMAIN cabinet \ unread, titles, edgesOf, aliases_)
  /\ loading = "load" => shadow = <<>> /\ askedFor.names = <<>>
  /\ loading = "loaded" => ShadowOK(aliases_, shadow, askedFor.names)

LEMMA RecordLists ==
  ASSUME NEW file \in Cabinets, NEW title \in DOMAIN file
  PROVE  /\ IsList(file[title].edges) /\ IsList(file[title].common_name) /\ IsList(file[title].aliases)
         /\ IsList(NamesOf(file[title]))
<1>1. PICK record : record = file[title]
  OBVIOUS
<1>2. IsRecord(record)
  BY <1>1, LoadAssumption DEF LoadAssumption
<1>3. IsList(record.edges) /\ IsList(record.common_name) /\ IsList(record.aliases)
  BY <1>2 DEF IsRecord, IsList
<1>4. IsList(NamesOf(record))
  BY <1>3, Joined DEF NamesOf
<1>5. QED
  BY <1>1, <1>3, <1>4

LEMMA RecordLoaded ==
  ASSUME NEW file \in Cabinets, NEW done, NEW title \in DOMAIN file, title \notin done,
         NEW known, NEW edges, NEW table, TablesOK(file, done, known, edges, table),
         NEW more, more = KnownAfter(known, title, file[title])
  PROVE  TablesOK(file, done \cup {title}, more, EdgesAfter(edges, more, title, file[title]),
                  AliasesWith(table, NamesOf(file[title]), IdOfPage(more, title)))
<1>1. PICK record, page : record = file[title] /\ page = IdOfPage(more, title)
  OBVIOUS
<1>2. IsList(record.edges) /\ IsList(NamesOf(record))
  BY <1>1, RecordLists
<1>3. /\ Pages(known) /\ ToSet(known) = NamedPagesOf(file, done)
      /\ EdgesOK(known, edges, done, file) /\ AliasesOK(known, table, done, file)
  BY DEF TablesOK
<1>4. /\ Pages(more) /\ Longer(known, more)
      /\ ToSet(more) = ToSet(known) \cup {title} \cup EndNames(record)
  <2>1. /\ Pages(more) /\ Longer(known, more)
        /\ ToSet(more) = ToSet(known) \cup {title} \cup {e.end : e \in ToSet(record.edges)}
    BY <1>1, <1>2, <1>3, PagesFound
  <2>2. QED
    BY <2>1 DEF EndNames
<1>5. IsList(known) /\ IsList(more)
  BY <1>3, <1>4 DEF Pages
<1>6. title \in ToSet(more) /\ done \subseteq ToSet(known) /\ \A e \in ToSet(record.edges) : e.end \in ToSet(more)
  BY <1>3, <1>4 DEF NamedPagesOf, EndNames
<1>7. page \in DOMAIN more /\ more[page] = title
  BY <1>1, <1>4, <1>6, IdIs
<1>8. ToSet(more) = NamedPagesOf(file, done \cup {title})
  <2>1. NamedPagesOf(file, done \cup {title}) = NamedPagesOf(file, done) \cup {title} \cup EndNames(record)
    BY <1>1 DEF NamedPagesOf
  <2>2. QED
    BY <1>3, <1>4, <2>1
<1>9. EdgesOK(more, EdgesAfter(edges, more, title, file[title]), done \cup {title}, file)
  BY <1>1, <1>2, <1>3, <1>4, <1>6, EdgesKept
<1>10. AliasesOK(more, AliasesWith(table, NamesOf(file[title]), page), done \cup {title}, file)
  <2>1. IsList(NamesOf(file[more[page]])) /\ more[page] \notin done
    BY <1>1, <1>2, <1>7
  <2>2. AliasesOK(more, AliasesWith(table, NamesOf(file[more[page]]), page), done \cup {more[page]}, file)
    BY <1>3, <1>4, <1>5, <1>7, <2>1, AliasesKept
  <2>3. QED
    BY <1>7, <2>2
<1>11. QED
  BY <1>1, <1>4, <1>8, <1>9, <1>10 DEF TablesOK

LEMMA NothingLoaded ==
  ASSUME NEW file
  PROVE  TablesOK(file, {}, <<>>, <<>>, <<>>)
<1>1. PICK e : e = <<>>
  OBVIOUS
<1>2. IsList(e) /\ Len(e) = 0 /\ DOMAIN e = {} /\ ToSet(e) = {} /\ IsInjective(e)
  BY <1>1, NothingIsAList DEF ToSet, IsInjective
<1>3. Pages(e) /\ ToSet(e) = NamedPagesOf(file, {})
  BY <1>2 DEF Pages, NamedPagesOf
<1>4. EdgesOK(e, e, {}, file)
  BY <1>2 DEF EdgesOK
<1>5. AliasesOK(e, e, {}, file)
  <2>1. \A a : NamedIn(e, a) = e
    BY <1>1, <1>2 DEF NamedIn
  <2>2. ListsPages(e, e, {})
    BY <1>2 DEF ListsPages
  <2>3. QED
    BY <1>2, <2>1, <2>2 DEF AliasesOK
<1>6. TablesOK(file, {}, e, e, e)
  BY <1>3, <1>4, <1>5 DEF TablesOK
<1>7. QED
  BY <1>1, <1>6
LEMMA LoadInitially ==
  ASSUME InitLoad
  PROVE  LoadInv
<1>1. cabinet \in Cabinets /\ unread = DOMAIN cabinet /\ loading = "load" /\ shadow = <<>> /\ askedFor.names = <<>>
  BY DEF InitLoad
<1>2. DOMAIN cabinet \ unread = {}
  BY <1>1
<1>3. TablesOK(cabinet, {}, titles, edgesOf, aliases_)
  BY NothingLoaded DEF InitLoad
<1>4. TablesOK(cabinet, DOMAIN cabinet \ unread, titles, edgesOf, aliases_)
  BY <1>2, <1>3
<1>5. QED
  BY <1>1, <1>4 DEF LoadInv

LEMMA BuildPageIs ==
  ASSUME NEW title, BuildPage(title)
  PROVE  /\ titles' = KnownAfter(titles, title, cabinet[title])
         /\ edgesOf' = EdgesAfter(edgesOf, titles', title, cabinet[title])
         /\ aliases_' = AliasesWith(aliases_, NamesOf(cabinet[title]), IdOfPage(titles', title))
<1>1. titles' = KnownAfter(titles, title, cabinet[title])
  BY Zenon DEF BuildPage, KnownAfter, EndsOf
<1>2. edgesOf' = EdgesAfter(edgesOf, KnownAfter(titles, title, cabinet[title]), title, cabinet[title])
  BY Zenon DEF BuildPage, EdgesAfter, OldEdges, NewEdges, KnownAfter, EndsOf
<1>3. aliases_' = AliasesWith(aliases_, NamesOf(cabinet[title]),
                              IdOfPage(KnownAfter(titles, title, cabinet[title]), title))
  BY Zenon DEF BuildPage, AliasesWith, NamesOf, FoldLeft, MapThenFoldSet, KnownAfter, EndsOf
<1>4. QED
  BY <1>1, <1>2, <1>3

LEMMA LoadOneRecord ==
  ASSUME LoadInv, NEW title \in unread, LoadCabinetRecord(title)
  PROVE  LoadInv'
<1>1. PICK done, file : done = DOMAIN cabinet \ unread /\ file = cabinet
  OBVIOUS
<1>2. /\ loading = "load" /\ BuildPage(title) /\ unread' = unread \ {title} /\ cabinet' = cabinet
      /\ loading' = loading /\ shadow' = shadow /\ askedFor' = askedFor
  BY DEF LoadCabinetRecord
<1>3. /\ file \in Cabinets /\ title \in DOMAIN file /\ unread \subseteq DOMAIN file
      /\ TablesOK(file, done, titles, edgesOf, aliases_) /\ shadow = <<>> /\ askedFor.names = <<>>
  BY <1>1, <1>2 DEF LoadInv
<1>4. title \notin done
  BY <1>1
<1>5. PICK more, edges, table : /\ more = KnownAfter(titles, title, file[title])
                                /\ edges = EdgesAfter(edgesOf, more, title, file[title])
                                /\ table = AliasesWith(aliases_, NamesOf(file[title]), IdOfPage(more, title))
  OBVIOUS
<1>6. titles' = more /\ edgesOf' = edges /\ aliases_' = table
  BY <1>1, <1>2, <1>5, BuildPageIs
<1>7. TablesOK(file, done \cup {title}, more, edges, table)
  BY <1>3, <1>4, <1>5, RecordLoaded
<1>8. DOMAIN cabinet' \ unread' = done \cup {title}
  BY <1>1, <1>2, <1>3
<1>9. TablesOK(cabinet', DOMAIN cabinet' \ unread', titles', edgesOf', aliases_')
  BY <1>1, <1>2, <1>6, <1>7, <1>8
<1>10. cabinet' \in Cabinets /\ unread' \subseteq DOMAIN cabinet'
  BY <1>1, <1>2, <1>3
<1>11. QED
  BY <1>2, <1>3, <1>9, <1>10 DEF LoadInv

LEMMA LoadEnds ==
  ASSUME LoadInv, CabinetLoaded
  PROVE  LoadInv'
<1>1. /\ loading = "load" /\ unread = {} /\ loading' = "loaded"
      /\ cabinet' = cabinet /\ unread' = unread /\ titles' = titles /\ edgesOf' = edgesOf
      /\ aliases_' = aliases_ /\ shadow' = shadow /\ askedFor' = askedFor
  BY DEF CabinetLoaded
<1>2. /\ cabinet \in Cabinets /\ unread \subseteq DOMAIN cabinet
      /\ TablesOK(cabinet, DOMAIN cabinet \ unread, titles, edgesOf, aliases_)
      /\ shadow = <<>> /\ askedFor.names = <<>>
  BY <1>1 DEF LoadInv
<1>3. ShadowOK(aliases_, shadow, askedFor.names)
  BY <1>2, ShadowOfNobody
<1>4. QED
  BY <1>1, <1>2, <1>3 DEF LoadInv

LEMMA GraphCleared ==
  ASSUME LoadInv, ClearGraph
  PROVE  LoadInv'
<1>1. loading' = "cleared" /\ cabinet' = cabinet /\ unread' = unread
  BY DEF ClearGraph
<1>2. QED
  BY <1>1 DEF LoadInv

LEMMA ShadowPageBuilt ==
  ASSUME LoadInv, NEW request \in ShadowAsks, NEW increasing \in BOOLEAN, BuildShadowPage(request, increasing)
  PROVE  LoadInv'
<1>1. /\ loading = "loaded" /\ loading' = loading /\ shadow' = ShadowEdges(request, increasing)
      /\ cabinet' = cabinet /\ unread' = unread /\ titles' = titles /\ edgesOf' = edgesOf /\ aliases_' = aliases_
      /\ askedFor'.names = request
  BY DEF BuildShadowPage
<1>2. PICK table, out : table = aliases_ /\ out = shadow'
  OBVIOUS
<1>3. \A a : IsList(NamedIn(table, a))
  BY <1>1, <1>2 DEF LoadInv, TablesOK, AliasesOK, ListsPages
<1>4. IsList(request)
  BY LoadAssumption DEF LoadAssumption, IsList
<1>5. out = FoldLeft(AddToEdges, <<>>, ShadowOf(FlattenSeq(ListsOf(table, request)), increasing))
  BY <1>1, <1>2 DEF ShadowEdges, ConceptsOf, NamedIn, ListsOf, ShadowOf
<1>6. ShadowOK(table, out, request)
  BY <1>3, <1>4, <1>5, ShadowBuilt
<1>7. ShadowOK(aliases_', shadow', askedFor'.names)
  BY <1>1, <1>2, <1>6
<1>8. QED
  BY <1>1, <1>7 DEF LoadInv
-----------------------------------------------------------------------------
(* What the tables of a whole file say.                                    *)

Said(known, edges) == [n \in DOMAIN edges |-> <<known[edges[n].end], edges[n].min_weight>>]
Told(edges) == [n \in DOMAIN edges |-> <<edges[n].end, MinWeight(edges[n].weights)>>]

LEMMA SaidAsTold ==
  ASSUME NEW known, NEW out, NEW said, IsList(said), LeadTo(known, out, said)
  PROVE  Said(known, out) = Told(said)
<1>1. PICK m : m = Len(said)
  OBVIOUS
<1>2. DOMAIN out = 1..m /\ DOMAIN said = 1..m
  BY <1>1, Lists DEF LeadTo
<1>3. \A n \in 1..m : <<known[out[n].end], out[n].min_weight>> = <<said[n].end, MinWeight(said[n].weights)>>
  BY <1>1 DEF LeadTo
<1>4. QED
  BY <1>2, <1>3 DEF Said, Told

LEMMA SaidOfNothing ==
  ASSUME NEW known, NEW out, LeadTo(known, out, <<>>)
  PROVE  Said(known, out) = <<>>
<1>1. IsList(out) /\ Len(out) = 0
  BY NothingIsAList DEF LeadTo
<1>2. DOMAIN out = {}
  BY <1>1, Lists
<1>3. QED
  BY <1>2 DEF Said

LEMMA NamesTogether ==
  ASSUME NEW record, IsList(record.common_name), IsList(record.aliases)
  PROVE  /\ ToSet(record.aliases \o record.common_name) = ToSet(NamesOf(record))
         /\ \A alias : Occurrences(NamesOf(record), alias)
                         = Occurrences(record.aliases, alias) + Occurrences(record.common_name, alias)
<1>1. PICK s, t : s = record.common_name /\ t = record.aliases
  OBVIOUS
<1>2. PICK S : s \in Seq(S) /\ t \in Seq(S)
  BY <1>1, InCommon
<1>3. ToSet(s \o t) = ToSet(t \o s)
  <2>1. ToSet(s \o t) = ToSet(s) \cup ToSet(t)
    BY <1>1, Joined
  <2>2. ToSet(t \o s) = ToSet(t) \cup ToSet(s)
    BY <1>1, Joined
  <2>3. QED
    BY <2>1, <2>2
<1>4. \A alias : Occurrences(s \o t, alias) = Occurrences(t, alias) + Occurrences(s, alias)
  <2>1. ASSUME NEW alias PROVE Occurrences(s \o t, alias) = Occurrences(t, alias) + Occurrences(s, alias)
    <3>1. Occurrences(s \o t, alias) = Occurrences(s, alias) + Occurrences(t, alias)
      BY <1>2, OccursInBoth
    <3>2. Occurrences(s, alias) \in Nat /\ Occurrences(t, alias) \in Nat
      BY <1>2, OccurrencesUpto
    <3>3. QED
      BY <3>1, <3>2
  <2>2. QED
    BY <2>1
<1>5. QED
  BY <1>1, <1>3, <1>4 DEF NamesOf

LEMMA GraphIsTold ==
  ASSUME LoadInv
  PROVE  LoadKeepsGraph
<1>1. SUFFICES ASSUME loading = "loaded" PROVE LoadKeepsGraph
  BY DEF LoadKeepsGraph
<1>2. /\ cabinet \in Cabinets /\ TablesOK(cabinet, DOMAIN cabinet, titles, edgesOf, aliases_)
      /\ ShadowOK(aliases_, shadow, askedFor.names)
  <2>1. cabinet \in Cabinets /\ unread = {} /\ TablesOK(cabinet, DOMAIN cabinet \ unread, titles, edgesOf, aliases_)
    BY <1>1 DEF LoadInv
  <2>2. DOMAIN cabinet \ unread = DOMAIN cabinet
    BY <2>1
  <2>3. QED
    BY <1>1, <2>1, <2>2 DEF LoadInv
<1>3. IsInjective(titles) /\ ToSet(titles) = NamedPagesOf(cabinet, DOMAIN cabinet)
  BY <1>2 DEF TablesOK, Pages
<1>4. ASSUME NEW id \in DOMAIN titles
      PROVE  Said(titles, edgesOf[id])
               = IF titles[id] \notin DOMAIN cabinet THEN <<>> ELSE Told(FirstOf(cabinet[titles[id]].edges))
  <2>1. LeadTo(titles, edgesOf[id], SaidOf(cabinet, DOMAIN cabinet, titles[id]))
    BY <1>2 DEF TablesOK, EdgesOK
  <2>2. CASE titles[id] \in DOMAIN cabinet
    <3>1. PICK said : said = FirstOf(cabinet[titles[id]].edges)
      OBVIOUS
    <3>2. IsList(said)
      BY <1>2, <2>2, <3>1, RecordLists, FirstPart
    <3>3. LeadTo(titles, edgesOf[id], said)
      BY <2>1, <2>2, <3>1 DEF SaidOf
    <3>4. QED
      BY <2>2, <3>1, <3>2, <3>3, SaidAsTold
  <2>3. CASE titles[id] \notin DOMAIN cabinet
    <3>1. LeadTo(titles, edgesOf[id], <<>>)
      BY <2>1, <2>3 DEF SaidOf
    <3>2. QED
      BY <2>3, <3>1, SaidOfNothing
  <2>4. QED
    BY <2>2, <2>3
<1>5. \A t \in DOMAIN cabinet :
        /\ ToSet(cabinet[t].aliases \o cabinet[t].common_name) = ToSet(NamesOf(cabinet[t]))
        /\ \A alias : Occurrences(NamesOf(cabinet[t]), alias)
                        = Occurrences(cabinet[t].aliases, alias) + Occurrences(cabinet[t].common_name, alias)
  <2>1. ASSUME NEW t \in DOMAIN cabinet
        PROVE  /\ ToSet(cabinet[t].aliases \o cabinet[t].common_name) = ToSet(NamesOf(cabinet[t]))
               /\ \A alias : Occurrences(NamesOf(cabinet[t]), alias)
                               = Occurrences(cabinet[t].aliases, alias) + Occurrences(cabinet[t].common_name, alias)
    BY <1>2, RecordLists, NamesTogether
  <2>2. QED
    BY <2>1
<1> DEFINE mentioned == UNION {ToSet(cabinet[t].aliases \o cabinet[t].common_name) : t \in DOMAIN cabinet}
<1>6. DOMAIN aliases_ = mentioned
  <2>1. DOMAIN aliases_ = UNION {ToSet(NamesOf(cabinet[t])) : t \in DOMAIN cabinet}
    BY <1>2 DEF TablesOK, AliasesOK
  <2>2. QED
    BY <1>5, <2>1
<1>7. ASSUME NEW alias \in DOMAIN aliases_, NEW t \in DOMAIN cabinet
      PROVE  Mentions(t, alias) = Cardinality({n \in DOMAIN aliases_[alias] : titles[aliases_[alias][n]] = t})
  <2>1. Cardinality(PlacesIn(titles, NamedIn(aliases_, alias), t)) = Occurrences(NamesOf(cabinet[t]), alias)
    BY <1>2 DEF TablesOK, AliasesOK
  <2>2. Mentions(t, alias) = Occurrences(NamesOf(cabinet[t]), alias)
    BY <1>5 DEF Mentions, Occurrences
  <2>3. PlacesIn(titles, NamedIn(aliases_, alias), t) = {n \in DOMAIN aliases_[alias] : titles[aliases_[alias][n]] = t}
    BY DEF PlacesIn, NamedIn
  <2>4. QED
    BY <2>1, <2>2, <2>3
<1>8. /\ IsInjective(titles)
      /\ ToSet(titles) = DOMAIN cabinet \cup UNION {{e.end : e \in ToSet(cabinet[t].edges)} : t \in DOMAIN cabinet}
  BY <1>3 DEF NamedPagesOf, EndNames
<1>9. \A id \in DOMAIN titles :
        [n \in DOMAIN edgesOf[id] |-> <<titles[edgesOf[id][n].end], edgesOf[id][n].min_weight>>]
          = IF titles[id] \in {title \in ToSet(titles) : title \notin DOMAIN cabinet} THEN <<>>
            ELSE LET edges == FirstOf(cabinet[titles[id]].edges)
                 IN  [n \in DOMAIN edges |-> <<edges[n].end, MinWeight(edges[n].weights)>>]
  <2>1. ASSUME NEW id \in DOMAIN titles
        PROVE  titles[id] \in {title \in ToSet(titles) : title \notin DOMAIN cabinet}
                 <=> titles[id] \notin DOMAIN cabinet
    BY DEF ToSet
  <2>2. QED
    BY <1>4, <2>1 DEF Said, Told
<1>10. \A alias \in mentioned, t \in DOMAIN cabinet :
         Mentions(t, alias) = Cardinality({n \in DOMAIN aliases_[alias] : titles[aliases_[alias][n]] = t})
  BY <1>6, <1>7
<1>11. QED
  BY <1>1, <1>2, <1>6, <1>8, <1>9, <1>10, Zenon
     DEF LoadKeepsGraph, ShadowOK, NamedBy, NamedIn, ConceptsOf, StandFor, FoldLeft, MapThenFoldSet

(* In whatever order the records of the cabinet are read, the graph that   *)
(* load leaves is the one they describe, and build_shadow_page reaches the *)
(* pages its names stand for.                                              *)
THEOREM LoadStaysFaithful == InitLoad /\ [][NextLoad]_loadVars => []LoadKeepsGraph
<1>1. InitLoad => LoadInv
  BY LoadInitially
<1>2. LoadInv /\ [NextLoad]_loadVars => LoadInv'
  <2>1. SUFFICES ASSUME LoadInv, [NextLoad]_loadVars PROVE LoadInv'
    OBVIOUS
  <2>2. ASSUME NEW title \in unread, LoadCabinetRecord(title) PROVE LoadInv'
    BY <2>1, <2>2, LoadOneRecord
  <2>3. CASE CabinetLoaded
    BY <2>1, <2>3, LoadEnds
  <2>4. CASE ClearGraph
    BY <2>1, <2>4, GraphCleared
  <2>5. ASSUME NEW request \in ShadowAsks, NEW increasing \in BOOLEAN, BuildShadowPage(request, increasing)
        PROVE  LoadInv'
    BY <2>1, <2>5, ShadowPageBuilt
  <2>6. CASE UNCHANGED loadVars
    BY <2>1, <2>6 DEF loadVars, LoadInv
  <2>7. QED
    BY <2>1, <2>2, <2>3, <2>4, <2>5, <2>6 DEF NextLoad
<1>3. LoadInv => LoadKeepsGraph
  BY GraphIsTold
<1>4. QED
  BY <1>1, <1>2, <1>3, PTL

-----------------------------------------------------------------------------
(* ConceptResolver: the tables of concepts.                                *)

NameFolds(f, base, s, I) ==
  f = [S \in SUBSET I |-> IF S = {} THEN base ELSE WithCanonical(f[S \ {Max(S)}], s[Max(S)])]
SeenFolds(f, base, s, I) ==
  f = [S \in SUBSET I |-> IF S = {} THEN base ELSE AddSeen(f[S \ {Max(S)}], s[Max(S)])]

LEMMA NameFold ==
  ASSUME NEW base, NEW s, NEW N \in Nat, DOMAIN s = 1..N
  PROVE  \E h : FoldsUpTo(h, "name", 0, base, s, N) /\ FoldLeft(WithCanonical, base, s) = h[N]
<1>1. PICK f : f = CHOOSE g : NameFolds(g, base, s, 1..N)
  OBVIOUS
<1>2. FoldLeft(WithCanonical, base, s) = f[1..N]
  BY <1>1 DEF FoldLeft, MapThenFoldSet, NameFolds
<1>3. ASSUME NEW g PROVE NameFolds(g, base, s, 1..N) <=> FoldsBy(g, "name", 0, base, s, 1..N)
  <2>1. \A x, e : Step("name", 0, x, e) = WithCanonical(x, e)
    BY StepIs
  <2>2. [S \in SUBSET (1..N) |-> IF S = {} THEN base ELSE WithCanonical(g[S \ {Max(S)}], s[Max(S)])]
          = [S \in SUBSET (1..N) |-> IF S = {} THEN base ELSE Step("name", 0, g[S \ {Max(S)}], s[Max(S)])]
    BY <2>1
  <2>3. QED
    BY <2>2 DEF NameFolds, FoldsBy
<1>4. FoldsBy(f, "name", 0, base, s, 1..N)
  BY <1>1, <1>3, FoldByExists
<1>5. QED
  BY <1>2, <1>4, FoldBySteps

LEMMA SeenFold ==
  ASSUME NEW base, NEW s, NEW N \in Nat, DOMAIN s = 1..N
  PROVE  \E h : FoldsUpTo(h, "seen", 0, base, s, N) /\ FoldLeft(AddSeen, base, s) = h[N]
<1>1. PICK f : f = CHOOSE g : SeenFolds(g, base, s, 1..N)
  OBVIOUS
<1>2. FoldLeft(AddSeen, base, s) = f[1..N]
  BY <1>1 DEF FoldLeft, MapThenFoldSet, SeenFolds
<1>3. ASSUME NEW g PROVE SeenFolds(g, base, s, 1..N) <=> FoldsBy(g, "seen", 0, base, s, 1..N)
  <2>1. \A x, e : Step("seen", 0, x, e) = AddSeen(x, e)
    BY StepIs
  <2>2. [S \in SUBSET (1..N) |-> IF S = {} THEN base ELSE AddSeen(g[S \ {Max(S)}], s[Max(S)])]
          = [S \in SUBSET (1..N) |-> IF S = {} THEN base ELSE Step("seen", 0, g[S \ {Max(S)}], s[Max(S)])]
    BY <2>1
  <2>3. QED
    BY <2>2 DEF SeenFolds, FoldsBy
<1>4. FoldsBy(f, "seen", 0, base, s, 1..N)
  BY <1>1, <1>3, FoldByExists
<1>5. QED
  BY <1>2, <1>4, FoldBySteps

(* The two tables are inverse to each other, and there is room for a name. *)
Inverses(number, named) ==
  /\ IsList(named) /\ DOMAIN number = ToSet(named)
  /\ \A i \in 1..Len(named) : number[named[i]] = i - 1
Canonical(m) == Inverses(m.ids, m.names) /\ m.allocated \in Nat /\ Len(m.names) < m.allocated

LEMMA OneName ==
  ASSUME NEW m, Canonical(m), NEW name, NEW n, n = WithCanonical(m, name)
  PROVE  /\ Canonical(n) /\ Longer(m.names, n.names) /\ ToSet(n.names) = ToSet(m.names) \cup {name}
<1>1. PICK known, number, k : known = m.names /\ number = m.ids /\ k = Len(known)
  OBVIOUS
<1>2. /\ IsList(known) /\ DOMAIN number = ToSet(known) /\ (\A i \in 1..k : number[known[i]] = i - 1)
      /\ m.allocated \in Nat /\ k < m.allocated
  BY <1>1 DEF Canonical, Inverses
<1>3. k \in Nat /\ DOMAIN known = 1..k
  BY <1>1, <1>2, Lists
<1>4. CASE name \in DOMAIN number
  <2>1. n = m
    BY <1>1, <1>4 DEF WithCanonical
  <2>2. Longer(known, known)
    BY <1>1, <1>3 DEF Longer
  <2>3. ToSet(n.names) = ToSet(m.names) \cup {name}
    BY <1>1, <1>2, <1>4, <2>1
  <2>4. Canonical(n)
    BY <2>1
  <2>5. QED
    BY <1>1, <2>1, <2>2, <2>3, <2>4
<1>5. CASE name \notin DOMAIN number
  <2>1. PICK more, numbers : more = Append(known, name) /\ numbers = Extended(number, name, k)
    OBVIOUS
  <2>2. /\ n.ids = numbers /\ n.names = more
        /\ n.allocated = m.allocated + (IF k + 1 = m.allocated THEN AllocationJump ELSE 0)
    BY <1>1, <1>5, <2>1 DEF WithCanonical
  <2>3. PICK S : known \in Seq(S)
    BY <1>2 DEF IsList
  <2>4. PICK T : T = S \cup {name}
    OBVIOUS
  <2>5. known \in Seq(T) /\ name \in T
    BY <2>3, <2>4
  <2>6. /\ more \in Seq(T) /\ Len(more) = k + 1 /\ more[k + 1] = name /\ \A i \in 1..k : more[i] = known[i]
    BY <1>1, <2>1, <2>5
  <2>7. ToSet(more) = ToSet(known) \cup {name}
    BY <2>1, <2>5, AppendOnce
  <2>8. /\ DOMAIN numbers = DOMAIN number \cup {name} /\ numbers[name] = k
        /\ \A x \in DOMAIN number : numbers[x] = number[x]
    BY <1>5, <2>1 DEF Extended
  <2>9. \A i \in 1..k + 1 : numbers[more[i]] = i - 1
    <3>1. ASSUME NEW i \in 1..k + 1 PROVE numbers[more[i]] = i - 1
      <4>1. CASE i = k + 1
        BY <1>3, <2>6, <2>8, <4>1
      <4>2. CASE i # k + 1
        <5>1. i \in 1..k
          BY <1>3, <4>2
        <5>2. known[i] \in DOMAIN number
          BY <1>2, <1>3, <5>1 DEF ToSet
        <5>3. QED
          BY <1>2, <2>6, <2>8, <5>1, <5>2
      <4>3. QED
        BY <4>1, <4>2
    <3>2. QED
      BY <3>1
  <2>10. Inverses(numbers, more)
    BY <1>2, <2>6, <2>7, <2>8, <2>9 DEF Inverses, IsList
  <2>11. n.allocated \in Nat /\ Len(more) < n.allocated
    <3>1. AllocationJump \in Nat \ {0}
      BY ResolverAssumption DEF ResolverAssumption
    <3>2. QED
      BY <1>2, <1>3, <2>2, <2>6, <3>1
  <2>12. Longer(known, more)
    BY <1>1, <1>3, <2>6 DEF Longer
  <2>13. QED
    BY <1>1, <2>2, <2>7, <2>10, <2>11, <2>12 DEF Canonical
<1>6. QED
  BY <1>4, <1>5
LEMMA NamesKept ==
  ASSUME NEW m, Canonical(m), NEW s, NEW N \in Nat, DOMAIN s = 1..N, NEW n, n = FoldLeft(WithCanonical, m, s)
  PROVE  Canonical(n) /\ Longer(m.names, n.names) /\ \A i \in 1..N : s[i] \in ToSet(n.names)
<1>1. PICK h : FoldsUpTo(h, "name", 0, m, s, N) /\ FoldLeft(WithCanonical, m, s) = h[N]
  BY NameFold
<1>2. h[0] = m /\ \A i \in 0..N - 1 : h[i + 1] = WithCanonical(h[i], s[i + 1])
  BY <1>1, StepIs DEF FoldsUpTo
<1> DEFINE Good(i) == /\ Canonical(h[i]) /\ Longer(m.names, h[i].names)
                      /\ \A j \in 1..i : s[j] \in ToSet(h[i].names)
<1> DEFINE T == {i \in Nat : i <= N => Good(i)}
<1>3. 0 \in T
  <2>1. IsList(m.names)
    BY DEF Canonical, Inverses
  <2>2. Longer(m.names, m.names)
    BY <2>1, Lists DEF Longer
  <2>3. QED
    BY <1>2, <2>2
<1>4. ASSUME NEW i \in T PROVE i + 1 \in T
  <2>1. i \in Nat
    OBVIOUS
  <2>2. SUFFICES ASSUME i + 1 <= N PROVE Good(i + 1)
    BY <2>1
  <2>3. i \in 0..N - 1 /\ i <= N
    BY <2>1, <2>2
  <2>4. PICK a, b, x : a = h[i] /\ b = h[i + 1] /\ x = s[i + 1]
    OBVIOUS
  <2>5. b = WithCanonical(a, x)
    BY <1>2, <2>3, <2>4
  <2>6. Canonical(a) /\ Longer(m.names, a.names) /\ \A j \in 1..i : s[j] \in ToSet(a.names)
    BY <2>3, <2>4
  <2>7. Canonical(b) /\ Longer(a.names, b.names) /\ ToSet(b.names) = ToSet(a.names) \cup {x}
    BY <2>5, <2>6, OneName
  <2>8. IsList(m.names) /\ IsList(a.names) /\ IsList(b.names)
    BY <2>6, <2>7 DEF Canonical, Inverses
  <2>9. Longer(m.names, b.names)
    BY <2>6, <2>7, <2>8, LongerStill
  <2>10. \A j \in 1..i + 1 : j \in 1..i \/ j = i + 1
    BY <2>1
  <2>11. \A j \in 1..i + 1 : s[j] \in ToSet(b.names)
    BY <2>4, <2>6, <2>7, <2>10
  <2>12. QED
    BY <2>4, <2>7, <2>9, <2>11
<1>5. T \subseteq Nat
  OBVIOUS
<1>6. T = Nat
  <2> HIDE DEF T
  <2>1. QED
    BY <1>3, <1>4, <1>5, Induction
<1>7. Good(N)
  BY <1>6
<1>8. QED
  BY <1>1, <1>7

(* FlattenSeq of lists holds what the lists hold.                          *)
LEMMA Flattened ==
  ASSUME NEW N \in Nat, NEW q, q = [i \in 1..N |-> q[i]], \A i \in 1..N : IsList(q[i])
  PROVE  IsList(FlattenSeq(q)) /\ ToSet(FlattenSeq(q)) = FromFirst(q, N)
<1>1. PICK request : request = [i \in 1..N |-> i]
  OBVIOUS
<1>2. request \in Seq(1..N) /\ DOMAIN request = 1..N
  BY <1>1
<1>3. IsList(request)
  BY <1>2 DEF IsList
<1>4. \A i \in 1..N : NamedIn(q, request[i]) = q[i]
  BY <1>1 DEF NamedIn
<1>5. ListsOf(q, request) = q
  <2>1. ListsOf(q, request) = [i \in 1..N |-> NamedIn(q, request[i])]
    BY <1>2 DEF ListsOf
  <2>2. [i \in 1..N |-> NamedIn(q, request[i])] = [i \in 1..N |-> q[i]]
    BY <1>4
  <2>3. QED
    BY <2>1, <2>2
<1>6. \A a : IsList(NamedIn(q, a))
  BY NothingIsAList DEF NamedIn
<1>7. IsList(FlattenSeq(q)) /\ ToSet(FlattenSeq(q)) = StandFor(q, request)
  <2>1. PICK pages : pages = FlattenSeq(ListsOf(q, request))
    OBVIOUS
  <2>2. IsList(pages) /\ ToSet(pages) = StandFor(q, request)
    BY <1>3, <1>6, <2>1, NamedPages
  <2>3. QED
    BY <1>5, <2>1, <2>2
<1>8. ToSet(request) = 1..N
  BY <1>1, <1>2 DEF ToSet
<1>9. {ToSet(NamedIn(q, name)) : name \in ToSet(request)} = {ToSet(q[i]) : i \in 1..N}
  <2>1. \A i \in 1..N : ToSet(NamedIn(q, i)) = ToSet(q[i])
    BY <1>1, <1>4
  <2>2. QED
    BY <1>8, <2>1
<1>10. QED
  BY <1>7, <1>9 DEF StandFor, FromFirst
(* The candidates of an input, text by text, and the concepts seen.        *)
CandidatesAt(table, in, at) ==
  IF in[at] \in DOMAIN table
  THEN [n \in DOMAIN table[in[at]] |->
          [id |-> table[in[at]][n].id, quality |-> table[in[at]][n].quality, at |-> at]]
  ELSE <<>>

LEMMA CandidatesAre ==
  ASSUME NEW in, IsList(in), \A t \in DOMAIN aliases : IsList(aliases[t])
  PROVE  /\ IsList(Candidates(in))
         /\ \A c : c \in ToSet(Candidates(in)) <=>
              \E at \in DOMAIN in : c \in ToSet(CandidatesAt(aliases, in, at))
<1>1. PICK N, q, table : N = Len(in) /\ table = aliases /\ q = [at \in DOMAIN in |-> CandidatesAt(table, in, at)]
  OBVIOUS
<1>2. N \in Nat /\ DOMAIN in = 1..N
  BY <1>1, Lists
<1>3. Candidates(in) = FlattenSeq(q)
  BY <1>1 DEF Candidates, CandidatesAt
<1>4. ASSUME NEW at \in 1..N PROVE IsList(CandidatesAt(table, in, at))
  <2>1. CASE in[at] \in DOMAIN table
    <3>1. PICK e, k : e = table[in[at]] /\ k = Len(e)
      OBVIOUS
    <3>2. IsList(e)
      BY <1>1, <2>1, <3>1
    <3>3. k \in Nat /\ DOMAIN e = 1..k
      BY <3>1, <3>2, Lists
    <3>4. PICK s : s = [n \in 1..k |-> [id |-> e[n].id, quality |-> e[n].quality, at |-> at]]
      OBVIOUS
    <3>5. CandidatesAt(table, in, at) = s
      BY <2>1, <3>1, <3>3, <3>4 DEF CandidatesAt
    <3>6. PICK S : S = {s[n] : n \in 1..k}
      OBVIOUS
    <3>7. s \in Seq(S)
      BY <3>3, <3>4, <3>6
    <3>8. QED
      BY <3>5, <3>7 DEF IsList
  <2>2. CASE in[at] \notin DOMAIN table
    BY <2>2, NothingIsAList DEF CandidatesAt
  <2>3. QED
    BY <2>1, <2>2
<1>5. q = [i \in 1..N |-> q[i]] /\ \A i \in 1..N : q[i] = CandidatesAt(table, in, i)
  BY <1>1, <1>2
<1>6. \A i \in 1..N : IsList(q[i])
  BY <1>4, <1>5
<1>7. IsList(FlattenSeq(q)) /\ ToSet(FlattenSeq(q)) = FromFirst(q, N)
  BY <1>2, <1>5, <1>6, Flattened
<1>8. \A c : c \in FromFirst(q, N) <=> \E i \in 1..N : c \in ToSet(q[i])
  BY DEF FromFirst
<1>9. QED
  BY <1>1, <1>2, <1>3, <1>5, <1>7, <1>8

LEMMA SeenAre ==
  ASSUME NEW in, IsList(Candidates(in)), NEW id, id \in ToSet(Seen(in))
  PROVE  \E c \in ToSet(Candidates(in)) : id = c.id
<1>1. PICK s, N : s = Candidates(in) /\ N = Len(s)
  OBVIOUS
<1>2. N \in Nat /\ DOMAIN s = 1..N
  BY <1>1, Lists
<1>3. PICK h : FoldsUpTo(h, "seen", 0, <<>>, s, N) /\ FoldLeft(AddSeen, <<>>, s) = h[N]
  BY <1>2, SeenFold
<1>4. h[0] = <<>> /\ \A i \in 0..N - 1 : h[i + 1] = AddSeen(h[i], s[i + 1])
  BY <1>3, StepIs DEF FoldsUpTo
<1> DEFINE Good(i) == IsList(h[i]) /\ \A x \in ToSet(h[i]) : \E j \in 1..N : x = s[j].id
<1> DEFINE T == {i \in Nat : i <= N => Good(i)}
<1>5. 0 \in T
  <2>1. IsList(<<>>) /\ ToSet(<<>>) = {}
    BY NothingIsAList, Lists DEF ToSet
  <2>2. QED
    BY <1>4, <2>1
<1>6. ASSUME NEW i \in T PROVE i + 1 \in T
  <2>1. i \in Nat
    OBVIOUS
  <2>2. SUFFICES ASSUME i + 1 <= N PROVE Good(i + 1)
    BY <2>1
  <2>3. i \in 0..N - 1 /\ i <= N /\ i + 1 \in 1..N
    BY <1>2, <2>1, <2>2
  <2>4. PICK a, b, x : a = h[i] /\ b = h[i + 1] /\ x = s[i + 1].id
    OBVIOUS
  <2>5. b = IF x \in ToSet(a) THEN a ELSE Append(a, x)
    BY <1>4, <2>3, <2>4 DEF AddSeen
  <2>6. IsList(a) /\ \A y \in ToSet(a) : \E j \in 1..N : y = s[j].id
    BY <2>3, <2>4
  <2>7. CASE x \in ToSet(a)
    BY <2>4, <2>5, <2>6, <2>7
  <2>8. CASE x \notin ToSet(a)
    <3>1. PICK S : a \in Seq(S)
      BY <2>6 DEF IsList
    <3>2. PICK W : W = S \cup {x}
      OBVIOUS
    <3>3. a \in Seq(W) /\ x \in W
      BY <3>1, <3>2
    <3>4. b \in Seq(W) /\ ToSet(b) = ToSet(a) \cup {x}
      BY <2>5, <2>8, <3>3, AppendOnce
    <3>5. IsList(b)
      BY <3>4 DEF IsList
    <3>6. QED
      BY <2>3, <2>4, <2>6, <3>4, <3>5
  <2>9. QED
    BY <2>7, <2>8
<1>7. T \subseteq Nat
  OBVIOUS
<1>8. T = Nat
  <2> HIDE DEF T
  <2>1. QED
    BY <1>5, <1>6, <1>7, Induction
<1>9. Good(N)
  BY <1>2, <1>8
<1>10. Seen(in) = h[N]
  BY <1>1, <1>3 DEF Seen
<1>11. PICK j \in 1..N : id = s[j].id
  BY <1>9, <1>10
<1>12. QED
  BY <1>1, <1>2, <1>11 DEF ToSet
(* Entries that got their ids.                                             *)
Means(entries, listed, named) ==
  /\ IsList(entries) /\ DOMAIN entries = DOMAIN listed
  /\ \A n \in DOMAIN entries : entries[n].id \in 0..Len(named) - 1 /\ named[entries[n].id + 1] = listed[n].name
Near(entries, named) ==
  Len(entries) <= NeighborLimit /\ \A e \in ToSet(entries) : e.id \in (0..Len(named) - 1) \cup {-1}

LEMMA MeansStill ==
  ASSUME NEW entries, NEW listed, NEW named, NEW more, IsList(named), IsList(more), Longer(named, more),
         Means(entries, listed, named)
  PROVE  Means(entries, listed, more)
<1>1. PICK k, l : k = Len(named) /\ l = Len(more)
  OBVIOUS
<1>2. k \in Nat /\ l \in Nat
  BY <1>1, Lists
<1>3. k <= l /\ \A i \in 1..k : more[i] = named[i]
  BY <1>1 DEF Longer
<1>4. ASSUME NEW n \in DOMAIN entries
      PROVE  entries[n].id \in 0..l - 1 /\ more[entries[n].id + 1] = listed[n].name
  <2>1. PICK i : i = entries[n].id
    OBVIOUS
  <2>2. i \in 0..k - 1 /\ named[i + 1] = listed[n].name
    BY <1>1, <2>1 DEF Means
  <2>3. i \in 0..l - 1 /\ i + 1 \in 1..k
    BY <1>2, <1>3, <2>2
  <2>4. QED
    BY <1>3, <2>1, <2>2, <2>3
<1>5. QED
  BY <1>1, <1>4 DEF Means

LEMMA Identified ==
  ASSUME NEW entries, IsList(entries), NEW known, NEW named, Inverses(known, named),
         NEW with, with = WithIds(entries, known)
  PROVE  /\ IsList(with) /\ DOMAIN with = DOMAIN entries /\ Len(with) = Len(entries)
         /\ \A n \in DOMAIN entries :
              IF entries[n].name \in ToSet(named)
              THEN with[n].id \in 0..Len(named) - 1 /\ named[with[n].id + 1] = entries[n].name
              ELSE with[n].id = -1
<1>1. PICK k, l : k = Len(entries) /\ l = Len(named)
  OBVIOUS
<1>2. IsList(named) /\ DOMAIN known = ToSet(named) /\ \A i \in 1..l : known[named[i]] = i - 1
  BY <1>1 DEF Inverses
<1>3. k \in Nat /\ DOMAIN entries = 1..k /\ l \in Nat /\ DOMAIN named = 1..l
  BY <1>1, <1>2, Lists
<1>4. with = [n \in 1..k |->
                [id      |-> IF entries[n].name \in DOMAIN known THEN known[entries[n].name] ELSE -1,
                 quality |-> entries[n].quality]]
  BY <1>3 DEF WithIds
<1>5. IsList(with) /\ DOMAIN with = 1..k /\ Len(with) = k
  <2>1. PICK S : S = {with[n] : n \in 1..k}
    OBVIOUS
  <2>2. with \in Seq(S) /\ DOMAIN with = 1..k /\ Len(with) = k
    BY <1>3, <1>4, <2>1
  <2>3. QED
    BY <2>2 DEF IsList
<1>6. ASSUME NEW n \in 1..k
      PROVE  IF entries[n].name \in ToSet(named)
             THEN with[n].id \in 0..l - 1 /\ named[with[n].id + 1] = entries[n].name
             ELSE with[n].id = -1
  <2>1. PICK x, id : x = entries[n].name /\ id = with[n].id
    OBVIOUS
  <2>2. id = IF x \in ToSet(named) THEN known[x] ELSE -1
    BY <1>2, <1>4, <2>1
  <2>3. ASSUME x \in ToSet(named) PROVE id \in 0..l - 1 /\ named[id + 1] = x
    <3>1. PICK i \in 1..l : named[i] = x
      BY <1>3, <2>3 DEF ToSet
    <3>2. id = i - 1
      BY <1>2, <2>2, <2>3, <3>1
    <3>3. id \in 0..l - 1 /\ id + 1 = i
      BY <1>3, <3>1, <3>2
    <3>4. QED
      BY <3>1, <3>3
  <2>4. QED
    BY <2>1, <2>2, <2>3
<1>7. QED
  BY <1>1, <1>3, <1>5, <1>6

LEMMA CutIs ==
  ASSUME NEW entries, IsList(entries)
  PROVE  IsList(Cut(entries)) /\ Len(Cut(entries)) <= NeighborLimit
<1>1. PICK S : entries \in Seq(S)
  BY DEF IsList
<1>2. NeighborLimit \in Nat /\ Len(entries) \in Nat
  BY <1>1, ResolverAssumption DEF ResolverAssumption
<1>3. PICK m : m = Min({NeighborLimit, Len(entries)})
  OBVIOUS
<1>4. m \in Nat /\ m <= Len(entries) /\ m <= NeighborLimit
  BY <1>2, <1>3, MinIs
<1>5. PICK t : t = SubSeq(entries, 1, m)
  OBVIOUS
<1>6. t \in Seq(S) /\ Len(t) = m
  BY <1>1, <1>2, <1>4, <1>5
<1>7. t = Cut(entries)
  BY <1>3, <1>5 DEF Cut
<1>8. IsList(t)
  BY <1>6 DEF IsList
<1>9. QED
  BY <1>4, <1>6, <1>7, <1>8

LEMMA FilesHoldLists ==
  ASSUME NEW file \in AliasFiles \cup NeighborFiles, NEW key \in Keys(file)
  PROVE  key \in DOMAIN file /\ IsList(file[key])
<1>1. key \in DOMAIN file
  BY Zenon DEF Keys
<1>2. file[key] \in Seq(ToSet(file[key]))
  BY <1>1, ResolverAssumption DEF ResolverAssumption
<1>3. QED
  BY <1>1, <1>2 DEF IsList

-----------------------------------------------------------------------------
(* The constructor keeps the tables; resolve() reads them.                 *)

ResolverInv ==
  /\ aliasFile \in AliasFiles /\ neighborFile \in NeighborFiles
  /\ Inverses(ids, names) /\ allocated \in Nat /\ Len(names) < allocated
  /\ \A t \in DOMAIN aliases : Means(aliases[t], aliasFile[t], names)
  /\ \A id \in DOMAIN neighbors : neighbors[id] # Unset => Near(neighbors[id], names)
  /\ resolving \in {"aliases", "neighbors", "ready", "crashed"}
  /\ resolving = "aliases" =>
       DOMAIN neighbors = {} /\ todo \subseteq Keys(aliasFile) /\ DOMAIN aliases = Keys(aliasFile) \ todo
  /\ resolving # "aliases" => DOMAIN neighbors = Ids /\ DOMAIN aliases = Keys(aliasFile)
  /\ resolving = "neighbors" => todo \subseteq Keys(neighborFile)
  /\ zeroed \in BOOLEAN /\ IsList(input)

LEMMA ResolverInitially == InitResolver => ResolverInv
<1> SUFFICES ASSUME InitResolver PROVE ResolverInv
  OBVIOUS
<1>1. /\ aliasFile \in AliasFiles /\ neighborFile \in NeighborFiles /\ todo = Keys(aliasFile)
      /\ ids = NoEntries /\ names = <<>> /\ allocated = AllocationJump /\ aliases = NoEntries
      /\ neighbors = NoEntries /\ zeroed \in BOOLEAN /\ resolving = "aliases" /\ input = <<>>
  BY DEF InitResolver
<1>2. DOMAIN NoEntries = {}
  BY DEF NoEntries
<1>3. IsList(<<>>) /\ Len(<<>>) = 0 /\ DOMAIN <<>> = 1..0 /\ ToSet(<<>>) = {}
  BY NothingIsAList, Lists DEF ToSet
<1>4. Inverses(ids, names)
  BY <1>1, <1>2, <1>3 DEF Inverses
<1>5. allocated \in Nat /\ Len(names) < allocated
  BY <1>1, <1>3, ResolverAssumption DEF ResolverAssumption
<1>6. DOMAIN aliases = {} /\ DOMAIN neighbors = {} /\ DOMAIN aliases = Keys(aliasFile) \ todo
  BY <1>1, <1>2
<1>7. IsList(input)
  BY <1>1, <1>3
<1>8. QED
  BY <1>1, <1>4, <1>5, <1>6, <1>7 DEF ResolverInv
LEMMA LoadAliasKeeps == ASSUME ResolverInv, NEW key, LoadAlias(key) PROVE ResolverInv'
<1>1. /\ resolving = "aliases" /\ key \in todo /\ todo' = todo \ {key} /\ aliasFile' = aliasFile
      /\ neighborFile' = neighborFile /\ neighbors' = neighbors /\ zeroed' = zeroed
      /\ resolving' = "aliases" /\ input' = input
  BY DEF LoadAlias, files
<1>2. PICK listed, table, m, s : /\ listed = aliasFile[key] /\ table = aliases
                                 /\ m = [ids |-> ids, names |-> names, allocated |-> allocated]
                                 /\ s = [n \in DOMAIN listed |-> listed[n].name]
  OBVIOUS
<1>3. PICK known : known = FoldLeft(WithCanonical, m, s)
  OBVIOUS
<1>4. PICK entries : entries = WithIds(listed, known.ids)
  OBVIOUS
<1>5. ids' = known.ids /\ names' = known.names /\ allocated' = known.allocated /\ aliases' = Extended(table, key, entries)
  BY <1>2, <1>3, <1>4 DEF LoadAlias
<1>6. /\ key \in Keys(aliasFile) /\ aliasFile \in AliasFiles /\ DOMAIN neighbors = {}
      /\ DOMAIN table = Keys(aliasFile) \ todo /\ todo \subseteq Keys(aliasFile)
      /\ Inverses(ids, names) /\ allocated \in Nat /\ Len(names) < allocated
      /\ \A t \in DOMAIN table : Means(table[t], aliasFile[t], names)
  BY <1>1, <1>2 DEF ResolverInv
<1>7. IsList(listed)
  BY <1>2, <1>6, FilesHoldLists
<1>8. PICK N : N = Len(listed)
  OBVIOUS
<1>9. N \in Nat /\ DOMAIN listed = 1..N
  BY <1>7, <1>8, Lists
<1>10. Canonical(m) /\ m.names = names
  BY <1>2, <1>6 DEF Canonical
<1>11. DOMAIN s = 1..N /\ \A n \in 1..N : s[n] = listed[n].name
  BY <1>2, <1>9
<1>12. Canonical(known) /\ Longer(m.names, known.names) /\ \A i \in 1..N : s[i] \in ToSet(known.names)
  BY <1>3, <1>9, <1>10, <1>11, NamesKept
<1>13. PICK more : more = known.names
  OBVIOUS
<1>14. /\ Inverses(known.ids, more) /\ known.allocated \in Nat /\ Len(more) < known.allocated
       /\ IsList(more) /\ IsList(names) /\ Longer(names, more)
  BY <1>6, <1>10, <1>12, <1>13 DEF Canonical, Inverses
<1>15. Means(entries, listed, more)
  <2>1. /\ IsList(entries) /\ DOMAIN entries = DOMAIN listed
        /\ \A n \in DOMAIN listed :
             IF listed[n].name \in ToSet(more)
             THEN entries[n].id \in 0..Len(more) - 1 /\ more[entries[n].id + 1] = listed[n].name
             ELSE entries[n].id = -1
    BY <1>4, <1>7, <1>14, Identified
  <2>2. \A n \in DOMAIN listed : listed[n].name \in ToSet(more)
    BY <1>9, <1>11, <1>12, <1>13
  <2>3. QED
    BY <2>1, <2>2 DEF Means
<1>16. \A t \in DOMAIN table : Means(table[t], aliasFile[t], more)
  BY <1>6, <1>14, MeansStill
<1>17. PICK after : after = Extended(table, key, entries)
  OBVIOUS
<1>18. /\ DOMAIN after = DOMAIN table \cup {key} /\ after[key] = entries
       /\ \A t \in DOMAIN table : after[t] = table[t]
  BY <1>1, <1>6, <1>17 DEF Extended
<1>19. \A t \in DOMAIN after : Means(after[t], aliasFile[t], more)
  BY <1>2, <1>15, <1>16, <1>18
<1>20. DOMAIN after = Keys(aliasFile) \ (todo \ {key})
  BY <1>1, <1>6, <1>18
<1>21. aliases' = after /\ names' = more /\ ids' = known.ids
  BY <1>5, <1>13, <1>17
<1>22. Inverses(ids', names') /\ allocated' \in Nat /\ Len(names') < allocated'
  BY <1>5, <1>14, <1>21
<1>23. \A t \in DOMAIN aliases' : Means(aliases'[t], aliasFile'[t], names')
  BY <1>1, <1>19, <1>21
<1>24. DOMAIN neighbors' = {} /\ todo' \subseteq Keys(aliasFile') /\ DOMAIN aliases' = Keys(aliasFile') \ todo'
  BY <1>1, <1>6, <1>20, <1>21
<1>25. /\ aliasFile' \in AliasFiles /\ neighborFile' \in NeighborFiles /\ zeroed' \in BOOLEAN /\ IsList(input')
  BY <1>1 DEF ResolverInv
<1>26. QED
  BY <1>1, <1>22, <1>23, <1>24, <1>25 DEF ResolverInv

LEMMA AliasesLoadedKeeps == ResolverInv /\ AliasesLoaded => ResolverInv'
<1> SUFFICES ASSUME ResolverInv, AliasesLoaded PROVE ResolverInv'
  OBVIOUS
<1>1. /\ resolving = "aliases" /\ todo = {} /\ resolving' = "neighbors" /\ neighbors' = [id \in Ids |-> Unset]
      /\ todo' = Keys(neighborFile) /\ aliasFile' = aliasFile /\ neighborFile' = neighborFile /\ ids' = ids
      /\ names' = names /\ allocated' = allocated /\ aliases' = aliases /\ zeroed' = zeroed /\ input' = input
  BY DEF AliasesLoaded, files, canonicals
<1>2. DOMAIN aliases = Keys(aliasFile)
  BY <1>1 DEF ResolverInv
<1>3. Ids' = Ids
  BY <1>1 DEF Ids
<1>4. DOMAIN neighbors' = Ids' /\ \A id \in DOMAIN neighbors' : neighbors'[id] = Unset
  BY <1>1, <1>3
<1>5. DOMAIN aliases' = Keys(aliasFile') /\ todo' \subseteq Keys(neighborFile')
  BY <1>1, <1>2
<1>6. /\ Inverses(ids', names') /\ allocated' \in Nat /\ Len(names') < allocated'
      /\ \A t \in DOMAIN aliases' : Means(aliases'[t], aliasFile'[t], names')
      /\ aliasFile' \in AliasFiles /\ neighborFile' \in NeighborFiles /\ zeroed' \in BOOLEAN /\ IsList(input')
  BY <1>1 DEF ResolverInv
<1>7. QED
  BY <1>1, <1>4, <1>5, <1>6 DEF ResolverInv

LEMMA LoadNeighborsKeeps == ASSUME ResolverInv, NEW key, LoadNeighbors(key) PROVE ResolverInv'
<1>1. /\ resolving = "neighbors" /\ key \in todo /\ todo' = todo \ {key} /\ resolving' = resolving
      /\ aliasFile' = aliasFile /\ neighborFile' = neighborFile /\ ids' = ids /\ names' = names
      /\ allocated' = allocated /\ aliases' = aliases /\ zeroed' = zeroed /\ input' = input
  BY DEF LoadNeighbors, files, canonicals
<1>2. /\ neighborFile \in NeighborFiles /\ key \in Keys(neighborFile) /\ Inverses(ids, names) /\ DOMAIN neighbors = Ids
      /\ \A id \in DOMAIN neighbors : neighbors[id] # Unset => Near(neighbors[id], names)
      /\ todo \subseteq Keys(neighborFile) /\ DOMAIN aliases = Keys(aliasFile)
  BY <1>1 DEF ResolverInv
<1>3. PICK near, with : near = Cut(neighborFile[key]) /\ with = WithIds(near, ids)
  OBVIOUS
<1>4. IsList(near) /\ Len(near) <= NeighborLimit
  BY <1>2, <1>3, FilesHoldLists, CutIs
<1>5. Near(with, names)
  <2>1. /\ IsList(with) /\ DOMAIN with = DOMAIN near /\ Len(with) = Len(near)
        /\ \A n \in DOMAIN near :
             IF near[n].name \in ToSet(names)
             THEN with[n].id \in 0..Len(names) - 1 /\ names[with[n].id + 1] = near[n].name
             ELSE with[n].id = -1
    BY <1>2, <1>3, <1>4, Identified
  <2>2. \A n \in DOMAIN with : with[n].id \in (0..Len(names) - 1) \cup {-1}
    BY <2>1
  <2>3. \A e \in ToSet(with) : e.id \in (0..Len(names) - 1) \cup {-1}
    BY <2>2 DEF ToSet
  <2>4. QED
    BY <1>4, <2>1, <2>3 DEF Near
<1>6. neighbors' = IF key \in DOMAIN ids THEN [neighbors EXCEPT ![ids[key]] = with] ELSE neighbors
  BY <1>3 DEF LoadNeighbors
<1>7. DOMAIN neighbors' = Ids /\ \A id \in DOMAIN neighbors' : neighbors'[id] # Unset => Near(neighbors'[id], names)
  <2>1. CASE key \in DOMAIN ids
    <3>1. PICK i : i = ids[key]
      OBVIOUS
    <3>2. DOMAIN neighbors' = Ids /\ \A id \in Ids : neighbors'[id] = with \/ neighbors'[id] = neighbors[id]
      BY <1>2, <1>6, <2>1, <3>1
    <3>3. QED
      BY <1>2, <1>5, <3>2
  <2>2. CASE key \notin DOMAIN ids
    BY <1>2, <1>6, <2>2
  <2>3. QED
    BY <2>1, <2>2
<1>8. Ids' = Ids
  BY <1>1 DEF Ids
<1>9. DOMAIN neighbors' = Ids' /\ \A id \in DOMAIN neighbors' : neighbors'[id] # Unset => Near(neighbors'[id], names')
  BY <1>1, <1>7, <1>8
<1>10. DOMAIN aliases' = Keys(aliasFile') /\ todo' \subseteq Keys(neighborFile')
  BY <1>1, <1>2
<1>11. /\ Inverses(ids', names') /\ allocated' \in Nat /\ Len(names') < allocated'
       /\ \A t \in DOMAIN aliases' : Means(aliases'[t], aliasFile'[t], names')
       /\ aliasFile' \in AliasFiles /\ neighborFile' \in NeighborFiles /\ zeroed' \in BOOLEAN /\ IsList(input')
  BY <1>1 DEF ResolverInv
<1>12. QED
  BY <1>1, <1>9, <1>10, <1>11 DEF ResolverInv
LEMMA ResolverMoves ==
  /\ ResolverInv /\ NeighborsLoaded => ResolverInv'
  /\ \A in \in Inputs : ResolverInv /\ Resolve(in) => ResolverInv'
  /\ ResolverInv /\ UNCHANGED resolverVars => ResolverInv'
<1>1. ASSUME ResolverInv, aliasFile' = aliasFile, neighborFile' = neighborFile, ids' = ids, names' = names,
             allocated' = allocated, aliases' = aliases, neighbors' = neighbors, zeroed' = zeroed,
             resolving # "aliases", resolving' \in {"ready", "crashed"}, IsList(input')
      PROVE  ResolverInv'
  <2>1. Ids' = Ids
    BY <1>1 DEF Ids
  <2>2. DOMAIN neighbors' = Ids' /\ DOMAIN aliases' = Keys(aliasFile')
    BY <1>1, <2>1 DEF ResolverInv
  <2>3. QED
    BY <1>1, <2>2 DEF ResolverInv
<1>2. ResolverInv /\ NeighborsLoaded => ResolverInv'
  <2> SUFFICES ASSUME ResolverInv, NeighborsLoaded PROVE ResolverInv'
    OBVIOUS
  <2>1. /\ resolving = "neighbors" /\ resolving' = "ready" /\ aliasFile' = aliasFile /\ neighborFile' = neighborFile
        /\ ids' = ids /\ names' = names /\ allocated' = allocated /\ aliases' = aliases /\ neighbors' = neighbors
        /\ zeroed' = zeroed /\ input' = input
    BY DEF NeighborsLoaded, files, canonicals
  <2>2. IsList(input')
    BY <2>1 DEF ResolverInv
  <2>3. QED
    BY <1>1, <2>1, <2>2
<1>3. ASSUME ResolverInv, NEW in \in Inputs, Resolve(in) PROVE ResolverInv'
  <2>1. /\ resolving = "ready" /\ input' = in /\ resolving' \in {"ready", "crashed"} /\ aliasFile' = aliasFile
        /\ neighborFile' = neighborFile /\ ids' = ids /\ names' = names /\ allocated' = allocated
        /\ aliases' = aliases /\ neighbors' = neighbors /\ zeroed' = zeroed
    BY <1>3 DEF Resolve, files, canonicals
  <2>2. IsList(in)
    BY ResolverAssumption DEF ResolverAssumption, IsList
  <2>3. QED
    BY <1>1, <1>3, <2>1, <2>2
<1>4. ResolverInv /\ UNCHANGED resolverVars => ResolverInv'
  BY DEF ResolverInv, resolverVars, files, canonicals, Ids
<1>5. QED
  BY <1>2, <1>3, <1>4

LEMMA ResolverInvKept == ResolverInv /\ [NextResolver]_resolverVars => ResolverInv'
<1> SUFFICES ASSUME ResolverInv, [NextResolver]_resolverVars PROVE ResolverInv'
  OBVIOUS
<1>1. CASE \E key \in todo : LoadAlias(key) \/ LoadNeighbors(key)
  BY <1>1, LoadAliasKeeps, LoadNeighborsKeeps
<1>2. CASE AliasesLoaded
  BY <1>2, AliasesLoadedKeeps
<1>3. CASE NeighborsLoaded
  BY <1>3, ResolverMoves
<1>4. CASE \E in \in Inputs : Resolve(in)
  BY <1>4, ResolverMoves
<1>5. CASE UNCHANGED resolverVars
  BY <1>5, ResolverMoves
<1>6. QED
  BY <1>1, <1>2, <1>3, <1>4, <1>5 DEF NextResolver, Crashed

LEMMA CandidatesOfText ==
  ASSUME NEW table, NEW in, NEW at, NEW c
  PROVE  c \in ToSet(CandidatesAt(table, in, at)) <=>
           /\ in[at] \in DOMAIN table
           /\ \E n \in DOMAIN table[in[at]] :
                c = [id |-> table[in[at]][n].id, quality |-> table[in[at]][n].quality, at |-> at]
<1>1. CASE in[at] \in DOMAIN table
  <2>1. PICK e : e = table[in[at]]
    OBVIOUS
  <2>2. PICK s : s = [n \in DOMAIN e |-> [id |-> e[n].id, quality |-> e[n].quality, at |-> at]]
    OBVIOUS
  <2>3. CandidatesAt(table, in, at) = s
    BY <1>1, <2>1, <2>2 DEF CandidatesAt
  <2>4. c \in ToSet(s) <=> \E n \in DOMAIN e : c = [id |-> e[n].id, quality |-> e[n].quality, at |-> at]
    BY <2>2 DEF ToSet
  <2>5. QED
    BY <1>1, <2>1, <2>3, <2>4
<1>2. CASE in[at] \notin DOMAIN table
  <2>1. ToSet(<<>>) = {}
    BY NothingIsAList, Lists DEF ToSet
  <2>2. QED
    BY <1>2, <2>1 DEF CandidatesAt
<1>3. QED
  BY <1>1, <1>2

(* An id is the id of one name.                                            *)
LEMMA OneId ==
  ASSUME NEW number, NEW named, Inverses(number, named), NEW a \in 0..Len(named) - 1, NEW i \in 0..Len(named) - 1
  PROVE  (i = a) <=> (named[i + 1] = named[a + 1])
<1>1. PICK k : k = Len(named)
  OBVIOUS
<1>2. k \in Nat /\ \A j \in 1..k : number[named[j]] = j - 1
  BY <1>1, Lists DEF Inverses
<1>3. a + 1 \in 1..k /\ i + 1 \in 1..k
  BY <1>1, <1>2
<1>4. number[named[a + 1]] = a /\ number[named[i + 1]] = i
  <2>1. number[named[a + 1]] = (a + 1) - 1 /\ number[named[i + 1]] = (i + 1) - 1
    BY <1>2, <1>3
  <2>2. (a + 1) - 1 = a /\ (i + 1) - 1 = i
    BY <1>1, <1>2
  <2>3. QED
    BY <2>1, <2>2
<1>5. QED
  BY <1>4

(* Which texts of the input claim a concept, by its candidates.            *)
LEMMA ClaimantsAre ==
  ASSUME ResolverInv, resolving # "aliases", NEW a \in Ids, NEW t
  PROVE  t \in Claimants(names[a + 1]) <=>
           t \in ToSet(input) /\ t \in DOMAIN aliases /\ \E n \in DOMAIN aliases[t] : aliases[t][n].id = a
<1>1. PICK named, table, file, x : named = names /\ table = aliases /\ file = aliasFile /\ x = named[a + 1]
  OBVIOUS
<1>2. /\ Inverses(ids, named) /\ DOMAIN table = Keys(file) /\ a \in 0..Len(named) - 1
      /\ \A u \in DOMAIN table : Means(table[u], file[u], named)
  BY <1>1 DEF ResolverInv, Ids
<1>3. t \in Claimants(x) <=> t \in ToSet(input) /\ \E e \in Listed(t) : e.name = x
  BY DEF Claimants
<1>4. Listed(t) = IF t \in DOMAIN table THEN ToSet(file[t]) ELSE {}
  BY <1>1, <1>2 DEF Listed
<1>5. ASSUME t \in DOMAIN table
      PROVE  (\E e \in ToSet(file[t]) : e.name = x) <=> (\E n \in DOMAIN table[t] : table[t][n].id = a)
  <2>1. PICK entries, listed : entries = table[t] /\ listed = file[t]
    OBVIOUS
  <2>2. /\ DOMAIN entries = DOMAIN listed
        /\ \A n \in DOMAIN entries : entries[n].id \in 0..Len(named) - 1 /\ named[entries[n].id + 1] = listed[n].name
    BY <1>2, <1>5, <2>1 DEF Means
  <2>3. \A n \in DOMAIN entries : entries[n].id = a <=> listed[n].name = x
    <3>1. ASSUME NEW n \in DOMAIN entries PROVE entries[n].id = a <=> listed[n].name = x
      <4>1. PICK i : i = entries[n].id
        OBVIOUS
      <4>2. i \in 0..Len(named) - 1 /\ named[i + 1] = listed[n].name
        BY <2>2, <4>1
      <4>3. i = a <=> named[i + 1] = named[a + 1]
        BY <1>2, <4>2, OneId
      <4>4. QED
        BY <1>1, <4>1, <4>2, <4>3
    <3>2. QED
      BY <3>1
  <2>4. (\E e \in ToSet(listed) : e.name = x) <=> \E n \in DOMAIN entries : listed[n].name = x
    BY <2>2 DEF ToSet
  <2>5. QED
    BY <2>1, <2>3, <2>4
<1>6. QED
  BY <1>1, <1>3, <1>4, <1>5
LEMMA SeenAreIds ==
  ASSUME ResolverInv, resolving # "aliases", NEW a \in ToSet(Seen(input))
  PROVE  a \in Ids
<1>1. PICK in : in = input
  OBVIOUS
<1>2. IsList(in) /\ \A t \in DOMAIN aliases : Means(aliases[t], aliasFile[t], names)
  BY <1>1 DEF ResolverInv
<1>3. \A t \in DOMAIN aliases : IsList(aliases[t])
  BY <1>2 DEF Means
<1>4. /\ IsList(Candidates(in))
      /\ \A c : c \in ToSet(Candidates(in)) <=> \E at \in DOMAIN in : c \in ToSet(CandidatesAt(aliases, in, at))
  BY <1>2, <1>3, CandidatesAre
<1>5. PICK c \in ToSet(Candidates(in)) : a = c.id
  BY <1>1, <1>4, SeenAre
<1>6. PICK at \in DOMAIN in : c \in ToSet(CandidatesAt(aliases, in, at))
  BY <1>4
<1>7. in[at] \in DOMAIN aliases
  BY <1>6, CandidatesOfText
<1>8. PICK n \in DOMAIN aliases[in[at]] :
        c = [id |-> aliases[in[at]][n].id, quality |-> aliases[in[at]][n].quality, at |-> at]
  BY <1>6, CandidatesOfText
<1>9. a = aliases[in[at]][n].id
  BY <1>5, <1>8
<1>10. Means(aliases[in[at]], aliasFile[in[at]], names)
  BY <1>2, <1>7
<1>11. QED
  BY <1>9, <1>10 DEF Means, Ids

(* Two concepts share an origin where one text of the input claims both.   *)
LEMMA OriginsAre ==
  ASSUME ResolverInv, NEW a, NEW b
  PROVE  SameOrigin(input, a, b) <=>
           \E at \in DOMAIN input :
             /\ input[at] \in DOMAIN aliases
             /\ \E n \in DOMAIN aliases[input[at]] : aliases[input[at]][n].id = a
             /\ \E n \in DOMAIN aliases[input[at]] : aliases[input[at]][n].id = b
<1>1. PICK in, table : in = input /\ table = aliases
  OBVIOUS
<1>2. IsList(in) /\ \A t \in DOMAIN table : Means(table[t], aliasFile[t], names)
  BY <1>1 DEF ResolverInv
<1>3. \A t \in DOMAIN aliases : IsList(aliases[t])
  BY <1>1, <1>2 DEF Means
<1>4. \A c : c \in ToSet(Candidates(in)) <=> \E at \in DOMAIN in : c \in ToSet(CandidatesAt(table, in, at))
  BY <1>1, <1>2, <1>3, CandidatesAre
<1>5. ASSUME NEW c \in ToSet(Candidates(in))
      PROVE  /\ c.at \in DOMAIN in /\ in[c.at] \in DOMAIN table
             /\ \E n \in DOMAIN table[in[c.at]] : table[in[c.at]][n].id = c.id
  <2>1. PICK at \in DOMAIN in : c \in ToSet(CandidatesAt(table, in, at))
    BY <1>4
  <2>2. in[at] \in DOMAIN table
    BY <2>1, CandidatesOfText
  <2>3. PICK n \in DOMAIN table[in[at]] :
          c = [id |-> table[in[at]][n].id, quality |-> table[in[at]][n].quality, at |-> at]
    BY <2>1, CandidatesOfText
  <2>4. c.at = at /\ c.id = table[in[at]][n].id
    BY <2>3
  <2>5. QED
    BY <2>2, <2>4
<1>6. ASSUME NEW at \in DOMAIN in, in[at] \in DOMAIN table, NEW n \in DOMAIN table[in[at]]
      PROVE  \E c \in ToSet(Candidates(in)) : c.id = table[in[at]][n].id /\ c.at = at
  <2>1. PICK c : c = [id |-> table[in[at]][n].id, quality |-> table[in[at]][n].quality, at |-> at]
    OBVIOUS
  <2>2. c \in ToSet(CandidatesAt(table, in, at))
    BY <1>6, <2>1, CandidatesOfText
  <2>3. c \in ToSet(Candidates(in))
    BY <1>4, <2>2
  <2>4. c.id = table[in[at]][n].id /\ c.at = at
    BY <2>1
  <2>5. QED
    BY <2>3, <2>4
<1>7. ASSUME SameOrigin(in, a, b)
      PROVE  \E at \in DOMAIN in : /\ in[at] \in DOMAIN table
                                   /\ \E n \in DOMAIN table[in[at]] : table[in[at]][n].id = a
                                   /\ \E n \in DOMAIN table[in[at]] : table[in[at]][n].id = b
  <2>1. PICK p \in ToSet(Candidates(in)), q \in ToSet(Candidates(in)) : p.id = a /\ q.id = b /\ p.at = q.at
    BY <1>7 DEF SameOrigin
  <2>2. PICK at : at = p.at
    OBVIOUS
  <2>3. at \in DOMAIN in /\ in[at] \in DOMAIN table /\ \E n \in DOMAIN table[in[at]] : table[in[at]][n].id = a
    BY <1>5, <2>1, <2>2
  <2>4. \E n \in DOMAIN table[in[at]] : table[in[at]][n].id = b
    BY <1>5, <2>1, <2>2
  <2>5. QED
    BY <2>3, <2>4
<1>8. ASSUME NEW at \in DOMAIN in, in[at] \in DOMAIN table,
             \E n \in DOMAIN table[in[at]] : table[in[at]][n].id = a,
             \E n \in DOMAIN table[in[at]] : table[in[at]][n].id = b
      PROVE  SameOrigin(in, a, b)
  <2>1. PICK p \in ToSet(Candidates(in)) : p.id = a /\ p.at = at
    BY <1>6, <1>8
  <2>2. PICK q \in ToSet(Candidates(in)) : q.id = b /\ q.at = at
    BY <1>6, <1>8
  <2>3. QED
    BY <2>1, <2>2 DEF SameOrigin
<1>9. QED
  BY <1>1, <1>7, <1>8

LEMMA PointersTell == ResolverInv => PointersTellOrigins
<1> SUFFICES ASSUME ResolverInv PROVE PointersTellOrigins
  OBVIOUS
<1>1. /\ aliasFile \in AliasFiles /\ Inverses(ids, names) /\ IsList(names) /\ Len(names) < allocated
      /\ \A t \in DOMAIN aliases : Means(aliases[t], aliasFile[t], names)
  BY DEF ResolverInv, Inverses
<1>2. ResolverTypeOK
  <2>1. DOMAIN aliases \subseteq Keys(aliasFile)
    BY DEF ResolverInv
  <2>2. DOMAIN aliases \subseteq DOMAIN aliasFile
    BY <1>1, <2>1, FilesHoldLists
  <2>3. \A t \in DOMAIN aliases : \A e \in ToSet(aliases[t]) : e.id \in Ids
    BY <1>1 DEF Means, ToSet, Ids
  <2>4. DOMAIN neighbors \in {{}, Ids}
    BY DEF ResolverInv
  <2>5. \A id \in DOMAIN neighbors : neighbors[id] # Unset =>
          Len(neighbors[id]) <= NeighborLimit /\ \A e \in ToSet(neighbors[id]) : e.id \in Ids \cup {-1}
    BY DEF ResolverInv, Near, Ids
  <2>6. zeroed \in BOOLEAN /\ resolving \in {"aliases", "neighbors", "ready", "crashed"}
    BY DEF ResolverInv
  <2>7. QED
    BY <2>2, <2>3, <2>4, <2>5, <2>6 DEF ResolverTypeOK
<1>3. DOMAIN ids = ToSet(names) /\ \A id \in Ids : ids[names[id + 1]] = id
  <2>1. PICK k : k = Len(names)
    OBVIOUS
  <2>2. k \in Nat /\ DOMAIN ids = ToSet(names) /\ \A i \in 1..k : ids[names[i]] = i - 1
    BY <1>1, <2>1, Lists DEF Inverses
  <2>3. ASSUME NEW id \in Ids PROVE ids[names[id + 1]] = id
    <3>1. id + 1 \in 1..k /\ (id + 1) - 1 = id
      BY <2>1, <2>2 DEF Ids
    <3>2. ids[names[id + 1]] = (id + 1) - 1
      BY <2>2, <3>1
    <3>3. QED
      BY <3>1, <3>2
  <2>4. QED
    BY <2>2, <2>3
<1>4. ASSUME resolving = "ready", NEW a \in ToSet(Seen(input)), NEW b \in ToSet(Seen(input))
      PROVE  SameOrigin(input, a, b) <=> Claimants(names[a + 1]) \cap Claimants(names[b + 1]) # {}
  <2>1. a \in Ids /\ b \in Ids
    BY <1>4, SeenAreIds
  <2>2. \A t : t \in Claimants(names[a + 1]) <=>
                 t \in ToSet(input) /\ t \in DOMAIN aliases /\ \E n \in DOMAIN aliases[t] : aliases[t][n].id = a
    BY <1>4, <2>1, ClaimantsAre
  <2>3. \A t : t \in Claimants(names[b + 1]) <=>
                 t \in ToSet(input) /\ t \in DOMAIN aliases /\ \E n \in DOMAIN aliases[t] : aliases[t][n].id = b
    BY <1>4, <2>1, ClaimantsAre
  <2>4. SameOrigin(input, a, b) <=>
          \E at \in DOMAIN input :
             /\ input[at] \in DOMAIN aliases
             /\ \E n \in DOMAIN aliases[input[at]] : aliases[input[at]][n].id = a
             /\ \E n \in DOMAIN aliases[input[at]] : aliases[input[at]][n].id = b
    BY OriginsAre
  <2>5. \A t : t \in ToSet(input) <=> \E at \in DOMAIN input : t = input[at]
    BY DEF ToSet
  <2>6. SameOrigin(input, a, b) <=> \E t : t \in Claimants(names[a + 1]) /\ t \in Claimants(names[b + 1])
    BY <2>2, <2>3, <2>4, <2>5
  <2>7. QED
    BY <2>6
<1>5. QED
  BY <1>1, <1>2, <1>3, <1>4 DEF PointersTellOrigins

(* concept_resolver.cpp numbers the concepts one to one and always has     *)
(* room for another, whatever the files hold and in whatever order their   *)
(* records come; and resolve(), which compares pointers to texts that are  *)
(* not pooled, finds that two concepts share a text exactly when the alias *)
(* file lets some text of the input mean both.                             *)
THEOREM PointersAlwaysTell == SpecResolver => []PointersTellOrigins
<1>1. InitResolver => ResolverInv
  BY ResolverInitially
<1>2. ResolverInv /\ [NextResolver]_resolverVars => ResolverInv'
  BY ResolverInvKept
<1>3. ResolverInv => PointersTellOrigins
  BY PointersTell
<1>4. QED
  BY <1>1, <1>2, <1>3, PTL DEF SpecResolver

-----------------------------------------------------------------------------
(* WikipediaGraph: the folds of the load and of the reference.             *)

RedirectFolds(f, base, s, I) ==
  f = [S \in SUBSET I |-> IF S = {} THEN base ELSE WithRedirect(f[S \ {Max(S)}], s[Max(S)])]
OutlinkFolds(f, table, base, s, I) ==
  f = [S \in SUBSET I |-> IF S = {} THEN base ELSE AddToOutlinks(f[S \ {Max(S)}], table, s[Max(S)])]
InlinkFolds(f, table, base, s, I) ==
  f = [S \in SUBSET I |-> IF S = {} THEN base ELSE AddToInlinks(f[S \ {Max(S)}], table, s[Max(S)])]
WeightFolds(f, s, I) ==
  f = [S \in SUBSET I |-> IF S = {} THEN 0 ELSE AddWeight(f[S \ {Max(S)}], s[Max(S)])]
CostFolds(f, base, s, I) ==
  f = [S \in SUBSET I |-> IF S = {} THEN base ELSE LowerCosts(f[S \ {Max(S)}], s[Max(S)])]

OutlinksBy(table, base, s) == FoldLeft(LAMBDA links, r : AddToOutlinks(links, table, r), base, s)
InlinksBy(table, base, s) == FoldLeft(LAMBDA links, r : AddToInlinks(links, table, r), base, s)

LEMMA RedirectFold ==
  ASSUME NEW base, NEW s, NEW N \in Nat, DOMAIN s = 1..N
  PROVE  \E h : FoldsUpTo(h, "redirect", 0, base, s, N) /\ FoldLeft(WithRedirect, base, s) = h[N]
<1>1. PICK f : f = CHOOSE g : RedirectFolds(g, base, s, 1..N)
  OBVIOUS
<1>2. FoldLeft(WithRedirect, base, s) = f[1..N]
  BY <1>1 DEF FoldLeft, MapThenFoldSet, RedirectFolds
<1>3. ASSUME NEW g PROVE RedirectFolds(g, base, s, 1..N) <=> FoldsBy(g, "redirect", 0, base, s, 1..N)
  <2>1. \A x, e : Step("redirect", 0, x, e) = WithRedirect(x, e)
    BY StepIs
  <2>2. [S \in SUBSET (1..N) |-> IF S = {} THEN base ELSE WithRedirect(g[S \ {Max(S)}], s[Max(S)])]
          = [S \in SUBSET (1..N) |-> IF S = {} THEN base ELSE Step("redirect", 0, g[S \ {Max(S)}], s[Max(S)])]
    BY <2>1
  <2>3. QED
    BY <2>2 DEF RedirectFolds, FoldsBy
<1>4. FoldsBy(f, "redirect", 0, base, s, 1..N)
  BY <1>1, <1>3, FoldByExists
<1>5. QED
  BY <1>2, <1>4, FoldBySteps

LEMMA OutlinkFold ==
  ASSUME NEW table, NEW base, NEW s, NEW N \in Nat, DOMAIN s = 1..N
  PROVE  \E h : FoldsUpTo(h, "outlink", table, base, s, N) /\ OutlinksBy(table, base, s) = h[N]
<1>1. PICK f : f = CHOOSE g : OutlinkFolds(g, table, base, s, 1..N)
  OBVIOUS
<1>2. OutlinksBy(table, base, s) = f[1..N]
  BY <1>1 DEF OutlinksBy, FoldLeft, MapThenFoldSet, OutlinkFolds
<1>3. ASSUME NEW g PROVE OutlinkFolds(g, table, base, s, 1..N) <=> FoldsBy(g, "outlink", table, base, s, 1..N)
  <2>1. \A x, e : Step("outlink", table, x, e) = AddToOutlinks(x, table, e)
    BY StepIs
  <2>2. [S \in SUBSET (1..N) |-> IF S = {} THEN base ELSE AddToOutlinks(g[S \ {Max(S)}], table, s[Max(S)])]
          = [S \in SUBSET (1..N) |-> IF S = {} THEN base ELSE Step("outlink", table, g[S \ {Max(S)}], s[Max(S)])]
    BY <2>1
  <2>3. QED
    BY <2>2 DEF OutlinkFolds, FoldsBy
<1>4. FoldsBy(f, "outlink", table, base, s, 1..N)
  BY <1>1, <1>3, FoldByExists
<1>5. QED
  BY <1>2, <1>4, FoldBySteps

LEMMA InlinkFold ==
  ASSUME NEW table, NEW base, NEW s, NEW N \in Nat, DOMAIN s = 1..N
  PROVE  \E h : FoldsUpTo(h, "inlink", table, base, s, N) /\ InlinksBy(table, base, s) = h[N]
<1>1. PICK f : f = CHOOSE g : InlinkFolds(g, table, base, s, 1..N)
  OBVIOUS
<1>2. InlinksBy(table, base, s) = f[1..N]
  BY <1>1 DEF InlinksBy, FoldLeft, MapThenFoldSet, InlinkFolds
<1>3. ASSUME NEW g PROVE InlinkFolds(g, table, base, s, 1..N) <=> FoldsBy(g, "inlink", table, base, s, 1..N)
  <2>1. \A x, e : Step("inlink", table, x, e) = AddToInlinks(x, table, e)
    BY StepIs
  <2>2. [S \in SUBSET (1..N) |-> IF S = {} THEN base ELSE AddToInlinks(g[S \ {Max(S)}], table, s[Max(S)])]
          = [S \in SUBSET (1..N) |-> IF S = {} THEN base ELSE Step("inlink", table, g[S \ {Max(S)}], s[Max(S)])]
    BY <2>1
  <2>3. QED
    BY <2>2 DEF InlinkFolds, FoldsBy
<1>4. FoldsBy(f, "inlink", table, base, s, 1..N)
  BY <1>1, <1>3, FoldByExists
<1>5. QED
  BY <1>2, <1>4, FoldBySteps

LEMMA WeightFold ==
  ASSUME NEW s, NEW N \in Nat, DOMAIN s = 1..N
  PROVE  \E h : FoldsUpTo(h, "weight", inlinksOf, 0, s, N) /\ FoldLeft(AddWeight, 0, s) = h[N]
<1>1. PICK f : f = CHOOSE g : WeightFolds(g, s, 1..N)
  OBVIOUS
<1>2. FoldLeft(AddWeight, 0, s) = f[1..N]
  BY <1>1 DEF FoldLeft, MapThenFoldSet, WeightFolds
<1>3. ASSUME NEW g PROVE WeightFolds(g, s, 1..N) <=> FoldsBy(g, "weight", inlinksOf, 0, s, 1..N)
  <2>1. \A x, e : Step("weight", inlinksOf, x, e) = AddWeight(x, e)
    BY StepIs DEF AddWeight, PageWeight
  <2>2. [S \in SUBSET (1..N) |-> IF S = {} THEN 0 ELSE AddWeight(g[S \ {Max(S)}], s[Max(S)])]
          = [S \in SUBSET (1..N) |-> IF S = {} THEN 0 ELSE Step("weight", inlinksOf, g[S \ {Max(S)}], s[Max(S)])]
    BY <2>1
  <2>3. QED
    BY <2>2 DEF WeightFolds, FoldsBy
<1>4. FoldsBy(f, "weight", inlinksOf, 0, s, 1..N)
  BY <1>1, <1>3, FoldByExists
<1>5. QED
  BY <1>2, <1>4, FoldBySteps

LinkGraph(lines, ins, outs) == [lines |-> lines, ins |-> ins, outs |-> outs]

LEMMA CostFold ==
  ASSUME NEW g, g = LinkGraph(Lines, inlinksOf, outlinksOf), NEW base, NEW s, NEW N \in Nat, DOMAIN s = 1..N
  PROVE  \E h : FoldsUpTo(h, "costs", g, base, s, N) /\ FoldLeft(LowerCosts, base, s) = h[N]
<1>1. PICK f : f = CHOOSE k : CostFolds(k, base, s, 1..N)
  OBVIOUS
<1>2. FoldLeft(LowerCosts, base, s) = f[1..N]
  BY <1>1 DEF FoldLeft, MapThenFoldSet, CostFolds
<1>3. ASSUME NEW k PROVE CostFolds(k, base, s, 1..N) <=> FoldsBy(k, "costs", g, base, s, 1..N)
  <2>1. \A x, e : Step("costs", g, x, e) = LowerCosts(x, e)
    <3>1. ASSUME NEW x, NEW e PROVE CostsAfter(g, x) = LowerCosts(x, e)
      <4>1. g.lines = Lines /\ g.ins = inlinksOf /\ g.outs = outlinksOf
        BY DEF LinkGraph
      <4>2. QED
        BY <4>1 DEF CostsAfter, LowerCosts, PageWeight, ConnectedPages
    <3>2. QED
      BY <3>1, StepIs
  <2>2. [S \in SUBSET (1..N) |-> IF S = {} THEN base ELSE LowerCosts(k[S \ {Max(S)}], s[Max(S)])]
          = [S \in SUBSET (1..N) |-> IF S = {} THEN base ELSE Step("costs", g, k[S \ {Max(S)}], s[Max(S)])]
    BY <2>1
  <2>3. QED
    BY <2>2 DEF CostFolds, FoldsBy
<1>4. FoldsBy(f, "costs", g, base, s, 1..N)
  BY <1>1, <1>3, FoldByExists
<1>5. QED
  BY <1>2, <1>4, FoldBySteps

-----------------------------------------------------------------------------
(* WikipediaGraph: the search, over any table near of linked pages and any *)
(* weight of each.                                                         *)

Dearest(limit, links) == links * limit
Linked(lines, near, weight, limit) ==
  /\ limit \in Nat /\ Dearest(limit, LinkLimit + 1) < IntMax
  /\ \A p \in lines : near[p] \subseteq lines /\ weight[p] \in 0..limit
CostTo(from, dist, p) == IF p = from THEN 0 ELSE dist[p].distance
LinksTo(from, dist, p) == IF p = from THEN 0 ELSE dist[p].links

(* A page with a distance was reached from a page visited, at that page's  *)
(* cost and its own weight, and has kept it; and every page visited has    *)
(* been followed to all the pages it is linked with.                       *)
Reached(near, weight, limit, from, dist, prev, closed, p) ==
  /\ dist[p].distance \in Nat /\ dist[p].links \in 1..LinkLimit + 1
  /\ prev[p] \in closed /\ p \in near[prev[p]]
  /\ dist[p].distance = CostTo(from, dist, prev[p]) + weight[p]
  /\ dist[p].links = LinksTo(from, dist, prev[p]) + 1
  /\ dist[p].distance <= Dearest(limit, dist[p].links)
Explored(lines, near, weight, limit, from, target, dist, prev, closed) ==
  /\ from \in lines /\ target \in lines /\ closed \subseteq lines /\ target \notin closed
  /\ DOMAIN dist \subseteq lines /\ DOMAIN prev = DOMAIN dist
  /\ \A p \in DOMAIN dist : Reached(near, weight, limit, from, dist, prev, closed, p)
  /\ \A v \in closed : v = from \/ (v \in DOMAIN dist /\ dist[v].links <= LinkLimit)
  /\ from \notin closed => closed = {} /\ DOMAIN dist = {}
  /\ \A v \in closed : \A p \in near[v] :
       p \in DOMAIN dist /\ dist[p].distance <= CostTo(from, dist, v) + weight[p]

(* The queue holds every page reached that may be continued, each at its   *)
(* distance, and no page not yet visited that is cheaper than one that is. *)
Queued(from, dist, closed, q) ==
  \/ q.end \in DOMAIN dist /\ q.distance = dist[q.end].distance /\ dist[q.end].links <= LinkLimit
  \/ q = PathTo(from, 0, 0) /\ from \notin closed
Outstanding(from, dist, closed, paths, short) ==
  /\ from \notin closed => paths = {PathTo(from, 0, 0)}
  /\ \A q \in paths : Queued(from, dist, closed, q)
  /\ \A p \in DOMAIN dist \ closed : dist[p].links <= LinkLimit => \E q \in paths : q.end = p
  /\ \A v \in closed, p \in DOMAIN dist \ closed :
       dist[p].links <= LinkLimit => CostTo(from, dist, v) <= dist[p].distance
  /\ ~short => \A p \in DOMAIN dist : dist[p].links <= LinkLimit

LEMMA DearestGrows ==
  ASSUME NEW limit \in Nat, NEW n \in Nat
  PROVE  /\ Dearest(limit, n) \in Nat /\ Dearest(limit, n + 1) = Dearest(limit, n) + limit
         /\ Dearest(limit, 0) = 0
         /\ \A m \in 0..n : Dearest(limit, m) <= Dearest(limit, n)
<1>1. \A a, b \in Nat : a * b \in Nat
  OBVIOUS
<1>2. (n + 1) * limit = n * limit + limit /\ 0 * limit = 0
  OBVIOUS
<1>3. ASSUME NEW m \in 0..n PROVE m * limit <= n * limit
  <2>1. PICK d \in Nat : n = m + d
    <3>1. n - m \in Nat /\ n = m + (n - m)
      OBVIOUS
    <3>2. QED
      BY <3>1
  <2>2. n * limit = m * limit + d * limit /\ m \in Nat
    BY <2>1
  <2>3. m * limit \in Nat /\ d * limit \in Nat
    BY <1>1, <2>2
  <2>4. QED
    BY <2>2, <2>3
<1>4. QED
  BY <1>1, <1>2, <1>3 DEF Dearest

(* What the page taken from the queue costs.                               *)
LEMMA TakenPath ==
  ASSUME NEW lines, NEW near, NEW weight, NEW limit, Linked(lines, near, weight, limit), NEW from, NEW target,
         NEW dist, NEW prev, NEW closed, NEW paths, NEW short,
         Explored(lines, near, weight, limit, from, target, dist, prev, closed),
         Outstanding(from, dist, closed, paths, short),
         NEW path \in paths, \A q \in paths : path.distance <= q.distance,
         path.end \notin closed
  PROVE  /\ path.end \in lines /\ path.distance = CostTo(from, dist, path.end)
         /\ CostTo(from, dist, path.end) \in Nat /\ LinksTo(from, dist, path.end) \in 0..LinkLimit
         /\ CostTo(from, dist, path.end) <= Dearest(limit, LinksTo(from, dist, path.end))
         /\ path.end # from => path.end \in DOMAIN dist /\ from \in closed
         /\ path.end = from => closed = {} /\ DOMAIN dist = {}
         /\ \A v \in closed : CostTo(from, dist, v) <= CostTo(from, dist, path.end)
         /\ \A p \in DOMAIN dist \ closed :
              dist[p].links <= LinkLimit => CostTo(from, dist, path.end) <= dist[p].distance
<1>1. Queued(from, dist, closed, path)
  BY DEF Outstanding
<1>2. PathTo(from, 0, 0).end = from /\ PathTo(from, 0, 0).distance = 0
  BY DEF PathTo
<1>3. LinkLimit \in Nat /\ limit \in Nat
  BY ChainAssumption DEF Linked
<1>4. from \notin closed => path = PathTo(from, 0, 0) /\ closed = {} /\ DOMAIN dist = {}
  BY DEF Outstanding, Explored
<1>5. path.end = from => from \notin closed
  OBVIOUS
<1>6. path.end # from => from \in closed
  BY <1>2, <1>4
<1>7. path.end # from => /\ path.end \in DOMAIN dist /\ path.distance = dist[path.end].distance
                         /\ dist[path.end].links <= LinkLimit
  BY <1>1, <1>2, <1>6 DEF Queued
<1>8. ASSUME path.end # from
      PROVE  /\ dist[path.end].distance \in Nat /\ dist[path.end].links \in 1..LinkLimit + 1
             /\ dist[path.end].distance <= Dearest(limit, dist[path.end].links)
  BY <1>7, <1>8 DEF Explored, Reached
<1>9. path.end \in lines
  BY <1>5, <1>7 DEF Explored
<1>10. path.distance = CostTo(from, dist, path.end)
  BY <1>2, <1>4, <1>7 DEF CostTo
<1>11. CostTo(from, dist, path.end) \in Nat /\ LinksTo(from, dist, path.end) \in 0..LinkLimit
  BY <1>3, <1>7, <1>8 DEF CostTo, LinksTo
<1>12. CostTo(from, dist, path.end) <= Dearest(limit, LinksTo(from, dist, path.end))
  <2>1. 0 \in Nat /\ Dearest(limit, 0) = 0
    BY <1>3, DearestGrows
  <2>2. QED
    BY <1>8, <2>1 DEF CostTo, LinksTo
<1>13. ASSUME NEW v \in closed PROVE CostTo(from, dist, v) <= CostTo(from, dist, path.end)
  <2>1. path.end # from
    BY <1>4
  <2>2. CostTo(from, dist, path.end) = dist[path.end].distance
    BY <2>1 DEF CostTo
  <2>3. path.end \in DOMAIN dist \ closed /\ dist[path.end].links <= LinkLimit
    BY <1>7, <2>1
  <2>4. CostTo(from, dist, v) <= dist[path.end].distance
    BY <2>3 DEF Outstanding
  <2>5. QED
    BY <2>2, <2>4
<1>14. ASSUME NEW p \in DOMAIN dist \ closed, dist[p].links <= LinkLimit
       PROVE  CostTo(from, dist, path.end) <= dist[p].distance
  <2>1. PICK q \in paths : q.end = p
    BY <1>14 DEF Outstanding
  <2>2. from \in closed
    BY <1>4
  <2>3. q.distance = dist[p].distance
    BY <2>1, <2>2 DEF Outstanding, Queued
  <2>4. QED
    BY <1>10, <2>1, <2>3
<1>15. QED
  BY <1>4, <1>6, <1>7, <1>9, <1>10, <1>11, <1>12, <1>13, <1>14

(* A page that has a distance gets no shorter one, whatever is visited     *)
(* next; a page that has none always gets one.                             *)
LEMMA KnownCostsLess ==
  ASSUME NEW lines, NEW near, NEW weight, NEW limit, Linked(lines, near, weight, limit), NEW from, NEW target,
         NEW dist, NEW prev, NEW closed, NEW paths, NEW short,
         Explored(lines, near, weight, limit, from, target, dist, prev, closed),
         Outstanding(from, dist, closed, paths, short),
         NEW path \in paths, \A q \in paths : path.distance <= q.distance,
         path.end \notin closed,
         NEW c, c = CostTo(from, dist, path.end)
  PROVE  /\ \A p \in DOMAIN dist : dist[p].distance <= c + weight[p]
         /\ \A p \in near[path.end] :
              (c + weight[p] < IF p \in DOMAIN dist THEN dist[p].distance ELSE IntMax) <=> p \notin DOMAIN dist
<1>1. PICK l : l = LinksTo(from, dist, path.end)
  OBVIOUS
<1>2. /\ path.end \in lines /\ c \in Nat /\ l \in 0..LinkLimit /\ c <= Dearest(limit, l)
      /\ \A v \in closed : CostTo(from, dist, v) <= c
  BY <1>1, TakenPath
<1>3. LinkLimit \in Nat /\ IntMax \in Nat /\ limit \in Nat /\ \A p \in lines : weight[p] \in 0..limit
  BY ChainAssumption DEF Linked
<1>4. ASSUME NEW p \in DOMAIN dist PROVE dist[p].distance <= c + weight[p] /\ dist[p].distance \in Nat /\ p \in lines
  <2>1. Reached(near, weight, limit, from, dist, prev, closed, p) /\ p \in lines
    BY DEF Explored
  <2>2. dist[p].distance \in Nat /\ dist[p].distance = CostTo(from, dist, prev[p]) + weight[p] /\ prev[p] \in closed
    BY <2>1 DEF Reached
  <2>3. prev[p] = from \/ prev[p] \in DOMAIN dist
    BY <2>2 DEF Explored
  <2>4. CostTo(from, dist, prev[p]) \in Nat
    BY <2>3 DEF CostTo, Explored, Reached
  <2>5. CostTo(from, dist, prev[p]) <= c
    BY <1>2, <2>2
  <2>6. QED
    BY <1>2, <1>3, <2>1, <2>2, <2>4, <2>5
<1>5. ASSUME NEW p \in near[path.end] PROVE c + weight[p] \in Nat /\ c + weight[p] < IntMax
  <2>1. weight[p] \in 0..limit
    BY <1>2, <1>3 DEF Linked
  <2>2. Dearest(limit, l + 1) = Dearest(limit, l) + limit /\ Dearest(limit, l) \in Nat
    BY <1>2, <1>3, DearestGrows
  <2>3. Dearest(limit, l + 1) <= Dearest(limit, LinkLimit + 1) /\ Dearest(limit, LinkLimit + 1) \in Nat
    <3>1. LinkLimit + 1 \in Nat /\ l + 1 \in 0..LinkLimit + 1
      BY <1>2, <1>3
    <3>2. QED
      BY <1>3, <3>1, DearestGrows
  <2>4. Dearest(limit, LinkLimit + 1) < IntMax
    BY DEF Linked
  <2>5. QED
    BY <1>2, <1>3, <2>1, <2>2, <2>3, <2>4
<1>6. QED
  BY <1>2, <1>3, <1>4, <1>5

(* One page visited: it gives a distance to the pages it is linked with    *)
(* that had none, and sends all of them to the queue.                      *)
Visit(near, weight, from, dist, prev, closed, paths, short, path, dist2, prev2, closed2, paths2, short2) ==
  LET u == path.end
      added == near[u] \ DOMAIN dist
      over == {p \in near[u] : dist2[p].links > LinkLimit}
  IN  /\ closed2 = closed \cup {u}
      /\ DOMAIN dist2 = DOMAIN dist \cup added /\ DOMAIN prev2 = DOMAIN prev \cup added
      /\ \A p \in DOMAIN dist : dist2[p] = dist[p] /\ prev2[p] = prev[p]
      /\ \A p \in added : /\ dist2[p].distance = CostTo(from, dist, u) + weight[p]
                          /\ dist2[p].links = LinksTo(from, dist, u) + 1
                          /\ prev2[p] = u
      /\ paths2 = (paths \ {path}) \cup {PathTo(p, dist2[p].distance, dist2[p].links) : p \in near[u] \ over}
      /\ short2 = (short \/ over # {})

LEMMA VisitExplores ==
  ASSUME NEW lines, NEW near, NEW weight, NEW limit, Linked(lines, near, weight, limit), NEW from, NEW target,
         NEW dist, NEW prev, NEW closed, NEW paths, NEW short,
         Explored(lines, near, weight, limit, from, target, dist, prev, closed),
         Outstanding(from, dist, closed, paths, short),
         NEW path \in paths, \A q \in paths : path.distance <= q.distance,
         path.end \notin closed, path.end # target,
         NEW dist2, NEW prev2, NEW closed2, NEW paths2, NEW short2,
         Visit(near, weight, from, dist, prev, closed, paths, short, path, dist2, prev2, closed2, paths2, short2)
  PROVE  /\ Explored(lines, near, weight, limit, from, target, dist2, prev2, closed2)
         /\ Outstanding(from, dist2, closed2, paths2, short2)
<1>1. PICK u, c, l : u = path.end /\ c = CostTo(from, dist, u) /\ l = LinksTo(from, dist, u)
  OBVIOUS
<1>2. /\ u \in lines /\ path.distance = c /\ c \in Nat /\ l \in 0..LinkLimit /\ c <= Dearest(limit, l)
      /\ u # from => u \in DOMAIN dist /\ from \in closed
      /\ u = from => closed = {} /\ DOMAIN dist = {}
      /\ \A v \in closed : CostTo(from, dist, v) <= c
      /\ \A p \in DOMAIN dist \ closed : dist[p].links <= LinkLimit => c <= dist[p].distance
  BY <1>1, TakenPath
<1>3. PICK added, over : added = near[u] \ DOMAIN dist /\ over = {p \in near[u] : dist2[p].links > LinkLimit}
  OBVIOUS
<1>4. /\ closed2 = closed \cup {u}
      /\ DOMAIN dist2 = DOMAIN dist \cup added /\ DOMAIN prev2 = DOMAIN prev \cup added
      /\ \A p \in DOMAIN dist : dist2[p] = dist[p] /\ prev2[p] = prev[p]
      /\ \A p \in added : dist2[p].distance = c + weight[p] /\ dist2[p].links = l + 1 /\ prev2[p] = u
      /\ paths2 = (paths \ {path}) \cup {PathTo(p, dist2[p].distance, dist2[p].links) : p \in near[u] \ over}
      /\ short2 = (short \/ over # {})
  BY <1>1, <1>3 DEF Visit
<1>5. LinkLimit \in Nat /\ limit \in Nat /\ near[u] \subseteq lines /\ added \subseteq lines
      /\ \A p \in lines : weight[p] \in 0..limit
  BY <1>2, <1>3, ChainAssumption DEF Linked
<1>6. \A v \in closed2 : CostTo(from, dist2, v) = CostTo(from, dist, v) /\ LinksTo(from, dist2, v) = LinksTo(from, dist, v)
  <2>1. \A v \in closed2 : v = from \/ v \in DOMAIN dist
    BY <1>2, <1>4 DEF Explored
  <2>2. QED
    BY <1>4, <2>1 DEF CostTo, LinksTo
<1>7. CostTo(from, dist2, u) = c /\ LinksTo(from, dist2, u) = l /\ u \in closed2 /\ from \in closed2
  BY <1>1, <1>2, <1>4, <1>6
<1>8. ASSUME NEW p \in DOMAIN dist PROVE Reached(near, weight, limit, from, dist2, prev2, closed2, p)
  <2>1. Reached(near, weight, limit, from, dist, prev, closed, p)
    BY DEF Explored
  <2>2. prev[p] \in closed2 /\ dist2[p] = dist[p] /\ prev2[p] = prev[p]
    BY <1>4, <2>1 DEF Reached
  <2>3. CostTo(from, dist2, prev[p]) = CostTo(from, dist, prev[p]) /\ LinksTo(from, dist2, prev[p]) = LinksTo(from, dist, prev[p])
    BY <1>6, <2>2
  <2>4. QED
    BY <2>1, <2>2, <2>3 DEF Reached
<1>9. ASSUME NEW p \in added PROVE Reached(near, weight, limit, from, dist2, prev2, closed2, p)
  <2>1. weight[p] \in 0..limit /\ p \in near[u]
    BY <1>3, <1>5
  <2>2. dist2[p].distance = c + weight[p] /\ dist2[p].links = l + 1 /\ prev2[p] = u
    BY <1>4
  <2>3. Dearest(limit, l + 1) = Dearest(limit, l) + limit /\ Dearest(limit, l) \in Nat
    BY <1>2, <1>5, DearestGrows
  <2>4. c + weight[p] \in Nat /\ c + weight[p] <= Dearest(limit, l + 1) /\ l + 1 \in 1..LinkLimit + 1
    BY <1>2, <1>5, <2>1, <2>3
  <2>5. QED
    BY <1>7, <2>1, <2>2, <2>4 DEF Reached
<1>10. \A v \in closed2 : v = from \/ (v \in DOMAIN dist2 /\ dist2[v].links <= LinkLimit)
  <2>1. \A v \in closed : v = from \/ (v \in DOMAIN dist2 /\ dist2[v].links <= LinkLimit)
    BY <1>4 DEF Explored
  <2>2. u # from => u \in DOMAIN dist2 /\ dist2[u].links <= LinkLimit
    <3>1. u # from => dist[u].links = l
      BY <1>1 DEF LinksTo
    <3>2. QED
      BY <1>2, <1>4, <1>5, <3>1
  <2>3. QED
    BY <1>4, <2>1, <2>2
<1>11. ASSUME NEW v \in closed2, NEW p \in near[v]
       PROVE  p \in DOMAIN dist2 /\ dist2[p].distance <= CostTo(from, dist2, v) + weight[p]
  <2>1. CASE v \in closed
    BY <1>4, <1>6, <2>1 DEF Explored
  <2>2. CASE v = u /\ p \in added
    <3>1. dist2[p].distance = c + weight[p] /\ weight[p] \in 0..limit
      BY <1>4, <1>5, <2>2
    <3>2. QED
      BY <1>2, <1>4, <1>7, <2>2, <3>1
  <2>3. CASE v = u /\ p \in DOMAIN dist
    <3>1. dist[p].distance <= c + weight[p]
      BY <1>1, <2>3, KnownCostsLess
    <3>2. QED
      BY <1>4, <1>7, <2>3, <3>1
  <2>4. QED
    BY <1>3, <1>4, <2>1, <2>2, <2>3
<1>12. Explored(lines, near, weight, limit, from, target, dist2, prev2, closed2)
  <2>1. from \in lines /\ target \in lines /\ closed2 \subseteq lines /\ target \notin closed2
    BY <1>1, <1>2, <1>4 DEF Explored
  <2>2. DOMAIN dist2 \subseteq lines /\ DOMAIN prev2 = DOMAIN dist2
    BY <1>4, <1>5 DEF Explored
  <2>3. \A p \in DOMAIN dist2 : Reached(near, weight, limit, from, dist2, prev2, closed2, p)
    BY <1>4, <1>8, <1>9
  <2>4. QED
    BY <1>7, <1>10, <1>11, <2>1, <2>2, <2>3 DEF Explored
<1>13. \A p \in over : dist2[p].links > LinkLimit /\ p \in near[u]
  BY <1>3
<1>14. \A p \in near[u] : p \in DOMAIN dist2 /\ dist2[p].links \in 1..LinkLimit + 1
  <2>1. \A p \in near[u] : p \in DOMAIN dist2
    BY <1>3, <1>4
  <2>2. QED
    BY <1>12, <2>1 DEF Explored, Reached
<1>15. ASSUME NEW q \in paths2 PROVE Queued(from, dist2, closed2, q)
  <2>1. CASE q \in paths
    <3>1. Queued(from, dist, closed, q)
      BY <2>1 DEF Outstanding
    <3>2. CASE q.end \in DOMAIN dist /\ q.distance = dist[q.end].distance /\ dist[q.end].links <= LinkLimit
      BY <1>4, <3>2 DEF Queued
    <3>3. CASE q = PathTo(from, 0, 0) /\ from \notin closed
      <4>1. paths = {PathTo(from, 0, 0)} /\ path = q
        BY <3>3 DEF Outstanding
      <4>2. q \in {PathTo(p, dist2[p].distance, dist2[p].links) : p \in near[u] \ over}
        BY <1>4, <4>1
      <4>3. PICK p \in near[u] \ over : q = PathTo(p, dist2[p].distance, dist2[p].links)
        BY <4>2
      <4>4. q.end = p /\ q.distance = dist2[p].distance
        BY <4>3 DEF PathTo
      <4>5. dist2[p].links <= LinkLimit
        BY <1>3, <1>5, <1>14, <4>3
      <4>6. QED
        BY <1>14, <4>3, <4>4, <4>5 DEF Queued
    <3>4. QED
      BY <3>1, <3>2, <3>3 DEF Queued
  <2>2. CASE q \notin paths
    <3>1. PICK p \in near[u] \ over : q = PathTo(p, dist2[p].distance, dist2[p].links)
      BY <1>4, <2>2
    <3>2. q.end = p /\ q.distance = dist2[p].distance
      BY <3>1 DEF PathTo
    <3>3. dist2[p].links <= LinkLimit
      BY <1>3, <1>5, <1>14, <3>1
    <3>4. QED
      BY <1>14, <3>1, <3>2, <3>3 DEF Queued
  <2>3. QED
    BY <2>1, <2>2
<1>16. ASSUME NEW p \in DOMAIN dist2 \ closed2, dist2[p].links <= LinkLimit
       PROVE  \E q \in paths2 : q.end = p
  <2>1. CASE p \in added
    <3>1. p \in near[u] \ over
      BY <1>3, <1>5, <1>14, <1>16, <2>1
    <3>2. PICK q : q = PathTo(p, dist2[p].distance, dist2[p].links)
      OBVIOUS
    <3>3. q \in paths2 /\ q.end = p
      <4>1. q.end = p
        BY <3>2 DEF PathTo
      <4>2. QED
        BY <1>4, <3>1, <3>2, <4>1
    <3>4. QED
      BY <3>3
  <2>2. CASE p \in DOMAIN dist
    <3>1. dist[p].links <= LinkLimit /\ p \in DOMAIN dist \ closed /\ p # u
      BY <1>4, <1>16, <2>2
    <3>2. PICK q \in paths : q.end = p
      BY <3>1 DEF Outstanding
    <3>3. q # path
      BY <1>1, <3>1, <3>2
    <3>4. QED
      BY <1>4, <3>2, <3>3
  <2>3. QED
    BY <1>4, <2>1, <2>2
<1>17. ASSUME NEW v \in closed2, NEW p \in DOMAIN dist2 \ closed2, dist2[p].links <= LinkLimit
       PROVE  CostTo(from, dist2, v) <= dist2[p].distance
  <2>1. CostTo(from, dist2, v) = CostTo(from, dist, v) /\ CostTo(from, dist, v) <= c
    BY <1>1, <1>2, <1>4, <1>6
  <2>2. CostTo(from, dist2, v) \in Nat
    <3>1. v = from \/ v \in DOMAIN dist2
      BY <1>10
    <3>2. QED
      BY <1>12, <3>1 DEF CostTo, Explored, Reached
  <2>3. CASE p \in added
    <3>1. dist2[p].distance = c + weight[p] /\ weight[p] \in 0..limit
      BY <1>4, <1>5, <2>3
    <3>2. QED
      BY <1>2, <1>5, <2>1, <2>2, <3>1
  <2>4. CASE p \in DOMAIN dist
    <3>1. p \in DOMAIN dist \ closed /\ dist[p].links <= LinkLimit /\ dist2[p] = dist[p] /\ dist[p].distance \in Nat
      BY <1>4, <1>17, <2>4 DEF Explored, Reached
    <3>2. c <= dist[p].distance
      BY <1>2, <3>1
    <3>3. QED
      BY <1>2, <2>1, <2>2, <3>1, <3>2
  <2>5. QED
    BY <1>4, <2>3, <2>4
<1>18. ASSUME ~short2, NEW p \in DOMAIN dist2 PROVE dist2[p].links <= LinkLimit
  <2>1. ~short /\ over = {}
    BY <1>4, <1>18
  <2>2. CASE p \in DOMAIN dist
    BY <1>4, <2>1, <2>2 DEF Outstanding
  <2>3. CASE p \in added
    BY <1>3, <1>5, <1>14, <2>1, <2>3
  <2>4. QED
    BY <1>4, <2>2, <2>3
<1>19. QED
  BY <1>7, <1>12, <1>15, <1>16, <1>17, <1>18 DEF Outstanding

(* When the search ends, what it has not visited is no cheaper than the    *)
(* page it looked for.                                                     *)
ReachedAt(target, dist) == IF target \in DOMAIN dist THEN dist[target].distance ELSE IntMax
Settled(from, target, dist, closed, short) ==
  from # target /\ ~short =>
    /\ from \in closed
    /\ \A p \in DOMAIN dist \ closed : dist[p].distance >= ReachedAt(target, dist)
    /\ \A v \in closed : CostTo(from, dist, v) <= ReachedAt(target, dist)

LEMMA CostsAreSmall ==
  ASSUME NEW lines, NEW near, NEW weight, NEW limit, Linked(lines, near, weight, limit), NEW from, NEW target,
         NEW dist, NEW prev, NEW closed,
         Explored(lines, near, weight, limit, from, target, dist, prev, closed)
  PROVE  /\ \A p \in DOMAIN dist : dist[p].distance \in Nat /\ dist[p].distance < IntMax
         /\ \A v \in closed : CostTo(from, dist, v) \in Nat /\ CostTo(from, dist, v) < IntMax
         /\ ReachedAt(target, dist) \in Nat /\ ReachedAt(target, dist) <= IntMax
         /\ \A v \in closed \cap DOMAIN dist : CostTo(from, dist, v) <= dist[v].distance
<1>1. LinkLimit \in Nat /\ IntMax \in Nat /\ limit \in Nat /\ Dearest(limit, LinkLimit + 1) < IntMax
  BY ChainAssumption DEF Linked
<1>2. /\ Dearest(limit, LinkLimit + 1) \in Nat
      /\ \A m \in 1..LinkLimit + 1 : Dearest(limit, m) <= Dearest(limit, LinkLimit + 1) /\ Dearest(limit, m) \in Nat
  <2>1. LinkLimit + 1 \in Nat
    BY <1>1
  <2>2. \A m \in 1..LinkLimit + 1 : m \in Nat /\ m \in 0..LinkLimit + 1
    BY <1>1
  <2>3. QED
    BY <1>1, <2>1, <2>2, DearestGrows
<1>3. ASSUME NEW p \in DOMAIN dist PROVE dist[p].distance \in Nat /\ dist[p].distance < IntMax
  <2>1. /\ dist[p].distance \in Nat /\ dist[p].links \in 1..LinkLimit + 1
        /\ dist[p].distance <= Dearest(limit, dist[p].links)
    BY DEF Explored, Reached
  <2>2. QED
    BY <1>1, <1>2, <2>1
<1>4. IntMax > 0
  BY <1>1, <1>2
<1>5. \A v \in closed : v = from \/ v \in DOMAIN dist
  BY DEF Explored
<1>6. QED
  BY <1>1, <1>3, <1>4, <1>5 DEF CostTo, ReachedAt

LEMMA TargetTaken ==
  ASSUME NEW lines, NEW near, NEW weight, NEW limit, Linked(lines, near, weight, limit), NEW from, NEW target,
         NEW dist, NEW prev, NEW closed, NEW paths, NEW short,
         Explored(lines, near, weight, limit, from, target, dist, prev, closed),
         Outstanding(from, dist, closed, paths, short),
         NEW path \in paths, \A q \in paths : path.distance <= q.distance, path.end = target
  PROVE  Settled(from, target, dist, closed, short)
<1>1. SUFFICES ASSUME from # target, ~short
      PROVE  /\ from \in closed
             /\ \A p \in DOMAIN dist \ closed : dist[p].distance >= ReachedAt(target, dist)
             /\ \A v \in closed : CostTo(from, dist, v) <= ReachedAt(target, dist)
  BY DEF Settled
<1>2. path.end \notin closed
  BY DEF Explored
<1>3. PICK c : c = CostTo(from, dist, target)
  OBVIOUS
<1>4. /\ target \in DOMAIN dist /\ from \in closed /\ c \in Nat
      /\ \A v \in closed : CostTo(from, dist, v) <= c
      /\ \A p \in DOMAIN dist \ closed : dist[p].links <= LinkLimit => c <= dist[p].distance
  BY <1>1, <1>2, <1>3, TakenPath
<1>5. ReachedAt(target, dist) = c
  BY <1>1, <1>3, <1>4 DEF ReachedAt, CostTo
<1>6. \A p \in DOMAIN dist : dist[p].links <= LinkLimit /\ dist[p].distance \in Nat
  BY <1>1 DEF Outstanding, Explored, Reached
<1>7. QED
  BY <1>4, <1>5, <1>6

LEMMA NothingLeft ==
  ASSUME NEW lines, NEW near, NEW weight, NEW limit, Linked(lines, near, weight, limit), NEW from, NEW target,
         NEW dist, NEW prev, NEW closed, NEW paths, NEW short,
         Explored(lines, near, weight, limit, from, target, dist, prev, closed),
         Outstanding(from, dist, closed, paths, short), paths = {}
  PROVE  Settled(from, target, dist, closed, short)
<1>1. SUFFICES ASSUME from # target, ~short
      PROVE  /\ from \in closed
             /\ \A p \in DOMAIN dist \ closed : dist[p].distance >= ReachedAt(target, dist)
             /\ \A v \in closed : CostTo(from, dist, v) <= ReachedAt(target, dist)
  BY DEF Settled
<1>2. from \in closed
  BY DEF Outstanding
<1>3. DOMAIN dist \ closed = {}
  BY <1>1 DEF Outstanding
<1>4. target \notin DOMAIN dist
  BY <1>3 DEF Explored
<1>5. ReachedAt(target, dist) = IntMax
  BY <1>4 DEF ReachedAt
<1>6. \A v \in closed : CostTo(from, dist, v) \in Nat /\ CostTo(from, dist, v) < IntMax /\ IntMax \in Nat
  BY CostsAreSmall, ChainAssumption
<1>7. QED
  BY <1>2, <1>3, <1>5, <1>6

(* Relaxing all pages at once, any number of times, finds no walk to the   *)
(* target that costs less.                                                 *)
Lowered(lines, near, weight, costs) ==
  [p \in lines |-> Min({costs[p]} \cup {costs[q] + weight[p] : q \in near[p]})]
NoCheaper(lines, from, target, dist, closed, costs) ==
  \A p \in lines : /\ costs[p] \in Nat
                   /\ p \in closed => CostTo(from, dist, p) <= costs[p]
                   /\ p \notin closed => ReachedAt(target, dist) <= costs[p]

LEMMA StartNoCheaper ==
  ASSUME NEW lines, NEW near, NEW weight, NEW limit, Linked(lines, near, weight, limit), NEW from, NEW target,
         NEW dist, NEW prev, NEW closed,
         Explored(lines, near, weight, limit, from, target, dist, prev, closed),
         Settled(from, target, dist, closed, FALSE), from # target,
         NEW costs, costs = [p \in lines |-> IF p = from THEN 0 ELSE IntMax]
  PROVE  NoCheaper(lines, from, target, dist, closed, costs)
<1>1. /\ \A v \in closed : CostTo(from, dist, v) \in Nat /\ CostTo(from, dist, v) < IntMax
      /\ ReachedAt(target, dist) \in Nat /\ ReachedAt(target, dist) <= IntMax
  BY CostsAreSmall
<1>2. from \in closed /\ IntMax \in Nat
  BY ChainAssumption DEF Settled
<1>3. CostTo(from, dist, from) = 0
  BY DEF CostTo
<1>4. QED
  BY <1>1, <1>2, <1>3 DEF NoCheaper

LEMMA LoweredNoCheaper ==
  ASSUME NEW lines, NEW near, NEW weight, NEW limit, Linked(lines, near, weight, limit), NEW from, NEW target,
         \A p, q \in lines : q \in near[p] => p \in near[q],
         NEW dist, NEW prev, NEW closed,
         Explored(lines, near, weight, limit, from, target, dist, prev, closed),
         Settled(from, target, dist, closed, FALSE), from # target,
         NEW costs, NoCheaper(lines, from, target, dist, closed, costs)
  PROVE  NoCheaper(lines, from, target, dist, closed, Lowered(lines, near, weight, costs))
<1>1. PICK D : D = ReachedAt(target, dist)
  OBVIOUS
<1>2. /\ \A p \in DOMAIN dist : dist[p].distance \in Nat
      /\ \A v \in closed : CostTo(from, dist, v) \in Nat
      /\ D \in Nat
      /\ \A v \in closed \cap DOMAIN dist : CostTo(from, dist, v) <= dist[v].distance
  BY <1>1, CostsAreSmall
<1>3. /\ from \in closed
      /\ \A p \in DOMAIN dist \ closed : dist[p].distance >= D
      /\ \A v \in closed : CostTo(from, dist, v) <= D
  BY <1>1 DEF Settled
<1>4. ASSUME NEW p \in lines
      PROVE  LET low == Lowered(lines, near, weight, costs)[p]
             IN  /\ low \in Nat
                 /\ p \in closed => CostTo(from, dist, p) <= low
                 /\ p \notin closed => D <= low
  <2>1. PICK bound : bound = IF p \in closed THEN CostTo(from, dist, p) ELSE D
    OBVIOUS
  <2>2. bound \in Nat /\ bound <= D
    BY <1>2, <1>3, <2>1
  <2>3. PICK S : S = {costs[p]} \cup {costs[q] + weight[p] : q \in near[p]}
    OBVIOUS
  <2>4. weight[p] \in Nat /\ near[p] \subseteq lines
    BY DEF Linked
  <2>5. costs[p] \in Nat /\ bound <= costs[p]
    BY <1>1, <2>1 DEF NoCheaper
  <2>6. ASSUME NEW q \in near[p] PROVE costs[q] + weight[p] \in Nat /\ bound <= costs[q] + weight[p]
    <3>1. q \in lines /\ costs[q] \in Nat
      BY <2>4 DEF NoCheaper
    <3>2. CASE q \notin closed
      <4>1. D <= costs[q]
        BY <1>1, <3>1, <3>2 DEF NoCheaper
      <4>2. QED
        BY <1>2, <2>2, <2>4, <3>1, <4>1
    <3>3. CASE q \in closed
      <4>1. CostTo(from, dist, q) <= costs[q] /\ CostTo(from, dist, q) \in Nat
        BY <1>2, <3>1, <3>3 DEF NoCheaper
      <4>2. p \in near[q]
        BY <3>1
      <4>3. p \in DOMAIN dist /\ dist[p].distance <= CostTo(from, dist, q) + weight[p]
        BY <3>3, <4>2 DEF Explored
      <4>4. bound <= dist[p].distance
        BY <1>2, <1>3, <2>1, <4>3
      <4>5. QED
        BY <1>2, <2>2, <2>4, <3>1, <4>1, <4>3, <4>4
    <3>4. QED
      BY <3>2, <3>3
  <2>7. S \subseteq Nat /\ S # {} /\ \A y \in S : bound <= y
    BY <2>3, <2>5, <2>6
  <2>8. \E x \in S : \A y \in S : x <= y
    BY <2>7, LeastNumber
  <2>9. Min(S) \in S
    BY <2>8 DEF Min
  <2>10. Lowered(lines, near, weight, costs)[p] = Min(S)
    BY <2>3 DEF Lowered
  <2>11. QED
    BY <2>1, <2>7, <2>9, <2>10
<1>5. QED
  BY <1>1, <1>4 DEF NoCheaper

-----------------------------------------------------------------------------
(* WikipediaGraph: what the load leaves.                                   *)

NearIn(lines, ins, outs) == [p \in lines |-> ToSet(ins[p] \o outs[p])]
WeightIn(lines, ins) == [p \in lines |-> Len(ins[p])]

(* Every link is at both of its ends, and no page has more than there are. *)
BothEnds(lines, n, ins, outs) ==
  /\ ins \in [lines -> Seq(lines)] /\ outs \in [lines -> Seq(lines)]
  /\ \A p \in lines : Len(ins[p]) <= n
  /\ \A p, q \in lines : q \in ToSet(ins[p]) <=> p \in ToSet(outs[q])

LEMMA LeastCostsHold ==
  ASSUME NEW n \in Nat, Lines = 1..n,
         NEW near, near = NearIn(Lines, inlinksOf, outlinksOf), NEW weight, weight = WeightIn(Lines, inlinksOf),
         NEW limit, Linked(Lines, near, weight, limit), \A p, q \in Lines : q \in near[p] => p \in near[q],
         NEW from, NEW target, NEW dist, NEW prev, NEW closed,
         Explored(Lines, near, weight, limit, from, target, dist, prev, closed),
         Settled(from, target, dist, closed, FALSE), from # target
  PROVE  ReachedAt(target, dist) <= LeastCosts(from)[target] /\ LeastCosts(from)[target] \in Nat
<1>1. PICK g, base, s : /\ g = LinkGraph(Lines, inlinksOf, outlinksOf)
                        /\ base = [p \in Lines |-> IF p = from THEN 0 ELSE IntMax]
                        /\ s = [round \in Lines |-> round]
  OBVIOUS
<1>2. LeastCosts(from) = FoldLeft(LowerCosts, base, s)
  BY <1>1 DEF LeastCosts
<1>3. PICK h : FoldsUpTo(h, "costs", g, base, s, n) /\ FoldLeft(LowerCosts, base, s) = h[n]
  <2>1. DOMAIN s = 1..n
    BY <1>1
  <2>2. g = LinkGraph(Lines, inlinksOf, outlinksOf)
    BY <1>1
  <2>3. QED
    BY <2>1, <2>2, CostFold
<1>4. ASSUME NEW costs PROVE CostsAfter(g, costs) = Lowered(Lines, near, weight, costs)
  <2>1. g.lines = Lines /\ g.ins = inlinksOf /\ g.outs = outlinksOf
    BY <1>1 DEF LinkGraph
  <2>2. \A p \in Lines : near[p] = ToSet(inlinksOf[p] \o outlinksOf[p]) /\ weight[p] = Len(inlinksOf[p])
    BY DEF NearIn, WeightIn
  <2>3. \A p \in Lines : {costs[q] + Len(inlinksOf[p]) : q \in ToSet(inlinksOf[p] \o outlinksOf[p])}
                           = {costs[q] + weight[p] : q \in near[p]}
    BY <2>2
  <2>4. CostsAfter(g, costs)
          = [p \in Lines |-> Min({costs[p]} \cup {costs[q] + Len(inlinksOf[p]) :
                                                  q \in ToSet(inlinksOf[p] \o outlinksOf[p])})]
    BY <2>1 DEF CostsAfter
  <2>5. \A p \in Lines :
          Min({costs[p]} \cup {costs[q] + Len(inlinksOf[p]) : q \in ToSet(inlinksOf[p] \o outlinksOf[p])})
            = Min({costs[p]} \cup {costs[q] + weight[p] : q \in near[p]})
    BY <2>3, Zenon
  <2>6. QED
    BY <2>4, <2>5 DEF Lowered
<1>5. h[0] = base /\ \A k \in 0..n - 1 : h[k + 1] = Lowered(Lines, near, weight, h[k])
  BY <1>3, <1>4, StepIs DEF FoldsUpTo
<1>6. PICK T : T = {k \in Nat : k <= n => NoCheaper(Lines, from, target, dist, closed, h[k])}
  OBVIOUS
<1>7. 0 \in T
  <2>1. NoCheaper(Lines, from, target, dist, closed, base)
    <3>1. base = [p \in Lines |-> IF p = from THEN 0 ELSE IntMax]
      BY <1>1
    <3>2. QED
      BY <3>1, StartNoCheaper
  <2>2. NoCheaper(Lines, from, target, dist, closed, h[0])
    BY <1>1, <1>5, <2>1
  <2>3. QED
    BY <1>6, <2>2
<1>8. ASSUME NEW k \in T PROVE k + 1 \in T
  <2>1. k \in Nat
    BY <1>6
  <2>2. CASE k + 1 <= n
    <3>1. k \in 0..n - 1 /\ k <= n
      BY <2>1, <2>2
    <3>2. NoCheaper(Lines, from, target, dist, closed, h[k])
      BY <1>6, <3>1
    <3>3. NoCheaper(Lines, from, target, dist, closed, Lowered(Lines, near, weight, h[k]))
      BY <3>2, LoweredNoCheaper
    <3>4. QED
      BY <1>5, <1>6, <2>1, <3>1, <3>3
  <2>3. QED
    BY <1>6, <2>1, <2>2
<1>9. T = Nat
  BY <1>6, <1>7, <1>8, Induction
<1>10. NoCheaper(Lines, from, target, dist, closed, h[n])
  BY <1>6, <1>9
<1>11. target \in Lines /\ target \notin closed
  BY DEF Explored
<1>12. QED
  BY <1>2, <1>3, <1>10, <1>11 DEF NoCheaper

LEMMA BothEndsKept ==
  ASSUME NEW lines, NEW n \in Nat, NEW ins, NEW outs, BothEnds(lines, n, ins, outs),
         NEW table, NEW r, table[r.first] \in lines, table[r.second] \in lines
  PROVE  BothEnds(lines, n + 1, AddToInlinks(ins, table, r), AddToOutlinks(outs, table, r))
<1>1. PICK a, b, ins2, outs2 : /\ a = table[r.first] /\ b = table[r.second]
                               /\ ins2 = AddToInlinks(ins, table, r) /\ outs2 = AddToOutlinks(outs, table, r)
  OBVIOUS
<1>2. a \in lines /\ b \in lines /\ ins \in [lines -> Seq(lines)] /\ outs \in [lines -> Seq(lines)]
  BY <1>1 DEF BothEnds
<1>3. ins2 = [ins EXCEPT ![b] = Append(@, a)] /\ outs2 = [outs EXCEPT ![a] = Append(@, b)]
  BY <1>1 DEF AddToInlinks, AddToOutlinks
<1>4. /\ Append(ins[b], a) \in Seq(lines) /\ ToSet(Append(ins[b], a)) = ToSet(ins[b]) \cup {a}
      /\ Append(outs[a], b) \in Seq(lines) /\ ToSet(Append(outs[a], b)) = ToSet(outs[a]) \cup {b}
  BY <1>2, AppendOnce
<1>5. Len(Append(ins[b], a)) = Len(ins[b]) + 1 /\ \A p \in lines : Len(ins[p]) \in Nat
  BY <1>2
<1>6. /\ ins2 \in [lines -> Seq(lines)] /\ outs2 \in [lines -> Seq(lines)]
      /\ \A p \in lines : ins2[p] = IF p = b THEN Append(ins[b], a) ELSE ins[p]
      /\ \A p \in lines : outs2[p] = IF p = a THEN Append(outs[a], b) ELSE outs[p]
  BY <1>2, <1>3, <1>4
<1>7. ASSUME NEW p \in lines PROVE Len(ins2[p]) <= n + 1
  <2>1. Len(ins[p]) <= n /\ Len(ins[p]) \in Nat
    BY <1>5 DEF BothEnds
  <2>2. CASE p = b
    BY <1>5, <1>6, <2>1, <2>2
  <2>3. CASE p # b
    BY <1>6, <2>1, <2>3
  <2>4. QED
    BY <2>2, <2>3
<1>8. /\ \A p \in lines : ToSet(ins2[p]) = IF p = b THEN ToSet(ins[p]) \cup {a} ELSE ToSet(ins[p])
      /\ \A p \in lines : ToSet(outs2[p]) = IF p = a THEN ToSet(outs[p]) \cup {b} ELSE ToSet(outs[p])
  BY <1>4, <1>6
<1>9. ASSUME NEW p \in lines, NEW q \in lines PROVE q \in ToSet(ins2[p]) <=> p \in ToSet(outs2[q])
  <2>1. q \in ToSet(ins[p]) <=> p \in ToSet(outs[q])
    BY DEF BothEnds
  <2>2. q \in ToSet(ins2[p]) <=> q \in ToSet(ins[p]) \/ (p = b /\ q = a)
    BY <1>8
  <2>3. p \in ToSet(outs2[q]) <=> p \in ToSet(outs[q]) \/ (q = a /\ p = b)
    BY <1>8
  <2>4. QED
    BY <2>1, <2>2, <2>3
<1>10. BothEnds(lines, n + 1, ins2, outs2)
  BY <1>6, <1>7, <1>9 DEF BothEnds
<1>11. QED
  BY <1>1, <1>10

LEMMA LinksAdded ==
  ASSUME NEW lines, NEW table, NEW s, IsList(s),
         \A r \in ToSet(s) : table[r.first] \in lines /\ table[r.second] \in lines,
         NEW none, none = [p \in lines |-> <<>>]
  PROVE  BothEnds(lines, Len(s), InlinksBy(table, none, s), OutlinksBy(table, none, s))
<1>1. PICK N : N = Len(s)
  OBVIOUS
<1>2. N \in Nat /\ DOMAIN s = 1..N
  BY <1>1, Lists
<1>3. PICK a : FoldsUpTo(a, "inlink", table, none, s, N) /\ InlinksBy(table, none, s) = a[N]
  BY <1>2, InlinkFold
<1>4. PICK b : FoldsUpTo(b, "outlink", table, none, s, N) /\ OutlinksBy(table, none, s) = b[N]
  BY <1>2, OutlinkFold
<1>5. /\ a[0] = none /\ \A k \in 0..N - 1 : a[k + 1] = AddToInlinks(a[k], table, s[k + 1])
      /\ b[0] = none /\ \A k \in 0..N - 1 : b[k + 1] = AddToOutlinks(b[k], table, s[k + 1])
  BY <1>3, <1>4, StepIs DEF FoldsUpTo
<1>6. BothEnds(lines, 0, none, none)
  <2>1. PICK e : e = <<>>
    OBVIOUS
  <2>2. e \in Seq(lines) /\ Len(e) = 0 /\ DOMAIN e = {}
    BY <2>1
  <2>3. ToSet(e) = {}
    BY <2>2 DEF ToSet
  <2>4. none = [p \in lines |-> e]
    BY <2>1
  <2>5. QED
    BY <2>2, <2>3, <2>4 DEF BothEnds
<1>7. PICK T : T = {k \in Nat : k <= N => BothEnds(lines, k, a[k], b[k])}
  OBVIOUS
<1>8. 0 \in T
  BY <1>5, <1>6, <1>7
<1>9. ASSUME NEW k \in T PROVE k + 1 \in T
  <2>1. k \in Nat
    BY <1>7
  <2>2. CASE k + 1 <= N
    <3>1. k \in 0..N - 1 /\ k <= N /\ k + 1 \in DOMAIN s
      BY <1>2, <2>1, <2>2
    <3>2. BothEnds(lines, k, a[k], b[k])
      BY <1>7, <3>1
    <3>3. PICK r : r = s[k + 1]
      OBVIOUS
    <3>4. r \in ToSet(s)
      BY <3>1, <3>3 DEF ToSet
    <3>5. table[r.first] \in lines /\ table[r.second] \in lines
      BY <3>4
    <3>6. BothEnds(lines, k + 1, AddToInlinks(a[k], table, r), AddToOutlinks(b[k], table, r))
      BY <2>1, <3>2, <3>5, BothEndsKept
    <3>7. BothEnds(lines, k + 1, a[k + 1], b[k + 1])
      BY <1>5, <3>1, <3>3, <3>6
    <3>8. QED
      BY <1>7, <2>1, <3>7
  <2>3. QED
    BY <1>7, <2>1, <2>2
<1>10. T = Nat
  BY <1>7, <1>8, <1>9, Induction
<1>11. BothEnds(lines, N, a[N], b[N])
  BY <1>2, <1>7, <1>10
<1>12. QED
  BY <1>1, <1>3, <1>4, <1>11

LEMMA GraphIsLinked ==
  ASSUME NEW lines, NEW ins, NEW outs, NEW limit \in Nat, BothEnds(lines, limit, ins, outs),
         (LinkLimit + 1) * limit < IntMax, NEW near, near = NearIn(lines, ins, outs),
         NEW weight, weight = WeightIn(lines, ins)
  PROVE  Linked(lines, near, weight, limit) /\ \A p, q \in lines : q \in near[p] => p \in near[q]
<1>1. ASSUME NEW p \in lines
      PROVE  /\ weight[p] \in 0..limit /\ near[p] = ToSet(ins[p]) \cup ToSet(outs[p])
             /\ ToSet(ins[p]) \subseteq lines /\ ToSet(outs[p]) \subseteq lines
  <2>1. PICK a, b : a = ins[p] /\ b = outs[p]
    OBVIOUS
  <2>2. a \in Seq(lines) /\ b \in Seq(lines) /\ Len(a) <= limit /\ Len(a) \in Nat
    BY <2>1 DEF BothEnds
  <2>3. ToSet(a \o b) = ToSet(a) \cup ToSet(b)
    <3>1. IsList(a) /\ IsList(b)
      BY <2>2 DEF IsList
    <3>2. QED
      BY <3>1, Joined
  <2>4. ToSet(a) \subseteq lines /\ ToSet(b) \subseteq lines
    BY <2>2 DEF ToSet
  <2>5. weight[p] = Len(a) /\ near[p] = ToSet(a \o b)
    BY <2>1 DEF NearIn, WeightIn
  <2>6. QED
    BY <2>1, <2>2, <2>3, <2>4, <2>5
<1>2. ASSUME NEW p \in lines, NEW q \in lines, q \in near[p] PROVE p \in near[q]
  BY <1>1, <1>2 DEF BothEnds
<1>3. Dearest(limit, LinkLimit + 1) < IntMax
  BY DEF Dearest
<1>4. QED
  BY <1>1, <1>2, <1>3 DEF Linked

-----------------------------------------------------------------------------
(* WikipediaGraph: its inductive invariant.                                *)

LinkedTo == NearIn(Lines, inlinksOf, outlinksOf)
Weights == WeightIn(Lines, inlinksOf)

(* What is printed goes from the target back through previous.             *)
TracedBack(lines, where, from, target, prev, shown) ==
  /\ shown \in Seq(lines)
  /\ shown = <<>> => where = "trace"
  /\ shown # <<>> => shown[Len(shown)] = target
  /\ \A n \in 1..Len(shown) - 1 : shown[n + 1] \in DOMAIN prev /\ shown[n] = prev[shown[n + 1]]
  /\ \A n \in 1..Len(shown) - 1 : (where = "chain" /\ n = 1) \/ shown[n] # from
  /\ where = "chain" => Len(shown) >= 2 /\ shown[1] = from
  /\ where = "none" => shown[1] \notin DOMAIN prev

NamesPages(called) == \A title \in DOMAIN called : called[title] \in Lines
Searching ==
  /\ printed = <<>>
  /\ Explored(Lines, LinkedTo, Weights, Len(index.outlinks), asked[1], asked[2], path_distances, previous, visited)
  /\ Outstanding(asked[1], path_distances, visited, queue, cut)
Tracing ==
  /\ Explored(Lines, LinkedTo, Weights, Len(index.outlinks), asked[1], asked[2], path_distances, previous, visited)
  /\ Settled(asked[1], asked[2], path_distances, visited, cut)
  /\ TracedBack(Lines, search, asked[1], asked[2], previous, printed)
Unasked == {"start", "redirects", "outlinks", "loaded"}
Ways == {"trace", "chain", "none"}
GraphInv ==
  /\ index \in Indexes
  /\ search \in Unasked \cup {"search", "cleared", "unknown"} \cup Ways
  /\ search \in {"redirects", "outlinks", "loaded"} => NamesPages(pages_)
  /\ search \in {"loaded", "search"} \cup Ways => BothEnds(Lines, Len(index.outlinks), inlinksOf, outlinksOf)
  /\ search \in Unasked => Nowhere
  /\ search = "search" => Searching
  /\ search \in Ways => Tracing

LEMMA IndexLists ==
  ASSUME index \in Indexes
  PROVE  /\ IsList(index.pages) /\ IsList(index.redirects) /\ IsList(index.outlinks)
         /\ Len(index.pages) \in Nat /\ Lines = 1..Len(index.pages) /\ Len(index.outlinks) \in Nat
         /\ (LinkLimit + 1) * Len(index.outlinks) < IntMax
<1>1. \A file \in {index.pages, index.redirects, index.outlinks, index.distances} : file \in Seq(ToSet(file))
  BY IndexAssumption
<1>2. IsList(index.pages) /\ IsList(index.redirects) /\ IsList(index.outlinks)
  BY <1>1 DEF IsList
<1>3. (LinkLimit + 1) * Len(index.outlinks) < IntMax
  BY ChainAssumption
<1>4. QED
  BY <1>2, <1>3, Lists DEF Lines

LEMMA TablesFindPages ==
  ASSUME index \in Indexes
  PROVE  /\ NamesPages(TitleTable(Lines))
         /\ \A r \in ToSet(index.outlinks) : PageTable(Lines)[r.first] \in Lines /\ PageTable(Lines)[r.second] \in Lines
<1>1. PICK n : n = Len(index.pages)
  OBVIOUS
<1>2. n \in Nat /\ Lines = 1..n
  BY <1>1, IndexLists
<1>3. ASSUME NEW S, S \subseteq Lines, S # {} PROVE Max(S) \in Lines
  BY <1>2, <1>3, GreatestIs
<1>4. ASSUME NEW title \in {index.pages[k].title : k \in Lines}
      PROVE  Max({k \in Lines : index.pages[k].title = title}) \in Lines
  BY <1>3
<1>5. NamesPages(TitleTable(Lines))
  BY <1>4 DEF NamesPages, TitleTable
<1>6. ASSUME NEW id \in {index.pages[k].id : k \in Lines}
      PROVE  PageTable(Lines)[id] \in Lines
  <2>1. Max({k \in Lines : index.pages[k].id = id}) \in Lines
    BY <1>3
  <2>2. QED
    BY <2>1 DEF PageTable
<1>7. ASSUME NEW r \in ToSet(index.outlinks), NEW id \in {r.first, r.second}
      PROVE  id \in {index.pages[k].id : k \in Lines}
  <2>1. \E k \in DOMAIN index.pages : index.pages[k].id = id
    BY IndexAssumption
  <2>2. QED
    BY <2>1 DEF Lines
<1>8. QED
  BY <1>5, <1>6, <1>7

LEMMA RedirectsFindPages ==
  ASSUME index \in Indexes, NEW called, NamesPages(called)
  PROVE  NamesPages(FoldLeft(WithRedirect, called, index.redirects))
<1>1. PICK s, N : s = index.redirects /\ N = Len(s)
  OBVIOUS
<1>2. N \in Nat /\ DOMAIN s = 1..N
  BY <1>1, IndexLists, Lists
<1>3. PICK h : FoldsUpTo(h, "redirect", 0, called, s, N) /\ FoldLeft(WithRedirect, called, s) = h[N]
  BY <1>2, RedirectFold
<1>4. h[0] = called /\ \A k \in 0..N - 1 : h[k + 1] = WithRedirect(h[k], s[k + 1])
  BY <1>3, StepIs DEF FoldsUpTo
<1>5. ASSUME NEW known, NamesPages(known), NEW line PROVE NamesPages(WithRedirect(known, line))
  BY <1>5 DEF NamesPages, WithRedirect, Named
<1>6. PICK T : T = {k \in Nat : k <= N => NamesPages(h[k])}
  OBVIOUS
<1>7. 0 \in T
  BY <1>4, <1>6
<1>8. ASSUME NEW k \in T PROVE k + 1 \in T
  BY <1>2, <1>4, <1>5, <1>6
<1>9. T = Nat
  BY <1>6, <1>7, <1>8, Induction
<1>10. QED
  BY <1>1, <1>2, <1>3, <1>6, <1>9

LEMMA GraphInitially == index \in Indexes /\ InitGraph => GraphInv
BY DEF InitGraph, GraphInv, Unasked, Ways

LEMMA PagesLoaded == GraphInv /\ LoadPages /\ index' = index => GraphInv'
<1> SUFFICES ASSUME GraphInv, LoadPages, index' = index PROVE GraphInv'
  OBVIOUS
<1>1. NamesPages(TitleTable(Lines))
  BY TablesFindPages DEF GraphInv
<1>2. search = "start" /\ search' = "redirects" /\ pages_' = TitleTable(Lines) /\ Nowhere /\ Nowhere'
  BY DEF LoadPages, LoadStep, GraphInv, Unasked, Nowhere
<1>3. NamesPages(pages_)'
  BY <1>1, <1>2 DEF NamesPages, Lines
<1>4. QED
  BY <1>2, <1>3 DEF GraphInv, Unasked, Ways

LEMMA RedirectsLoaded == GraphInv /\ LoadRedirects /\ index' = index => GraphInv'
<1> SUFFICES ASSUME GraphInv, LoadRedirects, index' = index PROVE GraphInv'
  OBVIOUS
<1>1. search = "redirects" /\ search' = "outlinks" /\ Nowhere /\ Nowhere'
      /\ pages_' = FoldLeft(WithRedirect, pages_, index.redirects)
  BY DEF LoadRedirects, LoadStep, GraphInv, Unasked, Nowhere
<1>2. NamesPages(FoldLeft(WithRedirect, pages_, index.redirects))
  BY <1>1, RedirectsFindPages DEF GraphInv
<1>3. NamesPages(pages_)'
  BY <1>1, <1>2 DEF NamesPages, Lines
<1>4. QED
  BY <1>1, <1>3 DEF GraphInv, Unasked, Ways

LEMMA OutlinksLoaded == GraphInv /\ LoadOutlinks /\ index' = index => GraphInv'
<1> SUFFICES ASSUME GraphInv, LoadOutlinks, index' = index PROVE GraphInv'
  OBVIOUS
<1>1. search = "outlinks" /\ search' = "loaded" /\ Nowhere /\ Nowhere' /\ pages_' = pages_
  BY DEF LoadOutlinks, LoadStep, GraphInv, Unasked, Nowhere
<1>2. PICK table, none, s : table = PageTable(Lines) /\ none = [p \in Lines |-> <<>>] /\ s = index.outlinks
  OBVIOUS
<1>3. outlinksOf' = OutlinksBy(table, none, s) /\ inlinksOf' = InlinksBy(table, none, s)
  <2>1. outlinksOf' = OutlinksBy(PageTable(Lines), [p \in Lines |-> <<>>], index.outlinks)
    BY DEF LoadOutlinks, OutlinksBy
  <2>2. inlinksOf' = InlinksBy(PageTable(Lines), [p \in Lines |-> <<>>], index.outlinks)
    BY DEF LoadOutlinks, InlinksBy
  <2>3. QED
    BY <1>2, <2>1, <2>2
<1>4. IsList(s) /\ \A r \in ToSet(s) : table[r.first] \in Lines /\ table[r.second] \in Lines
  BY <1>2, IndexLists, TablesFindPages DEF GraphInv
<1>5. BothEnds(Lines, Len(s), InlinksBy(table, none, s), OutlinksBy(table, none, s))
  BY <1>2, <1>4, LinksAdded
<1>6. Lines' = Lines /\ Len(index.outlinks)' = Len(s)
  BY <1>2 DEF Lines
<1>7. BothEnds(Lines, Len(index.outlinks), inlinksOf, outlinksOf)'
  BY <1>3, <1>5, <1>6 DEF BothEnds
<1>8. NamesPages(pages_)'
  BY <1>1, <1>6 DEF GraphInv, NamesPages
<1>9. QED
  BY <1>1, <1>7, <1>8 DEF GraphInv, Unasked, Ways

LEMMA GraphStays ==
  ASSUME GraphInv, index' = index, UNCHANGED pageGraph
  PROVE  /\ Lines' = Lines /\ LinkedTo' = LinkedTo /\ Weights' = Weights
         /\ Len(index.outlinks)' = Len(index.outlinks)
         /\ NamesPages(pages_) => NamesPages(pages_)'
         /\ BothEnds(Lines, Len(index.outlinks), inlinksOf, outlinksOf)
              => BothEnds(Lines, Len(index.outlinks), inlinksOf, outlinksOf)'
BY DEF pageGraph, Lines, LinkedTo, Weights, NamesPages, NearIn, WeightIn, BothEnds

LEMMA ClearKeeps == GraphInv /\ ClearPageGraph /\ index' = index => GraphInv'
BY DEF GraphInv, ClearPageGraph, LoadStep, Unasked, Ways

LEMMA SearchedGraph ==
  ASSUME GraphInv, search \in {"loaded", "search"} \cup Ways
  PROVE  /\ Linked(Lines, LinkedTo, Weights, Len(index.outlinks))
         /\ \A p, q \in Lines : q \in LinkedTo[p] => p \in LinkedTo[q]
         /\ \A p \in Lines : LinkedTo[p] = ToSet(ConnectedPages(p)) /\ Weights[p] = PageWeight(p)
<1>1. PICK limit : limit = Len(index.outlinks)
  OBVIOUS
<1>2. limit \in Nat /\ (LinkLimit + 1) * limit < IntMax /\ BothEnds(Lines, limit, inlinksOf, outlinksOf)
  BY <1>1, IndexLists DEF GraphInv
<1>3. PICK near, weight : near = LinkedTo /\ weight = Weights
  OBVIOUS
<1>4. Linked(Lines, near, weight, limit) /\ \A p, q \in Lines : q \in near[p] => p \in near[q]
  <2>1. near = NearIn(Lines, inlinksOf, outlinksOf) /\ weight = WeightIn(Lines, inlinksOf)
    BY <1>3 DEF LinkedTo, Weights
  <2>2. QED
    BY <1>2, <2>1, GraphIsLinked
<1>5. \A p \in Lines : LinkedTo[p] = ToSet(ConnectedPages(p)) /\ Weights[p] = PageWeight(p)
  BY DEF LinkedTo, Weights, NearIn, WeightIn, ConnectedPages, PageWeight
<1>6. QED
  BY <1>1, <1>3, <1>4, <1>5

LEMMA NothingExplored ==
  ASSUME NEW lines, NEW near, NEW weight, NEW limit, NEW from \in lines, NEW target \in lines,
         NEW none, none = <<>>
  PROVE  /\ Explored(lines, near, weight, limit, from, target, none, none, {})
         /\ Outstanding(from, none, {}, {PathTo(from, 0, 0)}, FALSE)
<1>1. DOMAIN none = {}
  OBVIOUS
<1>2. Explored(lines, near, weight, limit, from, target, none, none, {})
  BY <1>1 DEF Explored
<1>3. Outstanding(from, none, {}, {PathTo(from, 0, 0)}, FALSE)
  BY <1>1 DEF Outstanding, Queued
<1>4. QED
  BY <1>2, <1>3

LEMMA AskKeeps == ASSUME GraphInv, NEW first, NEW second, AskChain(first, second), index' = index PROVE GraphInv'
<1>1. search = "loaded" /\ UNCHANGED pageGraph /\ Nowhere /\ NamesPages(pages_)
  BY DEF AskChain, GraphInv, Unasked
<1>2. BothEnds(Lines, Len(index.outlinks), inlinksOf, outlinksOf)'
  BY <1>1, GraphStays DEF GraphInv
<1>3. CASE ~({first, second} \subseteq DOMAIN pages_)
  <2>1. search' = "unknown"
    BY <1>3 DEF AskChain
  <2>2. QED
    BY <2>1 DEF GraphInv, Unasked, Ways
<1>4. CASE {first, second} \subseteq DOMAIN pages_
  <2>1. /\ asked' = <<pages_[first], pages_[second]>> /\ queue' = {PathTo(pages_[first], 0, 0)} /\ search' = "search"
        /\ path_distances' = <<>> /\ previous' = <<>> /\ visited' = {} /\ printed' = <<>> /\ cut' = FALSE
    BY <1>1, <1>4 DEF AskChain, Nowhere
  <2>2. PICK a, b, none : a = pages_[first] /\ b = pages_[second] /\ none = <<>>
    OBVIOUS
  <2>3. a \in Lines /\ b \in Lines
    BY <1>1, <1>4, <2>2 DEF NamesPages
  <2>4. asked'[1] = a /\ asked'[2] = b
    BY <2>1, <2>2
  <2>5. Explored(Lines, LinkedTo, Weights, Len(index.outlinks), a, b, none, none, {})
        /\ Outstanding(a, none, {}, {PathTo(a, 0, 0)}, FALSE)
    BY <2>2, <2>3, NothingExplored
  <2>6. Searching'
    BY <1>1, <2>1, <2>2, <2>4, <2>5, GraphStays DEF Searching
  <2>7. QED
    BY <1>2, <2>1, <2>6 DEF GraphInv, Unasked, Ways
<1>5. QED
  BY <1>3, <1>4

LEMMA NothingPrinted ==
  ASSUME NEW lines, NEW from, NEW target, NEW prev
  PROVE  TracedBack(lines, "trace", from, target, prev, <<>>)
<1>1. PICK e : e = <<>>
  OBVIOUS
<1>2. e \in Seq(lines) /\ Len(e) = 0
  BY <1>1
<1>3. TracedBack(lines, "trace", from, target, prev, e)
  BY <1>1, <1>2 DEF TracedBack
<1>4. QED
  BY <1>1, <1>3

LEMMA SearchEnds ==
  ASSUME GraphInv, index' = index, search = "search", search' = "trace", UNCHANGED pageGraph,
         UNCHANGED <<asked, printed, path_distances, previous, visited, cut>>,
         Settled(asked[1], asked[2], path_distances, visited, cut)
  PROVE  GraphInv'
<1>1. Searching /\ BothEnds(Lines, Len(index.outlinks), inlinksOf, outlinksOf)
  BY DEF GraphInv
<1>2. TracedBack(Lines, "trace", asked[1], asked[2], previous, <<>>)
  BY NothingPrinted
<1>3. Tracing'
  BY <1>1, <1>2, GraphStays DEF Tracing, Searching
<1>4. BothEnds(Lines, Len(index.outlinks), inlinksOf, outlinksOf)'
  BY <1>1, GraphStays
<1>5. QED
  BY <1>3, <1>4 DEF GraphInv, Unasked, Ways

LEMMA QueueEmptyKeeps == GraphInv /\ QueueEmpty /\ index' = index => GraphInv'
<1> SUFFICES ASSUME GraphInv, QueueEmpty, index' = index PROVE GraphInv'
  OBVIOUS
<1>1. /\ search = "search" /\ search' = "trace" /\ queue = {} /\ UNCHANGED pageGraph
      /\ UNCHANGED <<asked, printed, path_distances, previous, visited, cut>>
  BY DEF QueueEmpty
<1>2. Searching
  BY <1>1 DEF GraphInv
<1>3. Linked(Lines, LinkedTo, Weights, Len(index.outlinks))
  BY <1>1, SearchedGraph
<1>4. PICK lines, near, weight, limit, from, target :
        /\ lines = Lines /\ near = LinkedTo /\ weight = Weights /\ limit = Len(index.outlinks)
        /\ from = asked[1] /\ target = asked[2]
  OBVIOUS
<1>5. /\ Linked(lines, near, weight, limit)
      /\ Explored(lines, near, weight, limit, from, target, path_distances, previous, visited)
      /\ Outstanding(from, path_distances, visited, queue, cut)
  BY <1>2, <1>3, <1>4 DEF Searching
<1>6. Settled(from, target, path_distances, visited, cut)
  BY <1>1, <1>5, NothingLeft
<1>7. QED
  BY <1>1, <1>4, <1>6, SearchEnds

LEMMA RelaxVisits ==
  ASSUME GraphInv, search = "search", UNCHANGED asked, NEW path \in queue, \A q \in queue : path.distance <= q.distance,
         path.end \notin visited, visited' = visited \cup {path.end}, RelaxEdges(path)
  PROVE  Visit(LinkedTo, Weights, asked[1], path_distances, previous, visited, queue, cut, path,
               path_distances', previous', visited', queue', cut')
<1>1. PICK lines, near, weight, limit, from, target, u, c, l :
        /\ lines = Lines /\ near = LinkedTo /\ weight = Weights /\ limit = Len(index.outlinks)
        /\ from = asked[1] /\ target = asked[2]
        /\ u = path.end /\ c = CostTo(from, path_distances, u) /\ l = LinksTo(from, path_distances, u)
  OBVIOUS
<1>2. /\ Linked(lines, near, weight, limit)
      /\ Explored(lines, near, weight, limit, from, target, path_distances, previous, visited)
      /\ Outstanding(from, path_distances, visited, queue, cut)
  BY <1>1, SearchedGraph DEF GraphInv, Searching
<1>3. /\ u \in lines
      /\ u # from => u \in DOMAIN path_distances
      /\ u = from => DOMAIN path_distances = {}
  BY <1>1, <1>2, TakenPath
<1>4. \A p \in near[u] :
        (c + weight[p] < IF p \in DOMAIN path_distances THEN path_distances[p].distance ELSE IntMax)
          <=> p \notin DOMAIN path_distances
  BY <1>1, <1>2, KnownCostsLess
<1>5. near[u] \subseteq lines /\ near[u] = ToSet(ConnectedPages(u)) /\ \A p \in lines : weight[p] = PageWeight(p)
  BY <1>1, <1>2, <1>3, SearchedGraph DEF Linked
<1>6. ASSUME NEW p \in near[u]
      PROVE  RelaxedPath(u, p).distance = c + weight[p] /\ RelaxedPath(u, p).links = l + 1
  <2>1. PageWeight(p) = weight[p]
    BY <1>5
  <2>2. CASE u = from
    <3>1. c = 0 /\ l = 0 /\ u \notin DOMAIN path_distances
      BY <1>1, <1>3, <2>2 DEF CostTo, LinksTo
    <3>2. QED
      BY <2>1, <3>1 DEF RelaxedPath
  <2>3. CASE u # from
    <3>1. c = path_distances[u].distance /\ l = path_distances[u].links /\ u \in DOMAIN path_distances
      BY <1>1, <1>3, <2>3 DEF CostTo, LinksTo
    <3>2. QED
      BY <2>1, <3>1 DEF RelaxedPath
  <2>4. QED
    BY <2>2, <2>3
<1>7. PICK added : added = near[u] \ DOMAIN path_distances
  OBVIOUS
<1>8. ShorterEnds(u) = added
  <2>1. ShorterEnds(u) = {p \in near[u] :
          RelaxedPath(u, p).distance
            < IF p \in DOMAIN path_distances THEN path_distances[p].distance ELSE IntMax}
    BY <1>5 DEF ShorterEnds
  <2>2. \A p \in near[u] :
          (RelaxedPath(u, p).distance
             < IF p \in DOMAIN path_distances THEN path_distances[p].distance ELSE IntMax)
            <=> p \notin DOMAIN path_distances
    BY <1>4, <1>6
  <2>3. QED
    BY <1>7, <2>1, <2>2
<1>9. PICK over : over = {p \in near[u] : path_distances'[p].links > LinkLimit}
  OBVIOUS
<1>10. /\ path_distances' = [p \in DOMAIN path_distances \cup added |->
                               IF p \in added THEN RelaxedPath(u, p) ELSE path_distances[p]]
       /\ previous' = [p \in DOMAIN previous \cup added |-> IF p \in added THEN u ELSE previous[p]]
       /\ queue' = (queue \ {path})
                     \cup {PathTo(p, path_distances'[p].distance, path_distances'[p].links) : p \in near[u] \ over}
       /\ cut' = (cut \/ over # {})
  BY <1>1, <1>5, <1>8, <1>9 DEF RelaxEdges
<1>11. /\ DOMAIN path_distances' = DOMAIN path_distances \cup added /\ DOMAIN previous' = DOMAIN previous \cup added
       /\ \A p \in added : path_distances'[p] = RelaxedPath(u, p) /\ previous'[p] = u
  BY <1>10
<1>12. DOMAIN previous = DOMAIN path_distances
  BY <1>2 DEF Explored
<1>13. \A p \in DOMAIN path_distances : path_distances'[p] = path_distances[p] /\ previous'[p] = previous[p]
  BY <1>7, <1>10, <1>12
<1>14. ASSUME NEW p \in added
       PROVE  path_distances'[p].distance = c + weight[p] /\ path_distances'[p].links = l + 1
  <2>1. path_distances'[p] = RelaxedPath(u, p)
    BY <1>11
  <2>2. p \in near[u]
    BY <1>7
  <2>3. QED
    BY <1>6, <2>1, <2>2
<1>15. Visit(near, weight, from, path_distances, previous, visited, queue, cut, path,
             path_distances', previous', visited', queue', cut')
  BY <1>1, <1>7, <1>9, <1>10, <1>11, <1>13, <1>14 DEF Visit
<1>16. QED
  BY <1>1, <1>15

LEMMA PopKeeps == GraphInv /\ PopPath /\ index' = index => GraphInv'
<1> SUFFICES ASSUME GraphInv, PopPath, index' = index PROVE GraphInv'
  OBVIOUS
<1>1. search = "search" /\ UNCHANGED <<pageGraph, asked, printed>>
  BY DEF PopPath
<1>2. PICK path \in queue :
        /\ NearestPath(path)
        /\ \/ /\ path.end = asked[2]
              /\ search' = "trace" /\ queue' = {}
              /\ UNCHANGED <<path_distances, previous, visited, cut>>
           \/ /\ path.end # asked[2] /\ path.end \in visited
              /\ queue' = queue \ {path}
              /\ UNCHANGED <<search, path_distances, previous, visited, cut>>
           \/ /\ path.end # asked[2] /\ path.end \notin visited
              /\ visited' = visited \cup {path.end}
              /\ RelaxEdges(path)
              /\ UNCHANGED search
  BY DEF PopPath
<1>3. \A q \in queue : path.distance <= q.distance
  BY <1>2 DEF NearestPath
<1>4. PICK lines, near, weight, limit, from, target :
        /\ lines = Lines /\ near = LinkedTo /\ weight = Weights /\ limit = Len(index.outlinks)
        /\ from = asked[1] /\ target = asked[2]
  OBVIOUS
<1>5. /\ Linked(lines, near, weight, limit)
      /\ Explored(lines, near, weight, limit, from, target, path_distances, previous, visited)
      /\ Outstanding(from, path_distances, visited, queue, cut)
      /\ printed = <<>>
  BY <1>1, <1>4, SearchedGraph DEF GraphInv, Searching
<1>6. /\ Lines' = lines /\ LinkedTo' = near /\ Weights' = weight /\ Len(index.outlinks)' = limit
      /\ asked' = asked /\ printed' = <<>>
  BY <1>1, <1>4, <1>5, GraphStays
<1>7. BothEnds(Lines, Len(index.outlinks), inlinksOf, outlinksOf)'
  BY <1>1, GraphStays DEF GraphInv
<1>8. CASE path.end = asked[2] /\ search' = "trace" /\ UNCHANGED <<path_distances, previous, visited, cut>>
  <2>1. Settled(from, target, path_distances, visited, cut)
    BY <1>3, <1>4, <1>5, <1>8, TargetTaken
  <2>2. QED
    BY <1>1, <1>4, <1>8, <2>1, SearchEnds
<1>9. CASE /\ path.end \in visited /\ queue' = queue \ {path}
           /\ UNCHANGED <<search, path_distances, previous, visited, cut>>
  <2>1. Outstanding(from, path_distances, visited, queue \ {path}, cut)
    <3>1. from \in visited
      BY <1>5, <1>9 DEF Explored
    <3>2. \A p \in DOMAIN path_distances \ visited, q \in queue : q.end = p => q \in queue \ {path}
      BY <1>9
    <3>3. QED
      BY <1>5, <3>1, <3>2 DEF Outstanding
  <2>2. Searching'
    BY <1>4, <1>5, <1>6, <1>9, <2>1 DEF Searching
  <2>3. QED
    BY <1>1, <1>7, <1>9, <2>2 DEF GraphInv, Unasked, Ways
<1>10. CASE /\ path.end # asked[2] /\ path.end \notin visited /\ visited' = visited \cup {path.end}
            /\ RelaxEdges(path) /\ UNCHANGED search
  <2>1. Visit(near, weight, from, path_distances, previous, visited, queue, cut, path,
              path_distances', previous', visited', queue', cut')
    BY <1>1, <1>3, <1>4, <1>10, RelaxVisits
  <2>2. /\ Explored(lines, near, weight, limit, from, target, path_distances', previous', visited')
        /\ Outstanding(from, path_distances', visited', queue', cut')
    BY <1>3, <1>4, <1>5, <1>10, <2>1, VisitExplores
  <2>3. Searching'
    BY <1>4, <1>6, <2>2 DEF Searching
  <2>4. QED
    BY <1>1, <1>7, <1>10, <2>3 DEF GraphInv, Unasked, Ways
<1>11. QED
  BY <1>2, <1>8, <1>9, <1>10

(* One page back.                                                          *)
LEMMA OneBack ==
  ASSUME NEW lines, NEW from, NEW target \in lines, NEW prev, \A p \in DOMAIN prev : prev[p] \in lines,
         NEW shown, TracedBack(lines, "trace", from, target, prev, shown)
  PROVE  /\ shown = <<>> => TracedBack(lines, "trace", from, target, prev, <<target>>)
         /\ shown # <<>> /\ Head(shown) \notin DOMAIN prev => TracedBack(lines, "none", from, target, prev, shown)
         /\ shown # <<>> /\ Head(shown) \in DOMAIN prev =>
              TracedBack(lines, IF prev[Head(shown)] = from THEN "chain" ELSE "trace", from, target, prev,
                         <<prev[Head(shown)]>> \o shown)
<1>1. /\ shown \in Seq(lines) /\ Len(shown) \in Nat
      /\ shown # <<>> => shown[Len(shown)] = target /\ Len(shown) >= 1 /\ Head(shown) = shown[1]
      /\ \A n \in 1..Len(shown) - 1 : shown[n + 1] \in DOMAIN prev /\ shown[n] = prev[shown[n + 1]]
      /\ \A n \in 1..Len(shown) - 1 : shown[n] # from
  BY DEF TracedBack
<1>2. TracedBack(lines, "trace", from, target, prev, <<target>>)
  <2>1. PICK one : one = <<target>>
    OBVIOUS
  <2>2. one \in Seq(lines) /\ Len(one) = 1 /\ one[1] = target /\ one # <<>>
    BY <2>1
  <2>3. TracedBack(lines, "trace", from, target, prev, one)
    BY <2>2 DEF TracedBack
  <2>4. QED
    BY <2>1, <2>3
<1>3. ASSUME shown # <<>>, Head(shown) \notin DOMAIN prev
      PROVE  TracedBack(lines, "none", from, target, prev, shown)
  BY <1>1, <1>3 DEF TracedBack
<1>4. ASSUME shown # <<>>, Head(shown) \in DOMAIN prev
      PROVE  TracedBack(lines, IF prev[Head(shown)] = from THEN "chain" ELSE "trace", from, target, prev,
                        <<prev[Head(shown)]>> \o shown)
  <2>1. PICK x, k, more, where : /\ x = prev[shown[1]] /\ k = Len(shown) /\ more = <<x>> \o shown
                                 /\ where = IF x = from THEN "chain" ELSE "trace"
    OBVIOUS
  <2>2. x \in lines /\ k \in Nat /\ k >= 1 /\ Head(shown) = shown[1] /\ shown[1] \in DOMAIN prev
    BY <1>1, <1>4, <2>1
  <2>3. <<x>> \in Seq(lines) /\ Len(<<x>>) = 1 /\ <<x>>[1] = x
    BY <2>2
  <2>4. /\ more \in Seq(lines) /\ Len(more) = k + 1 /\ more[1] = x
        /\ \A n \in 1..k : more[n + 1] = shown[n]
    <3>1. /\ <<x>> \o shown \in Seq(lines) /\ Len(<<x>> \o shown) = 1 + k
          /\ \A n \in 1..1 : (<<x>> \o shown)[n] = <<x>>[n]
          /\ \A n \in 1..k : (<<x>> \o shown)[1 + n] = shown[n]
      BY <1>1, <2>1, <2>3, Concatenation
    <3>2. QED
      BY <2>1, <2>2, <2>3, <3>1
  <2>5. more # <<>> /\ more[Len(more)] = target
    BY <1>1, <1>4, <2>1, <2>2, <2>4
  <2>6. ASSUME NEW n \in 1..Len(more) - 1
        PROVE  /\ more[n + 1] \in DOMAIN prev /\ more[n] = prev[more[n + 1]]
               /\ (where = "chain" /\ n = 1) \/ more[n] # from
    <3>1. CASE n = 1
      BY <2>1, <2>2, <2>4, <3>1
    <3>2. CASE n # 1
      <4>1. PICK m \in 1..Len(shown) - 1 : n = m + 1
        <5>1. n - 1 \in 1..Len(shown) - 1 /\ n = (n - 1) + 1
          BY <2>1, <2>2, <2>4, <3>2
        <5>2. QED
          BY <5>1
      <4>2. m \in 1..k /\ m + 1 \in 1..k
        BY <2>1, <2>2, <4>1
      <4>3. more[m + 1] = shown[m] /\ more[m + 1 + 1] = shown[m + 1]
        BY <2>4, <4>2
      <4>4. QED
        BY <1>1, <4>1, <4>3
    <3>3. QED
      BY <3>1, <3>2
  <2>7. where # "none" /\ (where = "chain" => Len(more) >= 2 /\ more[1] = from)
    BY <2>1, <2>2, <2>4
  <2>8. TracedBack(lines, where, from, target, prev, more)
    BY <2>4, <2>5, <2>6, <2>7 DEF TracedBack
  <2>9. QED
    BY <2>1, <2>2, <2>8
<1>5. QED
  BY <1>2, <1>3, <1>4

LEMMA TraceKeeps == GraphInv /\ TraceBack /\ index' = index => GraphInv'
<1> SUFFICES ASSUME GraphInv, TraceBack, index' = index PROVE GraphInv'
  OBVIOUS
<1>1. /\ search = "trace" /\ UNCHANGED pageGraph
      /\ UNCHANGED <<asked, path_distances, previous, visited, cut>>
  BY DEF TraceBack
<1>2. Tracing /\ BothEnds(Lines, Len(index.outlinks), inlinksOf, outlinksOf)'
  BY <1>1, GraphStays DEF GraphInv, Ways
<1>3. PICK lines, from, target, prev, shown :
        lines = Lines /\ from = asked[1] /\ target = asked[2] /\ prev = previous /\ shown = printed
  OBVIOUS
<1>4. /\ target \in lines /\ TracedBack(lines, "trace", from, target, prev, shown)
      /\ \A p \in DOMAIN prev : prev[p] \in lines
  BY <1>1, <1>2, <1>3 DEF Tracing, Explored, Reached
<1>5. TracedBack(lines, search', from, target, prev, printed')
  <2>1. CASE shown = <<>>
    <3>1. printed' = <<target>> /\ search' = "trace"
      BY <1>1, <1>3, <2>1 DEF TraceBack
    <3>2. TracedBack(lines, "trace", from, target, prev, <<target>>)
      BY <1>4, <2>1, OneBack
    <3>3. QED
      BY <3>1, <3>2
  <2>2. CASE shown # <<>> /\ Head(shown) \notin DOMAIN prev
    <3>1. printed' = shown /\ search' = "none"
      BY <1>1, <1>3, <2>2 DEF TraceBack
    <3>2. TracedBack(lines, "none", from, target, prev, shown)
      BY <1>4, <2>2, OneBack
    <3>3. QED
      BY <3>1, <3>2
  <2>3. CASE shown # <<>> /\ Head(shown) \in DOMAIN prev
    <3>1. /\ printed' = <<prev[Head(shown)]>> \o shown
          /\ search' = IF prev[Head(shown)] = from THEN "chain" ELSE "trace"
      BY <1>1, <1>3, <2>3 DEF TraceBack
    <3>2. TracedBack(lines, IF prev[Head(shown)] = from THEN "chain" ELSE "trace", from, target, prev,
                     <<prev[Head(shown)]>> \o shown)
      BY <1>4, <2>3, OneBack
    <3>3. QED
      BY <3>1, <3>2
  <2>4. QED
    BY <2>1, <2>2, <2>3
<1>6. search' \in Ways
  BY <1>1 DEF TraceBack, Ways
<1>7. Tracing'
  BY <1>1, <1>2, <1>3, <1>5, GraphStays DEF Tracing
<1>8. QED
  BY <1>2, <1>6, <1>7 DEF GraphInv, Unasked, Ways

LEMMA GraphInvKept == GraphInv /\ [NextGraph /\ UNCHANGED index]_<<graphVars, index>> => GraphInv'
<1>1. ASSUME GraphInv, UNCHANGED <<graphVars, index>> PROVE GraphInv'
  <2>1. /\ UNCHANGED <<pages_, outlinksOf, inlinksOf, search, asked, queue, path_distances, previous>>
        /\ UNCHANGED <<visited, printed, cut, index>>
    BY <1>1 DEF graphVars, pageGraph, chainVars
  <2>2. UNCHANGED <<Lines, LinkedTo, Weights>>
    BY <2>1 DEF Lines, LinkedTo, Weights
  <2>3. UNCHANGED <<Nowhere, Searching, Tracing>>
    BY <2>1, <2>2 DEF Nowhere, Searching, Tracing
  <2>4. NamesPages(pages_)' = NamesPages(pages_)
    BY <2>1, <2>2 DEF NamesPages
  <2>5. QED
    BY <1>1, <2>1, <2>2, <2>3, <2>4 DEF GraphInv
<1>2. ASSUME GraphInv, NextGraph, index' = index PROVE GraphInv'
  BY <1>2, PagesLoaded, RedirectsLoaded, OutlinksLoaded, ClearKeeps, AskKeeps, PopKeeps, QueueEmptyKeeps, TraceKeeps
     DEF NextGraph
<1>3. QED
  BY <1>1, <1>2

(* What the chain printed costs is the distance of its last page.          *)
LEMMA ChainCosts ==
  ASSUME NEW lines, NEW near, NEW weight, NEW limit, NEW from, NEW target, NEW dist, NEW prev, NEW closed,
         Explored(lines, near, weight, limit, from, target, dist, prev, closed),
         \A p \in lines : weight[p] = PageWeight(p),
         NEW shown, TracedBack(lines, "chain", from, target, prev, shown)
  PROVE  /\ PathCost(shown) = dist[target].distance /\ target \in DOMAIN dist /\ from # target
         /\ Len(shown) <= LinkLimit + 2 /\ shown[1] = from
         /\ \A n \in 1..Len(shown) - 1 : shown[n] \in lines /\ shown[n + 1] \in near[shown[n]]
<1>1. /\ shown \in Seq(lines) /\ Len(shown) \in Nat /\ Len(shown) >= 2 /\ shown # <<>>
      /\ shown[Len(shown)] = target /\ shown[1] = from
      /\ \A n \in 1..Len(shown) - 1 : shown[n + 1] \in DOMAIN prev /\ shown[n] = prev[shown[n + 1]]
      /\ \A n \in 1..Len(shown) - 1 : n = 1 \/ shown[n] # from
  <2>1. shown \in Seq(lines) /\ Len(shown) >= 2 /\ shown[1] = from
    BY DEF TracedBack
  <2>2. Len(shown) \in Nat /\ shown # <<>>
    BY <2>1
  <2>3. QED
    BY <2>1, <2>2 DEF TracedBack
<1>2. PICK N, s : N = Len(shown) - 1 /\ s = Tail(shown)
  OBVIOUS
<1>3. N \in Nat /\ N >= 1 /\ Len(shown) = N + 1 /\ DOMAIN s = 1..N /\ \A k \in 1..N : s[k] = shown[k + 1]
  BY <1>1, <1>2
<1>4. target \in DOMAIN dist /\ from # target
  <2>1. target \in DOMAIN prev
    BY <1>1, <1>3
  <2>2. QED
    BY <2>1 DEF Explored
<1>5. ASSUME NEW k \in 0..N - 1
      PROVE  /\ shown[k + 2] \in DOMAIN dist /\ shown[k + 2] # from
             /\ Reached(near, weight, limit, from, dist, prev, closed, shown[k + 2])
             /\ prev[shown[k + 2]] = shown[k + 1] /\ shown[k + 2] \in lines
  <2>1. k + 1 \in 1..Len(shown) - 1 /\ k + 1 + 1 = k + 2
    BY <1>3
  <2>2. shown[k + 2] \in DOMAIN prev /\ prev[shown[k + 2]] = shown[k + 1]
    BY <1>1, <2>1
  <2>3. shown[k + 2] # from
    <3>1. CASE k + 2 = N + 1
      BY <1>1, <1>3, <1>4, <3>1
    <3>2. CASE k + 2 # N + 1
      <4>1. k + 2 \in 1..Len(shown) - 1 /\ k + 2 # 1
        BY <1>3, <3>2
      <4>2. QED
        BY <1>1, <4>1
    <3>3. QED
      BY <3>1, <3>2
  <2>4. QED
    BY <2>2, <2>3 DEF Explored
<1>6. PICK h : FoldsUpTo(h, "weight", inlinksOf, 0, s, N) /\ FoldLeft(AddWeight, 0, s) = h[N]
  BY <1>3, WeightFold
<1>7. h[0] = 0 /\ \A k \in 0..N - 1 : h[k + 1] = h[k] + Len(inlinksOf[s[k + 1]])
  BY <1>6, StepIs DEF FoldsUpTo
<1>8. PICK T : T = {k \in Nat : k <= N => /\ h[k] = CostTo(from, dist, shown[k + 1])
                                         /\ LinksTo(from, dist, shown[k + 1]) = k}
  OBVIOUS
<1>9. 0 \in T
  <2>1. CostTo(from, dist, shown[1]) = 0 /\ LinksTo(from, dist, shown[1]) = 0
    BY <1>1 DEF CostTo, LinksTo
  <2>2. QED
    BY <1>7, <1>8, <2>1
<1>10. ASSUME NEW k \in T PROVE k + 1 \in T
  <2>1. k \in Nat
    BY <1>8
  <2>2. CASE k + 1 <= N
    <3>1. k \in 0..N - 1 /\ k <= N
      BY <1>3, <2>1, <2>2
    <3>2. PICK p : p = shown[k + 2]
      OBVIOUS
    <3>3. /\ p \in lines /\ p # from /\ Reached(near, weight, limit, from, dist, prev, closed, p)
          /\ prev[p] = shown[k + 1]
      BY <1>5, <3>1, <3>2
    <3>4. h[k] = CostTo(from, dist, prev[p]) /\ LinksTo(from, dist, prev[p]) = k
      BY <1>8, <3>1, <3>3
    <3>5. dist[p].distance = h[k] + weight[p] /\ dist[p].links = k + 1
      BY <3>3, <3>4 DEF Reached
    <3>6. CostTo(from, dist, p) = h[k] + weight[p] /\ LinksTo(from, dist, p) = k + 1
      BY <3>3, <3>5 DEF CostTo, LinksTo
    <3>7. s[k + 1] = p
      BY <1>3, <3>1, <3>2
    <3>8. h[k + 1] = h[k] + weight[p]
      <4>1. h[k + 1] = h[k] + Len(inlinksOf[p])
        BY <1>7, <3>1, <3>7
      <4>2. weight[p] = Len(inlinksOf[p])
        BY <3>3 DEF PageWeight
      <4>3. QED
        BY <4>1, <4>2
    <3>9. shown[k + 1 + 1] = p
      BY <2>1, <3>2
    <3>10. QED
      BY <1>8, <2>1, <3>6, <3>8, <3>9
  <2>3. QED
    BY <1>8, <2>1, <2>2
<1>11. T = Nat
  BY <1>8, <1>9, <1>10, Induction
<1>12. h[N] = CostTo(from, dist, target) /\ LinksTo(from, dist, target) = N
  <2>1. h[N] = CostTo(from, dist, shown[N + 1]) /\ LinksTo(from, dist, shown[N + 1]) = N
    BY <1>3, <1>8, <1>11
  <2>2. QED
    BY <1>1, <1>3, <2>1
<1>13. PathCost(shown) = dist[target].distance /\ dist[target].links = N
  BY <1>2, <1>4, <1>6, <1>12 DEF PathCost, CostTo, LinksTo
<1>14. Len(shown) <= LinkLimit + 2
  <2>1. dist[target].links \in 1..LinkLimit + 1 /\ LinkLimit \in Nat
    BY <1>4, ChainAssumption DEF Explored, Reached
  <2>2. QED
    BY <1>3, <1>13, <2>1
<1>15. ASSUME NEW n \in 1..Len(shown) - 1 PROVE shown[n] \in lines /\ shown[n + 1] \in near[shown[n]]
  <2>1. n - 1 \in 0..N - 1 /\ n - 1 + 2 = n + 1 /\ n - 1 + 1 = n
    BY <1>2, <1>3
  <2>2. Reached(near, weight, limit, from, dist, prev, closed, shown[n + 1]) /\ prev[shown[n + 1]] = shown[n]
    BY <1>5, <2>1
  <2>3. shown[n] \in closed /\ shown[n + 1] \in near[shown[n]]
    BY <2>2 DEF Reached
  <2>4. QED
    BY <2>3 DEF Explored
<1>16. QED
  BY <1>1, <1>4, <1>13, <1>14, <1>15

LEMMA ChainMeets == GraphInv => ChainIsCheapest
<1> SUFFICES ASSUME GraphInv, search \in {"chain", "none"} PROVE ChainIsCheapest
  BY DEF ChainIsCheapest
<1>1. PICK lines, near, weight, limit, from, target :
        /\ lines = Lines /\ near = LinkedTo /\ weight = Weights /\ limit = Len(index.outlinks)
        /\ from = asked[1] /\ target = asked[2]
  OBVIOUS
<1>2. PICK least : least = IF cut \/ from = target THEN IntMax ELSE LeastCosts(from)[target]
  OBVIOUS
<1>3. /\ Explored(lines, near, weight, limit, from, target, path_distances, previous, visited)
      /\ Settled(from, target, path_distances, visited, cut)
      /\ TracedBack(lines, search, from, target, previous, printed)
  BY <1>1 DEF GraphInv, Ways, Tracing
<1>4. /\ Linked(lines, near, weight, limit)
      /\ \A p, q \in lines : q \in near[p] => p \in near[q]
      /\ \A p \in lines : near[p] = ToSet(ConnectedPages(p)) /\ weight[p] = PageWeight(p)
  BY <1>1, SearchedGraph DEF Ways
<1>5. /\ \A p \in DOMAIN path_distances : path_distances[p].distance \in Nat /\ path_distances[p].distance < IntMax
      /\ ReachedAt(target, path_distances) \in Nat /\ ReachedAt(target, path_distances) <= IntMax
  BY <1>3, <1>4, CostsAreSmall
<1>6. ReachedAt(target, path_distances) <= least
  <2>1. CASE cut \/ from = target
    BY <1>2, <1>5, <2>1
  <2>2. CASE ~cut /\ from # target
    <3>1. PICK n : n = Len(index.pages)
      OBVIOUS
    <3>2. n \in Nat /\ Lines = 1..n
      BY <3>1, IndexLists DEF GraphInv
    <3>3. near = NearIn(Lines, inlinksOf, outlinksOf) /\ weight = WeightIn(Lines, inlinksOf)
      BY <1>1 DEF LinkedTo, Weights
    <3>4. Settled(from, target, path_distances, visited, FALSE)
      BY <1>3, <2>2 DEF Settled
    <3>5. /\ Explored(Lines, near, weight, limit, from, target, path_distances, previous, visited)
          /\ Linked(Lines, near, weight, limit)
          /\ \A p, q \in Lines : q \in near[p] => p \in near[q]
      BY <1>1, <1>3, <1>4
    <3>6. ReachedAt(target, path_distances) <= LeastCosts(from)[target]
      BY <2>2, <3>2, <3>3, <3>4, <3>5, LeastCostsHold
    <3>7. QED
      BY <1>2, <2>2, <3>6
  <2>3. QED
    BY <2>1, <2>2
<1>7. CASE search = "none"
  <2>1. TracedBack(lines, "none", from, target, previous, printed)
    BY <1>3, <1>7
  <2>2. /\ printed # <<>> /\ printed \in Seq(lines) /\ printed[Len(printed)] = target /\ printed[1] \notin DOMAIN previous
        /\ \A n \in 1..Len(printed) - 1 : printed[n + 1] \in DOMAIN previous /\ printed[n] = previous[printed[n + 1]]
        /\ \A n \in 1..Len(printed) - 1 : printed[n] # from
    BY <2>1 DEF TracedBack
  <2>3. Len(printed) = 1
    <3>1. PICK k : k = Len(printed)
      OBVIOUS
    <3>2. k \in Nat /\ k # 0
      <4>1. printed \in Seq(lines) /\ printed # <<>>
        BY <2>2
      <4>2. QED
        BY <3>1, <4>1
    <3>3. SUFFICES ASSUME k # 1 PROVE FALSE
      BY <3>1
    <3>4. 1 \in 1..k - 1 /\ 1 + 1 = 2
      BY <3>2, <3>3
    <3>5. printed[2] \in DOMAIN previous /\ printed[1] = previous[printed[2]] /\ printed[1] # from
      BY <2>2, <3>1, <3>4
    <3>6. printed[1] \in visited
      BY <1>3, <3>5 DEF Explored, Reached
    <3>7. printed[1] \in DOMAIN previous
      BY <1>3, <3>5, <3>6 DEF Explored
    <3>8. QED
      BY <2>2, <3>7
  <2>4. target \notin DOMAIN path_distances
    BY <1>3, <2>2, <2>3 DEF Explored
  <2>5. ReachedAt(target, path_distances) = IntMax
    BY <2>4 DEF ReachedAt
  <2>6. least >= IntMax
    BY <1>6, <2>5
  <2>7. QED
    BY <1>1, <1>2, <1>7, <2>6 DEF ChainIsCheapest
<1>8. CASE search = "chain"
  <2>1. /\ TracedBack(lines, "chain", from, target, previous, printed)
        /\ Explored(lines, near, weight, limit, from, target, path_distances, previous, visited)
        /\ \A p \in lines : weight[p] = PageWeight(p)
    BY <1>3, <1>4, <1>8
  <2>2. /\ PathCost(printed) = path_distances[target].distance /\ target \in DOMAIN path_distances
        /\ Len(printed) <= LinkLimit + 2 /\ printed[1] = from
        /\ \A n \in 1..Len(printed) - 1 : printed[n] \in lines /\ printed[n + 1] \in near[printed[n]]
    <3>1. PICK shown, dist, prev, closed :
            shown = printed /\ dist = path_distances /\ prev = previous /\ closed = visited
      OBVIOUS
    <3>2. /\ TracedBack(lines, "chain", from, target, prev, shown)
          /\ Explored(lines, near, weight, limit, from, target, dist, prev, closed)
          /\ \A p \in lines : weight[p] = PageWeight(p)
      BY <2>1, <3>1
    <3>3. /\ PathCost(shown) = dist[target].distance /\ target \in DOMAIN dist
          /\ Len(shown) <= LinkLimit + 2 /\ shown[1] = from
          /\ \A n \in 1..Len(shown) - 1 : shown[n] \in lines /\ shown[n + 1] \in near[shown[n]]
      BY <3>2, ChainCosts
    <3>4. QED
      BY <3>1, <3>3
  <2>3. PathCost(printed) <= least
    BY <1>6, <2>2 DEF ReachedAt
  <2>4. \A n \in 1..Len(printed) - 1 : Touching(printed[n], printed[n + 1])
    BY <1>4, <2>2 DEF Touching
  <2>5. QED
    BY <1>1, <1>2, <1>8, <2>2, <2>3, <2>4 DEF ChainIsCheapest
<1>9. QED
  BY <1>7, <1>8

(* The chain WikipediaGraph::page_chain prints joins the two pages asked   *)
(* for by links, in at most one link more than the limit; and if the       *)
(* search gave up no path for its length, no other walk between them is    *)
(* cheaper, and no chain is printed only when there is no walk.  So it is  *)
(* for every index, however its pages are linked.                          *)
THEOREM ChainsStayCheapest ==
  (index \in Indexes /\ InitGraph) /\ [][NextGraph /\ UNCHANGED index]_<<graphVars, index>> => []ChainIsCheapest
<1>1. index \in Indexes /\ InitGraph => GraphInv
  BY GraphInitially
<1>2. GraphInv /\ [NextGraph /\ UNCHANGED index]_<<graphVars, index>> => GraphInv'
  BY GraphInvKept
<1>3. GraphInv => ChainIsCheapest
  BY ChainMeets
<1>4. QED
  BY <1>1, <1>2, <1>3, PTL

====
