---------------------------- MODULE BucketQueue ----------------------------
(***************************************************************************)
(* BucketQueue of c/graph/sparse_graph.cpp: the priority queue behind      *)
(* shortest_chain.  Bucket d is a doubly linked list of the paths of       *)
(* length d, its head first; id_to_path_map_ keeps a path for every page   *)
(* ever inserted, also after delete_min has unlinked it.                   *)
(*                                                                         *)
(* Here a path is named by its page, and the links of a list by the        *)
(* sequence of its pages.  Definitions marked (mutant) are wrong on        *)
(* purpose, plausible slips in the definition they are named after, and    *)
(* nothing else uses them.                                                 *)
(***************************************************************************)
EXTENDS Integers, Sequences, FiniteSets

CONSTANTS
  Page,        (* the pages that can be keys                               *)
  MaxBucket,   (* max_bucket_, 255 * 3                                     *)
  Links,       (* the link counts callers pass                             *)
  None         (* NULL                                                     *)

ASSUME QueueAssumption ==
  /\ MaxBucket \in Nat
  /\ Links \subseteq Nat
  /\ None \notin Page
  /\ None \notin Nat

Distance == 0..MaxBucket

VARIABLES
  buckets,     (* buckets_: the lists                                      *)
  distance,    (* id_to_path_map_[p]->distance, None before the insert     *)
  links,       (* id_to_path_map_[p]->links                                *)
  minBucket,   (* min_bucket_                                              *)
  size,        (* size_                                                    *)
  deleted      (* what delete_min returned last                            *)

vars == <<buckets, distance, links, minBucket, size, deleted>>

InBucket(p, d) == \E i \in DOMAIN buckets[d] : buckets[d][i] = p
Queued(p) == \E d \in Distance : InBucket(p, d)      (* path->prev != NULL *)

Init ==
  /\ buckets = [d \in Distance |-> <<>>]
  /\ distance = [p \in Page |-> None]
  /\ links = [p \in Page |-> None]
  /\ minBucket = MaxBucket
  /\ size = 0
  /\ deleted = None

-----------------------------------------------------------------------------
(* remove_path_from_bucket: unlink p from a list that holds it.            *)
Without(list, p) ==
  LET n == CHOOSE i \in DOMAIN list : list[i] = p
  IN  [i \in 1..Len(list) - 1 |-> IF i < n THEN list[i] ELSE list[i + 1]]

(* place_path_in_correct_bucket: p becomes the head of list d.             *)
PlaceOnly(b, p, d) ==                                          (* mutant *)
  /\ buckets' = [b EXCEPT ![d] = <<p>> \o @]
  /\ UNCHANGED minBucket
Place(b, p, d) ==
  /\ buckets' = [b EXCEPT ![d] = <<p>> \o @]
  /\ minBucket' = IF d < minBucket THEN d ELSE minBucket

insert(p, d, l) ==
  /\ distance' = [distance EXCEPT ![p] = d]
  /\ links' = [links EXCEPT ![p] = l]
  /\ Place(buckets, p, d)
  /\ size' = size + 1
  /\ UNCHANGED deleted

DecreaseInPlace(p, d, l) ==                                    (* mutant *)
  /\ distance' = [distance EXCEPT ![p] = d]
  /\ links' = [links EXCEPT ![p] = l]
  /\ UNCHANGED <<buckets, minBucket, size, deleted>>

(* A path that has left the queue gets its new distance and stays out.     *)
decrease_key(p, d, l) ==
  /\ distance[p] # None
  /\ distance' = [distance EXCEPT ![p] = d]
  /\ links' = [links EXCEPT ![p] = l]
  /\ IF Queued(p)
     THEN Place([buckets EXCEPT ![distance[p]] = Without(@, p)], p, d)
     ELSE UNCHANGED <<buckets, minBucket>>
  /\ UNCHANGED <<size, deleted>>

(* The search for the new minimum stops short of the last bucket, which is *)
(* where it ends when it finds nothing.                                    *)
FirstFilledBeyond(b, from) ==                                  (* mutant *)
  CHOOSE i \in from..MaxBucket :
    /\ i < MaxBucket => i > from /\ b[i] # <<>>
    /\ \A j \in from + 1..i - 1 : b[j] = <<>>
FirstFilled(b, from) ==
  CHOOSE i \in from..MaxBucket :
    /\ i < MaxBucket => b[i] # <<>>
    /\ \A j \in from..i - 1 : b[j] = <<>>

DeleteMinUncounted ==                                          (* mutant *)
  IF buckets[minBucket] = <<>>
  THEN deleted' = None /\ UNCHANGED <<buckets, distance, links, minBucket, size>>
  ELSE /\ deleted' = Head(buckets[minBucket])
       /\ buckets' = [buckets EXCEPT ![minBucket] = Tail(@)]
       /\ minBucket' = FirstFilled(buckets', minBucket)
       /\ UNCHANGED <<distance, links, size>>

delete_min ==
  IF buckets[minBucket] = <<>>
  THEN deleted' = None /\ UNCHANGED <<buckets, distance, links, minBucket, size>>
  ELSE /\ deleted' = Head(buckets[minBucket])
       /\ buckets' = [buckets EXCEPT ![minBucket] = Tail(@)]
       /\ minBucket' = FirstFilled(buckets', minBucket)
       /\ size' = size - 1
       /\ UNCHANGED <<distance, links>>

(* The callers insert a page once, and then only decrease its distance.    *)
Next ==
  \/ \E p \in Page, d \in Distance, l \in Links :
       \/ distance[p] = None /\ insert(p, d, l)
       \/ distance[p] # None /\ d < distance[p] /\ decrease_key(p, d, l)
  \/ delete_min

Spec == Init /\ [][Next]_vars

-----------------------------------------------------------------------------
(* Properties                                                              *)

(* Every list holds pages, and min_bucket_ is a valid index.               *)
TypeOK ==
  /\ buckets \in [Distance -> Seq(Page)]
  /\ distance \in [Page -> Distance \cup {None}]
  /\ links \in [Page -> Links \cup {None}]
  /\ minBucket \in Distance
  /\ size \in Int
  /\ deleted \in Page \cup {None}

(* A page is linked once at most, in the bucket of its current distance:   *)
(* decrease_key moves it along and never links one again that has left.    *)
EachPathInItsBucket ==
  /\ \A d \in Distance : \A i \in DOMAIN buckets[d] :
       /\ distance[buckets[d][i]] = d
       /\ \A j \in DOMAIN buckets[d] : buckets[d][i] = buckets[d][j] => i = j

(* size_ counts the linked paths; shortest_chain loops while it is > 0.    *)
SizeIsNumberQueued == size = Cardinality({p \in Page : Queued(p)})

(* No bucket below min_bucket_ holds a path, and min_bucket_ itself is     *)
(* empty only when every bucket is: delete_min never overlooks a path.     *)
MinBucketIsLowest ==
  /\ \A d \in Distance : d < minBucket => buckets[d] = <<>>
  /\ buckets[minBucket] = <<>> => \A d \in Distance : buckets[d] = <<>>

(* What is cached agrees with the buckets: where a path is linked, how many *)
(* there are, and where the lowest is.                                     *)
CachesAgree == EachPathInItsBucket /\ SizeIsNumberQueued /\ MinBucketIsLowest

Abstract ==
  INSTANCE MinQueue WITH Key <- Page, dist <- distance, result <- deleted,
                         waiting <- {p \in Page : Queued(p)}

(* The bucket queue is a priority queue: delete_min returns a path of      *)
(* least distance, and NULL only when there is none.                       *)
ImplementsMinQueue == Abstract!Spec
=============================================================================
