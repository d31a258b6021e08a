------------------------------ MODULE MinQueue ------------------------------
(* What a priority queue with decrease_key promises: every key gets a      *)
(* distance once, distances only fall, and delete_min returns a waiting    *)
(* key that no waiting key undercuts, or None only if none is waiting.     *)
EXTENDS Naturals

CONSTANTS Key, Distance, None

VARIABLES
  dist,       (* the distance of each key, or None                         *)
  waiting,    (* the keys inserted and not deleted yet                     *)
  result      (* what delete_min returned last                             *)

vars == <<dist, waiting, result>>

Init ==
  /\ dist = [k \in Key |-> None]
  /\ waiting = {}
  /\ result = None

Insert(k, d) ==
  /\ dist[k] = None
  /\ dist' = [dist EXCEPT ![k] = d]
  /\ waiting' = waiting \cup {k}
  /\ UNCHANGED result

(* A key that has left keeps a distance, which may still fall.             *)
DecreaseKey(k, d) ==
  /\ dist[k] # None
  /\ d < dist[k]
  /\ dist' = [dist EXCEPT ![k] = d]
  /\ UNCHANGED <<waiting, result>>

Least(k) == k \in waiting /\ \A other \in waiting : dist[k] <= dist[other]

DeleteMin ==
  /\ \/ \E k \in Key : Least(k) /\ result' = k /\ waiting' = waiting \ {k}
     \/ waiting = {} /\ result' = None /\ UNCHANGED waiting
  /\ UNCHANGED dist

Next ==
  \/ \E k \in Key, d \in Distance : Insert(k, d) \/ DecreaseKey(k, d)
  \/ DeleteMin

Spec == Init /\ [][Next]_vars
=============================================================================
