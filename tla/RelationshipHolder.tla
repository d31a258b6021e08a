------------------------- MODULE RelationshipHolder -------------------------
(***************************************************************************)
(* The store of distances between sites behind the relationship server:    *)
(* SixtyFourRelationshipHolderImpl of                                      *)
(* c/relationship_server/relationship_holder.cpp.                          *)
(*                                                                         *)
(* It keeps the same facts twice.  relationships_ maps a pair of sites to  *)
(* their distance; close_sites_ maps a site to a C array of the sites near *)
(* it, so that a lookup need not scan the pairs.  Only relationships_ is   *)
(* persisted; load and rotate rebuild the arrays.  What can go wrong is    *)
(* that the two drift apart.                                               *)
(*                                                                         *)
(* Arrays are sequences of 32-bit integers.  They are looked at byte by    *)
(* byte in one place only, where remove_close_sites mixes up bytes and     *)
(* elements.  Names marked (mutant) are wrong on purpose: each is what a   *)
(* plausible slip would make of the definition behind it, and nothing else *)
(* uses it.                                                                *)
(***************************************************************************)
EXTENDS Integers, Sequences, FiniteSets, SequencesExt

CONSTANTS
  Site,            (* site ids, positive integers below 256                *)
  Distance,        (* the distances stored, a subset of 0..255             *)
  CloseThreshold,  (* CLOSE_THRESHOLD, 160                                 *)
  StoreThreshold,  (* STORE_THRESHOLD: build keeps no larger distance      *)
  HeapByte,        (* values of the bytes of the heap behind an array      *)
  None,            (* no entry, no file                                    *)
  MaxDestroys,     (* bound: calls of destroy in a behaviour               *)
  MaxLoads,        (* bound: calls of load and rotate in a behaviour       *)
  MaxBuilds        (* bound: distances computed in a behaviour             *)

ASSUME HolderAssumption ==
  /\ Site \subseteq 1..255
  /\ Distance \subseteq 0..255
  /\ HeapByte \subseteq 0..255
  /\ {MaxDestroys, MaxLoads, MaxBuilds} \subseteq Nat
  /\ CloseThreshold \in 0..254
  /\ None \notin Distance \cup Seq(Nat)

(* The smaller id comes first in a key, except where calculate_distance_-   *)
(* between is called with the larger one first.                            *)
Key == {k \in Site \X Site : k[1] # k[2]}
OrderedKey(a, b) == IF a < b THEN <<a, b>> ELSE <<b, a>>

VARIABLES
  relationships,   (* relationships_: the distance of each key, or None    *)
  closeSites,      (* close_sites_: the array of each site, or None        *)
  file,            (* what persist wrote last, or None                     *)
  deletable,       (* set_deleted_key has been called on both tables       *)
  aborted,         (* sparse_hash_map's assertion has stopped the program  *)
  destroys,        (* calls of destroy so far                              *)
  loads,           (* calls of load and rotate so far                      *)
  builds,          (* distances computed so far                            *)
  damage           (* history: what has set the two tables apart           *)

tables == <<relationships, closeSites>>
bounds == <<destroys, loads, builds>>
vars == <<tables, file, deletable, aborted, bounds, damage>>

NoRelationships == [k \in Key |-> None]
NoCloseSites == [s \in Site |-> None]

CloseTo(ch, s) == IF ch[s] = None THEN {} ELSE ToSet(ch[s])   (* sites_close_to *)

Init ==
  /\ relationships = NoRelationships /\ closeSites = NoCloseSites
  /\ file = None /\ deletable = TRUE /\ aborted = FALSE
  /\ destroys = 0 /\ loads = 0 /\ builds = 0
  /\ damage = {}

-----------------------------------------------------------------------------
(* The arrays                                                              *)

(* update_close_sites: append unless it is there already.                  *)
Link(ch, s, o) ==
  [ch EXCEPT ![s] = CASE @ = None        -> <<o>>
                      [] o \in CloseTo(ch, s) -> @
                      [] OTHER           -> Append(@, o)]
LinkBoth(ch, k) == Link(Link(ch, k[1], k[2]), k[2], k[1])

(* What remove_close_sites leaves of the array a when it removes a[k + 1]. *)
(* The new array takes k BYTES from the front of the old one, though k     *)
(* elements are meant, and the rest from the element behind the removed    *)
(* one on; for k > 0 that reads 3k bytes beyond the end of the old array.  *)
Place == <<1, 256, 65536, 16777216>>          (* of the bytes in a word    *)
Byte(a, i, heap) ==
  IF i < 4 * Len(a) THEN (a[(i \div 4) + 1] \div Place[(i % 4) + 1]) % 256 ELSE heap
CopiedByte(a, k, i, heap) == Byte(a, IF i < k THEN i ELSE i + 3 * k + 4, heap)
Word(a, k, i, heap) ==
  LET part(b) == CopiedByte(a, k, 4 * i + b, heap) * Place[b + 1]
  IN  part(0) + part(1) + part(2) + part(3)
Shrunk(a, k, heap) == [i \in 1..Len(a) - 1 |-> Word(a, k, i - 1, heap)]

IndexIn(a, o) == CHOOSE i \in DOMAIN a : a[i] = o /\ \A j \in 1..i - 1 : a[j] # o

Unlink(ch, s, o, heap) ==
  IF o \notin CloseTo(ch, s) THEN ch
  ELSE [ch EXCEPT ![s] = IF Len(@) > 1 THEN Shrunk(@, IndexIn(@, o) - 1, heap) ELSE <<>>]

(* Removing anything but the first of several elements goes wrong.         *)
Misplaces(ch, s, o) ==
  o \in CloseTo(ch, s) /\ Len(ch[s]) > 1 /\ IndexIn(ch[s], o) > 1

(* load and rotate: visit the pairs in the order of the hash table.        *)
ClosePairs(rel) == {k \in Key : rel[k] # None /\ rel[k] <= CloseThreshold}
Orders(S) == {order \in [1..Cardinality(S) -> S] : ToSet(order) = S}
Rebuilt(ch, order) == FoldLeft(LinkBoth, ch, order)

-----------------------------------------------------------------------------
(* The operations                                                          *)

store(s, o, distance) ==
  /\ relationships' = [relationships EXCEPT ![OrderedKey(s, o)] = distance]
  /\ closeSites' = LinkBoth(closeSites, <<s, o>>)
  /\ UNCHANGED <<file, deletable, aborted, bounds, damage>>

(* sparse_hash_map::erase asserts that set_deleted_key was called; rotate  *)
(* replaces both tables by tables on which it was not.                     *)
DestroyOneSided(s, o) ==                                       (* mutant *)
  /\ destroys < MaxDestroys /\ destroys' = destroys + 1
  /\ relationships' = [relationships EXCEPT ![OrderedKey(s, o)] = None]
  /\ \E heap \in HeapByte : closeSites' = Unlink(closeSites, s, o, heap)
  /\ damage' = IF Misplaces(closeSites, s, o) THEN damage \cup {"memcpy"} ELSE damage
  /\ UNCHANGED <<file, deletable, aborted, loads, builds>>

destroy(s, o) ==
  /\ destroys < MaxDestroys
  /\ destroys' = destroys + 1
  /\ LET k == OrderedKey(s, o)
         found == relationships[k] # None
         erased == found /\ deletable
     IN  /\ aborted' = (found /\ ~deletable)
         /\ relationships' = IF erased THEN [relationships EXCEPT ![k] = None] ELSE relationships
         /\ \E h1, h2 \in HeapByte :
              closeSites' = IF erased THEN Unlink(Unlink(closeSites, s, o, h1), o, s, h2)
                            ELSE closeSites
         /\ damage' = IF erased /\ (Misplaces(closeSites, s, o) \/ Misplaces(closeSites, o, s))
                      THEN damage \cup {"memcpy"} ELSE damage
  /\ UNCHANGED <<file, deletable, loads, builds>>

(* fopen may fail; then the old file stays.                                *)
persist ==
  /\ file' = relationships
  /\ UNCHANGED <<tables, deletable, aborted, bounds, damage>>

(* load replaces relationships_, but adds to the arrays that are there.    *)
load ==
  /\ loads < MaxLoads /\ loads' = loads + 1
  /\ file # None
  /\ relationships' = file
  /\ \E order \in Orders(ClosePairs(file)) : closeSites' = Rebuilt(closeSites, order)
  /\ damage' = IF \E s \in Site : CloseTo(closeSites, s) # {}
               THEN damage \cup {"load"} ELSE {}
  /\ UNCHANGED <<file, deletable, aborted, destroys, builds>>

(* rotate starts from new tables, which stay empty if there is no file.    *)
rotate ==
  LET rel == IF file = None THEN NoRelationships ELSE file
  IN  /\ loads < MaxLoads /\ loads' = loads + 1
      /\ relationships' = rel
      /\ \E order \in Orders(ClosePairs(rel)) : closeSites' = Rebuilt(NoCloseSites, order)
      /\ deletable' = FALSE
      /\ damage' = {}
      /\ UNCHANGED <<file, aborted, destroys, builds>>

clear ==
  /\ relationships' = NoRelationships
  /\ closeSites' = NoCloseSites
  /\ damage' = {}
  /\ UNCHANGED <<file, deletable, aborted, bounds>>

(* calculate_one_distance of a pair, called by build for every x < y and by *)
(* calculate_distance_between for the two sites it is given, in the order  *)
(* given; the distance is a function of the links, which are not modelled  *)
(* here.  close_sites_ is left alone.                                      *)
calculate_one_distance(x, y) ==
  /\ builds < MaxBuilds /\ builds' = builds + 1
  /\ \E d \in {e \in Distance : e <= StoreThreshold} :
       relationships' = [relationships EXCEPT ![<<x, y>>] = d]
  /\ damage' = damage \cup {"calculated"}
  /\ UNCHANGED <<closeSites, file, deletable, aborted, destroys, loads>>

Next ==
  /\ ~aborted
  /\ \/ \E s, o \in Site, d \in Distance : s # o /\ store(s, o, d)
     \/ \E s, o \in Site : s # o /\ destroy(s, o)
     \/ \E x, y \in Site : x # y /\ calculate_one_distance(x, y)
     \/ persist
     \/ load
     \/ rotate
     \/ clear

Spec == Init /\ [][Next]_vars

-----------------------------------------------------------------------------
(* The lookups                                                             *)

distance_between(a, b) ==
  LET d == relationships[OrderedKey(a, b)] IN IF d = None THEN 255 ELSE d

(* distances: the pairs i < j of the sorted ids, looked up with the smaller *)
(* index first.                                                            *)
Ascending(ids) ==
  LET order == CHOOSE p \in [DOMAIN ids -> DOMAIN ids] :
                 /\ IsInjective(p)
                 /\ \A i, j \in DOMAIN ids : i < j => ids[p[i]] <= ids[p[j]]
  IN  [n \in DOMAIN ids |-> ids[order[n]]]
DistancesUnsorted(ids) ==                                      (* mutant *)
  LET pairs == {p \in (DOMAIN ids) \X (DOMAIN ids) : p[1] < p[2]}
      found == {p \in pairs : relationships[<<ids[p[1]], ids[p[2]]>>] # None}
  IN  {<<ids[p[1]], ids[p[2]], relationships[<<ids[p[1]], ids[p[2]]>>]>> : p \in found}
distances(ids) ==
  LET sorted == Ascending(ids)
      pairs == {p \in (DOMAIN ids) \X (DOMAIN ids) : p[1] < p[2]}
      found == {p \in pairs : relationships[<<sorted[p[1]], sorted[p[2]]>>] # None}
  IN  {<<sorted[p[1]], sorted[p[2]], relationships[<<sorted[p[1]], sorted[p[2]]>>]>> : p \in found}

-----------------------------------------------------------------------------
(* Properties                                                              *)

(* Every entry has its type; unless remove_close_sites has misplaced       *)
(* elements, an array holds ids of other sites only.                       *)
TypeOK ==
  /\ relationships \in [Key -> Distance \cup {None}]
  /\ \A s \in Site : closeSites[s] # None => closeSites[s] \in Seq(Nat)
  /\ file # None => file \in [Key -> Distance \cup {None}]
  /\ deletable \in BOOLEAN /\ aborted \in BOOLEAN
  /\ destroys \in 0..MaxDestroys /\ loads \in 0..MaxLoads /\ builds \in 0..MaxBuilds
  /\ damage \subseteq {"memcpy", "load", "calculated"}
  /\ "memcpy" \notin damage => \A s \in Site : CloseTo(closeSites, s) \subseteq Site \ {s}

ReversedKeys == {k \in Key : k[1] > k[2] /\ relationships[k] # None}

(* The arrays hold exactly what the pairs say, whatever the calls and their *)
(* order: closeness is mutual, a close pair has a distance, and a pair     *)
(* within the threshold is close.  It holds as long as no destroy has hit  *)
(* an element behind the first, no load has run on top of filled arrays,   *)
(* and no distance has been computed since the arrays were last rebuilt.   *)
(* No site is ever listed twice, short of the first of these.              *)
CloseSitesMirror ==
  /\ TypeOK
  /\ damage = {} /\ ReversedKeys = {} =>
       \A s, o \in Site :
         /\ o \in CloseTo(closeSites, s) =>
              /\ s \in CloseTo(closeSites, o)
              /\ relationships[OrderedKey(s, o)] # None
         /\ s # o /\ distance_between(s, o) <= CloseThreshold => o \in CloseTo(closeSites, s)
  /\ "memcpy" \notin damage =>
       \A s \in Site : closeSites[s] # None => IsInjective(closeSites[s])

(* distances answers for any order of distinct ids what distance_between   *)
(* answers pair by pair.                                                   *)
DistancesAgree ==
  ReversedKeys = {} =>
    \A ids \in SetToAllKPermutations(Site) :
      distances(ids) = {r \in ToSet(ids) \X ToSet(ids) \X Distance :
                          /\ r[1] < r[2]
                          /\ relationships[OrderedKey(r[1], r[2])] = r[3]}

(* full_sorted_output calls it an error when a site is close to another    *)
(* without a distance between the two (relationship_holder.cpp:735).  The  *)
(* code gets there with store and destroy alone.                           *)
EveryCloseSiteHasDistance ==
  \A s \in Site : \A o \in CloseTo(closeSites, s) :
    o \in Site \ {s} /\ relationships[OrderedKey(s, o)] # None
=============================================================================
