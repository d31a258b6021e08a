------------------------- MODULE WikipediaNeighborSet -------------------------
(***************************************************************************)
(* WikipediaNeighborSetImpl of c/wikipedia and the server that answers     *)
(* with it: the distances of an index, by the names of pages.              *)
(***************************************************************************)
EXTENDS WikipediaIndex

CONSTANTS
  DistanceAsks,   (* sequences of names a client sends                     *)
  SizeRange       (* neighbors_size is a byte: 256                         *)

VARIABLES
  neighbors_,     (* of each name, the number of its holder                *)
  holders,        (* of each page_neighbors_t: title, ambiguous, neighbors *)
  serves,         (* what the program has done last                        *)
  answered        (* what it answered                                      *)

neighborVars == <<neighbors_, holders, serves, answered>>

InitNeighbors == neighbors_ = <<>> /\ holders = <<>> /\ serves = "start" /\ answered = <<>>

(* add_to_neighbors: behind the last number a byte holds the array shrinks *)
(* to nothing.                                                             *)
AddNeighbor(seq, n) == IF Len(seq) + 1 = SizeRange THEN <<>> ELSE Append(seq, n)

(* load, file by file; a redirect names its page by id.                    *)
NeighborStep(from, to) == serves = from /\ serves' = to /\ UNCHANGED answered
LoadNeighborPages ==
  /\ NeighborStep("start", "redirects")
  /\ neighbors_' = TitleTable(Lines)
  /\ holders' = [n \in Lines |-> [title |-> index.pages[n].title, ambiguous |-> index.pages[n].ambiguous,
                                  neighbors |-> <<>>]]
LoadNeighborRedirects ==
  /\ NeighborStep("redirects", "distances")
  /\ LET table == PageTable(Lines)
     IN  neighbors_' = FoldLeft(LAMBDA names, r : Named(names, r.name, table[r.id]), neighbors_, index.redirects)
  /\ UNCHANGED holders
LoadDistances ==
  /\ NeighborStep("distances", "loaded")
  /\ LET table == PageTable(Lines)
         to(r) == [title |-> holders[table[r.second]].title, distance |-> r.distance]
         of(n) == SelectSeq(index.distances, LAMBDA r : table[r.first] = n)
     IN  holders' = [n \in Lines |-> [holders[n] EXCEPT !.neighbors =
                        FoldLeft(LAMBDA near, r : AddNeighbor(near, to(r)), <<>>, of(n))]]
  /\ UNCHANGED neighbors_

RelationshipsOf(name, holder) ==
  [n \in DOMAIN holder.neighbors |->
     [first |-> name, second |-> holder.neighbors[n].title, distance |-> holder.neighbors[n].distance]]

(* neighbors, distances, and the reply of WikiDistanceCalculatorHandler    *)
NeighborsByName(name) ==
  IF name \in DOMAIN neighbors_ /\ ~holders[neighbors_[name]].ambiguous
  THEN RelationshipsOf(name, holders[neighbors_[name]]) ELSE <<>>
AskDistances(tuples) ==
  /\ serves = "loaded"
  /\ answered' = FlattenSeq([n \in DOMAIN tuples |-> NeighborsByName(tuples[n])])
  /\ serves' = "distances"
  /\ UNCHANGED <<neighbors_, holders>>

(* map, with verify_relationships of wikipedia_index_validator: the names  *)
(* it calls related to themselves.                                         *)
ValidateIndex ==
  /\ serves = "loaded"
  /\ answered' = SetToSeq({name \in DOMAIN neighbors_ :
                             \E r \in ToSet(RelationshipsOf(name, holders[neighbors_[name]])) :
                                r.first = r.second})
  /\ serves' = "validated"
  /\ UNCHANGED <<neighbors_, holders>>

NextNeighbors ==
  \/ LoadNeighborPages \/ LoadNeighborRedirects \/ LoadDistances
  \/ (\E tuples \in DistanceAsks : AskDistances(tuples)) \/ ValidateIndex
=============================================================================
