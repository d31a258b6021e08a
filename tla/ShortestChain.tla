---------------------------- MODULE ShortestChain ----------------------------
(***************************************************************************)
(* SparseGraph::shortest_chain of c/graph/sparse_graph.cpp: a Dijkstra     *)
(* search from either end, each with a BucketQueue of its own, one page    *)
(* forward and one page in reverse in turn.  The source and the target are *)
(* sets of pages; a shadow page with an edge to each of them stands at     *)
(* either end.                                                             *)
(*                                                                         *)
(* One step is one delete_min with what the code decides on the page it    *)
(* returns, or one edge of that page.  Definitions marked (mutant) are     *)
(* wrong on purpose and nothing else uses them.                            *)
(***************************************************************************)
EXTENDS Integers, Sequences, FiniteSets, SequencesExt, FiniteSetsExt

CONSTANTS
  Page,          (* the pages of the graph                                 *)
  Src, Dst,      (* src_shadow and dst_shadow                              *)
  None,          (* NULL                                                   *)
  Graphs,        (* the graphs: of each page, the sequence of its edges    *)
  Ends,          (* pairs of sequences: the pages the two sets resolve to  *)
  Increasing,    (* increasing_distances, of both ends                     *)
  LinkLimits,    (* the values of max_links, 6 and 8 in the callers         *)
  MaxBucket,     (* max_bucket_ of the queues, 765                         *)
  Infinity       (* INT_MAX                                                *)

ASSUME ChainAssumption ==
  /\ Src # Dst /\ {Src, Dst} \cap Page = {}
  /\ None \notin Page \cup {Src, Dst}
  /\ IsFiniteSet(LinkLimits) /\ LinkLimits # {}
  /\ LinkLimits \cup {MaxBucket, Infinity} \subseteq Nat
  /\ MaxBucket < Infinity /\ None \notin Nat
  /\ Increasing \in BOOLEAN

(* Each edge of a page begins there and ends at a page of the graph.       *)
Vertex == Page \cup {Src, Dst}
Edges(from) == [begin : {from}, end : Page, weight : Nat]
ASSUME GraphAssumption ==
  /\ IsFiniteSet(Page)
  /\ \A v \in Vertex : None \notin Edges(v)
  /\ \A g \in Graphs : \A v \in Page : g[v] \in Seq(Edges(v))
  /\ Ends \subseteq Seq(Page) \X Seq(Page)

VARIABLES
  edges,         (* the edges of each page, shadows included               *)
  fBuckets, fDistance, fLinks, fMin, fSize, fPage,   (* queue, f_page      *)
  rBuckets, rDistance, rLinks, rMin, rSize, rPage,   (* r_queue, r_page    *)
  fScanned, rScanned,        (* f_scanned, r_scanned                       *)
  predecessors, successors,  (* the edge each page was reached by, or None *)
  sigma,         (* the length of the best chain met so far                *)
  topF, topR,    (* top_f, top_r                                           *)
  intersect, middle,
  pc,            (* the place in the loop                                  *)
  i,             (* the index of the edge to relax next                    *)
  chain,         (* the answer: edges from start to end                    *)
  ends,          (* the pages the two sets resolve to                      *)
  maxLinks       (* the argument max_links                                 *)

RealMaxLinks == maxLinks + 2

F == INSTANCE BucketQueue WITH
       Page <- Vertex, Links <- Nat, buckets <- fBuckets,
       distance <- fDistance, links <- fLinks, minBucket <- fMin,
       size <- fSize, deleted <- fPage
R == INSTANCE BucketQueue WITH
       Page <- Vertex, Links <- Nat, buckets <- rBuckets,
       distance <- rDistance, links <- rLinks, minBucket <- rMin,
       size <- rSize, deleted <- rPage

fVars == <<fBuckets, fDistance, fLinks, fMin, fSize, fPage, fScanned, predecessors, topF>>
rVars == <<rBuckets, rDistance, rLinks, rMin, rSize, rPage, rScanned, successors, topR>>
meeting == <<sigma, intersect>>
graph == <<edges, ends, maxLinks>>
vars == <<graph, fVars, rVars, meeting, middle, pc, i, chain>>

Edge(from, to, w) == [begin |-> from, end |-> to, weight |-> w]

(* build_shadow_page: the weights are bytes.                               *)
ShadowEdges(shadow, pages) ==
  [n \in DOMAIN pages |-> Edge(shadow, pages[n], IF Increasing THEN (10 * (n - 1)) % 256 ELSE 0)]

Init ==
  /\ ends \in Ends /\ maxLinks \in LinkLimits
  /\ \E g \in Graphs :
       edges = [v \in Vertex |-> CASE v = Src -> ShadowEdges(Src, ends[1])
                                   [] v = Dst -> ShadowEdges(Dst, ends[2])
                                   [] OTHER   -> g[v]]
  /\ F!Init /\ R!Init
  /\ fScanned = {} /\ rScanned = {}
  /\ predecessors = [v \in Vertex |-> None]
  /\ successors = [v \in Vertex |-> None]
  /\ sigma = Infinity /\ topF = 0 /\ topR = 0
  /\ intersect = None /\ middle = None
  /\ pc = "start" /\ i = 1 /\ chain = <<>>

(* An end without pages has no chain; otherwise both searches begin.       *)
Start ==
  /\ pc = "start"
  /\ IF ends[1] = <<>> \/ ends[2] = <<>>
     THEN /\ pc' = "done"
          /\ UNCHANGED <<fVars, rVars>>
     ELSE /\ F!insert(Src, 0, 0) /\ R!insert(Dst, 0, 0)
          /\ pc' = "forward"
          /\ UNCHANGED <<fScanned, predecessors, topF, rScanned, successors, topR>>
  /\ UNCHANGED <<graph, meeting, middle, i, chain>>

-----------------------------------------------------------------------------
(* A meeting of the two searches at page v, over a chain of length d.      *)
Meet(v, d) ==
  IF d < sigma THEN sigma' = d /\ intersect' = v ELSE UNCHANGED meeting

(* The search is over, or goes on with the edges of the page.              *)
AssembleAt(m) == pc' = "assemble" /\ middle' = m /\ UNCHANGED i
GoOn(place) == pc' = place /\ i' = 1 /\ UNCHANGED middle

(* Forward: the nearest page is scanned.  If it was scanned in reverse and *)
(* improves on sigma, the search is over.                                  *)
ForwardPage ==
  /\ pc = "forward"
  /\ fSize > 0 \/ rSize > 0
  /\ F!delete_min
  /\ IF fPage' = None
     THEN GoOn("reverse") /\ UNCHANGED <<fScanned, topF, meeting>>
     ELSE LET length == fDistance[fPage'] + rDistance[fPage']
              met == fPage' \in rScanned /\ length < sigma
          IN  /\ topF' = fDistance[fPage']
              /\ fScanned' = fScanned \cup {fPage'}
              /\ IF met THEN Meet(fPage', length) /\ AssembleAt(fPage')
                 ELSE GoOn("forward_edges") /\ UNCHANGED meeting
  /\ UNCHANGED <<graph, predecessors, rVars, chain>>

(* Reverse: the same, but first the search is over if the two fronts add   *)
(* up to more than sigma.                                                  *)
ReversePage ==
  /\ pc = "reverse"
  /\ R!delete_min
  /\ IF rPage' = None
     THEN GoOn("forward") /\ UNCHANGED <<rScanned, topR, meeting>>
     ELSE LET length == fDistance[rPage'] + rDistance[rPage']
              met == rPage' \in fScanned /\ length < sigma
          IN  /\ topR' = rDistance[rPage']
              /\ IF topR' + topF > sigma
                 THEN AssembleAt(intersect) /\ UNCHANGED <<rScanned, meeting>>
                 ELSE /\ rScanned' = rScanned \cup {rPage'}
                      /\ IF met THEN Meet(rPage', length) /\ AssembleAt(rPage')
                         ELSE GoOn("reverse_edges") /\ UNCHANGED meeting
  /\ UNCHANGED <<graph, successors, fVars, chain>>

(* Both queues are empty: middle stays NULL.                               *)
Exhausted ==
  /\ pc = "forward" /\ fSize = 0 /\ rSize = 0
  /\ pc' = "assemble"
  /\ UNCHANGED <<graph, fVars, rVars, meeting, middle, i, chain>>

-----------------------------------------------------------------------------
(* The edges.  A distance beyond the last bucket is written behind the     *)
(* array; what the program does from there on is undefined and the model   *)
(* stops at "overrun".                                                     *)
NextEdge == i' = i + 1 /\ UNCHANGED pc
Overrun == pc' = "overrun" /\ UNCHANGED i
PrunedByLength(d, l) == d > sigma                              (* mutant *)
Pruned(d, l) == d > sigma \/ l > RealMaxLinks

(* The meeting compares with the distance in the other search.             *)
ForwardEdge ==
  /\ pc = "forward_edges" /\ i <= Len(edges[fPage])
  /\ LET e == edges[fPage][i]
         d == fDistance[fPage] + e.weight
         l == fLinks[fPage] + 1
         nearer == fDistance[e.end] # None => d < fDistance[e.end]
     IN  IF Pruned(d, l)
         THEN NextEdge /\ UNCHANGED <<fVars, meeting>>
         ELSE /\ \/ /\ nearer /\ d > MaxBucket
                    /\ Overrun
                    /\ UNCHANGED <<fVars, meeting>>
                 \/ /\ nearer /\ d <= MaxBucket
                    /\ IF fDistance[e.end] = None THEN F!insert(e.end, d, l)
                       ELSE F!decrease_key(e.end, d, l)
                    /\ predecessors' = [predecessors EXCEPT ![e.end] = e]
                    /\ NextEdge
                    /\ IF e.end \in rScanned THEN Meet(e.end, d + rDistance[e.end])
                       ELSE UNCHANGED meeting
                    /\ UNCHANGED <<fScanned, topF>>
                 \/ /\ ~nearer
                    /\ NextEdge
                    /\ IF e.end \in rScanned THEN Meet(e.end, d + rDistance[e.end])
                       ELSE UNCHANGED meeting
                    /\ UNCHANGED fVars
  /\ UNCHANGED <<graph, rVars, middle, chain>>

(* The meeting adds the distance in the SAME search, r_queue.d(end), as it *)
(* is after the relaxation.                                                *)
ReverseEdge ==
  /\ pc = "reverse_edges" /\ i <= Len(edges[rPage])
  /\ LET e == edges[rPage][i]
         d == rDistance[rPage] + e.weight
         l == rLinks[rPage] + 1
         nearer == rDistance[e.end] # None => d < rDistance[e.end]
     IN  IF Pruned(d, l)
         THEN NextEdge /\ UNCHANGED <<rVars, meeting>>
         ELSE /\ \/ /\ nearer /\ d > MaxBucket
                    /\ Overrun
                    /\ UNCHANGED <<rVars, meeting>>
                 \/ /\ nearer /\ d <= MaxBucket
                    /\ IF rDistance[e.end] = None THEN R!insert(e.end, d, l)
                       ELSE R!decrease_key(e.end, d, l)
                    /\ successors' = [successors EXCEPT ![e.end] = e]
                    /\ NextEdge
                    /\ IF e.end \in fScanned THEN Meet(e.end, d + d)
                       ELSE UNCHANGED meeting
                    /\ UNCHANGED <<rScanned, topR>>
                 \/ /\ ~nearer
                    /\ NextEdge
                    /\ IF e.end \in fScanned THEN Meet(e.end, d + rDistance[e.end])
                       ELSE UNCHANGED meeting
                    /\ UNCHANGED rVars
  /\ UNCHANGED <<graph, fVars, middle, chain>>

EdgesDone ==
  /\ \/ pc = "forward_edges" /\ i > Len(edges[fPage]) /\ pc' = "reverse"
     \/ pc = "reverse_edges" /\ i > Len(edges[rPage]) /\ pc' = "forward"
  /\ UNCHANGED <<graph, fVars, rVars, meeting, middle, i, chain>>

-----------------------------------------------------------------------------
(* assemble_path: the edges from a page back to the shadow it was reached  *)
(* from, the shadow's own edge left out.                                   *)
TraceToShadow(reachedBy, from, shadow) ==                       (* mutant *)
  LET back[v \in Vertex] ==
        IF v = shadow \/ reachedBy[v] = None THEN <<>>
        ELSE <<reachedBy[v]>> \o back[reachedBy[v].begin]
  IN  back[from]
Trace(reachedBy, from, shadow) ==
  LET back[v \in Vertex] ==
        IF v = shadow \/ reachedBy[v] = None \/ reachedBy[v].begin = shadow THEN <<>>
        ELSE <<reachedBy[v]>> \o back[reachedBy[v].begin]
  IN  back[from]

Assemble ==
  /\ pc = "assemble"
  /\ pc' = "done"
  /\ chain' = IF middle = None THEN <<>>
              ELSE Reverse(Trace(predecessors, middle, Src)) \o Trace(successors, middle, Dst)
  /\ UNCHANGED <<graph, fVars, rVars, meeting, middle, i>>

(* *start_title and *end_title: the page a trace ends at.                  *)
FarEnd(trace, from) == IF trace = <<>> THEN from ELSE Last(trace).begin
StartTitle == FarEnd(Trace(predecessors, middle, Src), middle)
EndTitle == FarEnd(Trace(successors, middle, Dst), middle)

(* path_to_json of sparse_graph_controller.cpp: the links as a reader      *)
(* walks them, each edge turned so that it goes on from the last.          *)
path_to_json ==
  LET Link(from, e) == IF from = e.begin THEN [start |-> e.begin, end |-> e.end]
                       ELSE [start |-> e.end, end |-> e.begin]
      Walk(path, e) ==
        Append(path, Link(IF path = <<>> THEN StartTitle ELSE Last(path).end, e))
  IN  FoldLeft(Walk, <<>>, chain)

Stopped == pc \in {"done", "overrun"} /\ UNCHANGED vars

Next ==
  \/ Start \/ ForwardPage \/ ReversePage \/ Exhausted
  \/ ForwardEdge \/ ReverseEdge \/ EdgesDone
  \/ Assemble \/ Stopped

Spec == Init /\ [][Next]_vars /\ WF_vars(Next)
-----------------------------------------------------------------------------
(* Reference: the length of a shortest walk from a shadow to each page, by *)
(* the number of edges it may take (Bellman and Ford), Infinity where      *)
(* there is none.  As many edges as there are pages are enough.            *)
Nearest(shadow) ==
  LET all == UNION {ToSet(edges[u]) : u \in Vertex}
      into == [v \in Vertex |-> {e \in all : e.end = v}]
      near[n \in Nat] ==
        IF n = 0 THEN [v \in Vertex |-> IF v = shadow THEN 0 ELSE Infinity]
        ELSE LET fewer == near[n - 1]
             IN  [v \in Vertex |-> Min({fewer[v]} \cup {fewer[e.begin] + e.weight : e \in into[v]})]
  IN  near
Shortest(shadow) == Nearest(shadow)[Cardinality(Page)]

Connected == {v \in Page : Shortest(Src)[v] < Infinity /\ Shortest(Dst)[v] < Infinity}
ShortestLength == Min({Shortest(Src)[v] + Shortest(Dst)[v] : v \in Connected})

-----------------------------------------------------------------------------
(* Properties                                                              *)

(* Both queues keep what they promise under the calls this search makes,   *)
(* and every entry of the tables is an edge to its page or None.           *)
TypeOK ==
  /\ F!TypeOK /\ R!TypeOK
  /\ {fScanned, rScanned} \subseteq SUBSET Vertex
  /\ \A t \in {predecessors, successors} : \A v \in Vertex :
       t[v] # None => t[v] \in ToSet(edges[t[v].begin]) /\ t[v].end = v
  /\ {intersect, middle} \subseteq Page \cup {None}
  /\ pc \in {"start", "forward", "forward_edges", "reverse", "reverse_edges",
             "assemble", "done", "overrun"}

(* The distance a page is scanned with is never below the shortest, and it *)
(* is the shortest unless the search may have lost the way: where that is  *)
(* beyond sigma, or where another page, scanned at no greater distance,    *)
(* has used up its links, so that it passes nothing on.  In both searches, *)
(* for every link limit; one beyond the number of pages uses no page up.   *)
(* The early end at a meeting relies on it.                                *)
Final(scanned, distance, links, shortest) ==
  \A v \in scanned :
    /\ distance[v] >= shortest[v]
    /\ \/ distance[v] = shortest[v]
       \/ shortest[v] > sigma
       \/ \E x \in scanned \ {v} : links[x] >= RealMaxLinks /\ distance[x] <= shortest[v]
ScannedIsFinal ==
  /\ TypeOK
  /\ Final(fScanned, fDistance, fLinks, Shortest(Src))
  /\ Final(rScanned, rDistance, rLinks, Shortest(Dst))

(* What the controller sends is a walk from a page of the first set to a   *)
(* page of the second: every link starts where the one before it ended,    *)
(* though half of the edges were found in the other direction.             *)
PathIsWalk ==
  pc = "done" /\ middle # None =>
    LET path == path_to_json
        stops == <<StartTitle>> \o [n \in DOMAIN path |-> path[n].end]
    IN  /\ StartTitle \in ToSet(ends[1]) /\ EndTitle \in ToSet(ends[2])
        /\ Last(stops) = EndTitle
        /\ \A n \in DOMAIN path : path[n].start = stops[n]

(* The loop ends and the answer is assembled, for every graph the buckets  *)
(* can take: neither search keeps size() positive over an empty queue.     *)
SearchEnds == <>(pc \in {"done", "overrun"})

MaxWeight == Max({0} \cup {e.weight : e \in UNION {ToSet(edges[v]) : v \in Vertex}})

(* The link limit keeps every distance inside the buckets when there are   *)
(* as many as max_links + 1 heaviest edges need; the shadow's edge weighs  *)
(* nothing.  The callers pass 6 and 8 links, with edges up to 255, to      *)
(* queues of 765 buckets.  It holds for each search on its own: a chain    *)
(* can be almost twice as long, the shadow's link excepted, but no longer. *)
LinkLimitBounds ==
  /\ ~Increasing /\ MaxBucket >= (maxLinks + 1) * MaxWeight => pc # "overrun"
  /\ Len(chain) <= 2 * (RealMaxLinks - 1)

(* "finds the shortest chain between them" (sparse_graph.h:182): the one   *)
(* it returns is a shortest.  The reverse step takes the length of a       *)
(* meeting from the wrong queue, so that it ends the search with a chain   *)
(* that is longer than the direct edge.                                    *)
ChainIsShortest ==
  pc = "done" /\ middle # None /\ ~Increasing =>
    SumFunction([n \in DOMAIN chain |-> chain[n].weight]) = ShortestLength

(* That it returns one at all fails too, for another reason: the loop is   *)
(* left with the best meeting only at a page of the reverse queue, so that *)
(* the meeting is dropped when both queues run dry.                        *)
FindsAChain == pc = "done" /\ Connected # {} => middle # None
=============================================================================
