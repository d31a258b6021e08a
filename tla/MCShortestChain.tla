-------------------------- MODULE MCShortestChain --------------------------
(* Graphs over a few pages as the graph files hold them.  An edge is       *)
(* listed with both of its pages, each with a distance of its own: the     *)
(* pairs of SkewPairs may have two weights.  A page that has no record of  *)
(* its own, but is the end of an edge, lists nothing: the Bare page may    *)
(* be one, and no set of ends resolves to it.                              *)
EXTENDS ShortestChain

CONSTANTS Weights, SkewPairs, Bare

Pairs == {p \in Page \X Page : p[1] < p[2]}
Even == {<<x, x>> : x \in Weights \cup {None}}
Skew == Weights \X Weights
Listed(Weight(_, _)) ==
  [u \in Page |->
     LET near == SetToSortSeq({v \in Page \ {u} : Weight(u, v) # None}, <)
     IN  [n \in DOMAIN near |-> Edge(u, near[n], Weight(u, near[n]))]]
Graph(w, bare) ==
  LET Weight(u, v) == IF u \in bare THEN None
                      ELSE IF u < v THEN w[<<u, v>>][1] ELSE w[<<v, u>>][2]
  IN  Listed(Weight)

(* Here the bound prunes the shorter way from page 1 to page 4, by page 2, *)
(* and the reverse search has nothing left to end the search with.         *)
Detour ==
  LET Weight(u, v) == CASE <<u, v>> = <<1, 2>> -> 1
                        [] <<u, v>> = <<2, 1>> -> 3
                        [] {u, v} = {2, 3} -> 1
                        [] {u, v} = {2, 4} -> 2
                        [] {u, v} = {1, 4} -> 4
                        [] OTHER -> None
  IN  Listed(Weight)
Weighings ==
  {w \in [Pairs -> Even \cup Skew] : \A p \in Pairs \ SkewPairs : w[p] \in Even}
(* Edges to a page that lists nothing lead nowhere: one weight is enough.  *)
ToBare == {p \in Pairs : Bare \in {p[1], p[2]}}
LightToBare == {w \in Weighings : \A p \in ToBare : w[p] \in {<<None, None>>, <<1, 1>>}}
MCGraphs == {Graph(w, {}) : w \in Weighings} \cup {Graph(w, {Bare}) : w \in LightToBare} \cup {Detour}

(* Graphs whose edges weigh the same either way, as both of their pages    *)
(* list them when the distance is symmetric.                               *)
MCEvenGraphs == {Graph(w, {}) : w \in [Pairs -> Even]}
FourPages == 1..4
MCSkewPairs == {<<1, 2>>}
MCEnds == {<<<<1>>, <<3>>>>, <<<<1, 2>>, <<3>>>>, <<<<3>>, <<1, 3>>>>, <<<<>>, <<3>>>>}
MCWeights == {1, 3}
=============================================================================
