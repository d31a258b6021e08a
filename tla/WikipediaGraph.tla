---------------------------- MODULE WikipediaGraph ----------------------------
(***************************************************************************)
(* WikipediaGraph of c/wikipedia: loads pages, redirects and links of an   *)
(* index, and page_chain searches for a chain of links between two titles, *)
(* cheap when it avoids the pages many others link to.  A link is followed *)
(* either way.  page_chain prints the chain; the list its caller passes    *)
(* for it stays empty.                                                     *)
(***************************************************************************)
EXTENDS WikipediaIndex

CONSTANTS
  ChainAsks,   (* pairs of titles                                          *)
  LinkLimit,   (* 5: a path of more links is not continued                 *)
  IntMax       (* INT_MAX                                                  *)

(* No chain costs INT_MAX: a page costs the number of links to it.         *)
ASSUME ChainAssumption ==
  /\ LinkLimit \in Nat /\ IntMax \in Nat
  /\ \A f \in Indexes : (LinkLimit + 1) * Len(f.outlinks) < IntMax

VARIABLES
  pages_,      (* of each title, the number of its page                    *)
  outlinksOf, inlinksOf,   (* of each page_t, a sequence of pages           *)
  search,      (* where page_chain is                                      *)
  asked,       (* the pages first and second                               *)
  queue,       (* the priority queue                                       *)
  path_distances, previous, visited,
  printed,     (* the pages printed                                        *)
  cut          (* history: whether a path was too long to be continued     *)

pageGraph == <<pages_, outlinksOf, inlinksOf>>
chainVars == <<search, asked, queue, path_distances, previous, visited, printed, cut>>
graphVars == <<pageGraph, chainVars>>

Nowhere == /\ asked = <<>> /\ queue = {} /\ path_distances = <<>> /\ previous = <<>>
           /\ visited = {} /\ printed = <<>> /\ cut = FALSE
InitGraph == pages_ = <<>> /\ outlinksOf = <<>> /\ inlinksOf = <<>> /\ search = "start" /\ Nowhere

-----------------------------------------------------------------------------
(* load, file by file.  A redirect line names its page by id, and  *)
(* load looks for a page with that TITLE.                                  *)
WithRedirect(names, line) ==
  LET second == <<ToString(line.id)>>
  IN  IF second \in DOMAIN names THEN Named(names, line.name, names[second]) ELSE names

LoadStep(from, to) ==
  /\ search = from /\ search' = to
  /\ UNCHANGED <<asked, queue, path_distances, previous, visited, printed, cut>>
LoadPages ==
  /\ LoadStep("start", "redirects")
  /\ pages_' = TitleTable(Lines)
  /\ UNCHANGED <<outlinksOf, inlinksOf>>
LoadRedirects ==
  /\ LoadStep("redirects", "outlinks")
  /\ pages_' = FoldLeft(WithRedirect, pages_, index.redirects)
  /\ UNCHANGED <<outlinksOf, inlinksOf>>
(* Each record adds an outlink to one page and an inlink to the other.     *)
AddToOutlinks(links, table, r) == [links EXCEPT ![table[r.first]] = Append(@, table[r.second])]
AddToInlinks(links, table, r) == [links EXCEPT ![table[r.second]] = Append(@, table[r.first])]
LoadOutlinks ==
  /\ LoadStep("outlinks", "loaded")
  /\ LET table == PageTable(Lines)
         none == [p \in Lines |-> <<>>]
     IN  /\ outlinksOf' = FoldLeft(LAMBDA links, r : AddToOutlinks(links, table, r), none, index.outlinks)
         /\ inlinksOf' = FoldLeft(LAMBDA links, r : AddToInlinks(links, table, r), none, index.outlinks)
  /\ UNCHANGED pages_

(* clear                                                                   *)
ClearPageGraph ==
  /\ LoadStep("loaded", "cleared")
  /\ pages_' = <<>> /\ outlinksOf' = <<>> /\ inlinksOf' = <<>>

-----------------------------------------------------------------------------
(* page_chain                                                              *)

ConnectedPages(p) == inlinksOf[p] \o outlinksOf[p]
PageWeight(p) == Len(inlinksOf[p])
PathTo(end, distance, links) == [end |-> end, distance |-> distance, links |-> links]

AskChain(first, second) ==
  /\ search = "loaded"
  /\ IF {first, second} \subseteq DOMAIN pages_
     THEN /\ asked' = <<pages_[first], pages_[second]>>
          /\ queue' = {PathTo(pages_[first], 0, 0)}
          /\ search' = "search"
     ELSE search' = "unknown" /\ UNCHANGED <<asked, queue>>
  /\ UNCHANGED <<pageGraph, path_distances, previous, visited, printed, cut>>

FarthestPath(path) == \A q \in queue : path.distance >= q.distance   (* mutant *)
NearestPath(path) == \A q \in queue : path.distance <= q.distance

(* The edges of a page.  An end gets the relaxed path if that is shorter   *)
(* than what it had, and its best path goes to the queue, again if it was  *)
(* there before.  A page linked both ways is looked at twice, to no effect.*)
RelaxedPath(current, end) ==
  LET known == IF current \in DOMAIN path_distances THEN path_distances[current]
               ELSE [distance |-> 0, links |-> 0]
  IN  [distance |-> known.distance + PageWeight(end), links |-> known.links + 1]
ShorterEnds(current) ==
  {end \in ToSet(ConnectedPages(current)) :
     RelaxedPath(current, end).distance
       < IF end \in DOMAIN path_distances THEN path_distances[end].distance ELSE IntMax}
RelaxEdges(path) ==
  LET current == path.end
      shorter == ShorterEnds(current)
      ends == ToSet(ConnectedPages(current))
  IN  /\ path_distances' = [p \in DOMAIN path_distances \cup shorter |->
                              IF p \in shorter THEN RelaxedPath(current, p) ELSE path_distances[p]]
      /\ previous' = [p \in DOMAIN previous \cup shorter |-> IF p \in shorter THEN current ELSE previous[p]]
      /\ LET over == {p \in ends : path_distances'[p].links > LinkLimit}
         IN  /\ queue' = (queue \ {path})
                          \cup {PathTo(p, path_distances'[p].distance, path_distances'[p].links) : p \in ends \ over}
             /\ cut' = (cut \/ over # {})

PopPath ==
  /\ search = "search"
  /\ \E path \in queue :
       LET current == path.end
       IN  /\ NearestPath(path)
           /\ \/ /\ current = asked[2]
                 /\ search' = "trace" /\ queue' = {}
                 /\ UNCHANGED <<path_distances, previous, visited, cut>>
              \/ /\ current # asked[2] /\ current \in visited
                 /\ queue' = queue \ {path}
                 /\ UNCHANGED <<search, path_distances, previous, visited, cut>>
              \/ /\ current # asked[2] /\ current \notin visited
                 /\ visited' = visited \cup {current}
                 /\ RelaxEdges(path)
                 /\ UNCHANGED search
  /\ UNCHANGED <<pageGraph, asked, printed>>

QueueEmpty ==
  /\ search = "search" /\ queue = {}
  /\ search' = "trace"
  /\ UNCHANGED <<pageGraph, asked, queue, path_distances, previous, visited, printed, cut>>

(* Back from the second page through previous, until the first is met.     *)
TraceBack ==
  /\ search = "trace"
  /\ LET cur == IF printed = <<>> THEN asked[2] ELSE Head(printed)
     IN  IF printed = <<>> THEN printed' = <<cur>> /\ UNCHANGED search
         ELSE IF cur \notin DOMAIN previous THEN search' = "none" /\ UNCHANGED printed
         ELSE /\ printed' = <<previous[cur]>> \o printed
              /\ search' = IF previous[cur] = asked[1] THEN "chain" ELSE "trace"
  /\ UNCHANGED <<pageGraph, asked, queue, path_distances, previous, visited, cut>>

NextGraph ==
  \/ LoadPages \/ LoadRedirects \/ LoadOutlinks \/ ClearPageGraph
  \/ \E ask \in ChainAsks : AskChain(ask[1], ask[2])
  \/ PopPath \/ QueueEmpty \/ TraceBack

-----------------------------------------------------------------------------
(* Properties                                                              *)

Touching(p, q) == q \in ToSet(ConnectedPages(p))
AddWeight(sum, p) == sum + PageWeight(p)
PathCost(walk) == FoldLeft(AddWeight, 0, Tail(walk))
(* The least cost of a walk to each page, by relaxing all of them at once. *)
LowerCosts(costs, round) ==
  [p \in Lines |-> Min({costs[p]} \cup {costs[q] + PageWeight(p) : q \in ToSet(ConnectedPages(p))})]
LeastCosts(from) ==
  FoldLeft(LowerCosts, [p \in Lines |-> IF p = from THEN 0 ELSE IntMax], [round \in Lines |-> round])

(* What page_chain prints is a chain of linked pages between the two it    *)
(* was asked for, of at most one link more than the limit; and when no     *)
(* path was given up for its length, no other chain is cheaper, and it     *)
(* prints none only if there is none.                                      *)
ChainIsCheapest ==
  search \in {"chain", "none"} =>
    LET least == IF cut \/ asked[1] = asked[2] THEN IntMax ELSE LeastCosts(asked[1])[asked[2]]
    IN  IF search = "none" THEN least >= IntMax
        ELSE /\ printed[1] = asked[1] /\ Len(printed) <= LinkLimit + 2
             /\ \A n \in 1..Len(printed) - 1 : Touching(printed[n], printed[n + 1])
             /\ PathCost(printed) <= least
=============================================================================
