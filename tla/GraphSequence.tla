---------------------------- MODULE GraphSequence ----------------------------
(***************************************************************************)
(* meguro/wikipedia/wpt_graph_sequence.sh and the two scripts that turn    *)
(* its result into the files of the ConceptResolver: from the parsed       *)
(* Wikipedia to a graph, by maps and reduces over files of records.        *)
(*                                                                         *)
(* Where records of a file meet again, in the values a reduce gets for one *)
(* key, each record is mapped in a step of its own, in any order; the      *)
(* reduces, and the maps that are not followed by one, work on each record *)
(* by itself and are one step each.                                        *)
(***************************************************************************)
EXTENDS WikipediaMap, FiniteSets, FiniteSetsExt, Functions

CONSTANTS
  Title,      (* the names of pages                                        *)
  Nowhere,    (* "|", the end of redirects that loop                       *)
  Lower,      (* of a text, the text in lower case                         *)
  Dumps,      (* the parsed Wikipedias: partial functions from Title       *)
  Distances   (* the files wikipedia_indexer may make: from pairs of names *)

VARIABLES
  stage,      (* the script that runs                                      *)
  dump,
  distances,  (* the dictionary of the last script                         *)
  unmapped,   (* the keys the map has still to see                         *)
  values,     (* what was emitted for each key, in order                   *)
  phase1, redirects, ultimate, outlinks, graph,    (* the files            *)
  concepts, neighbors    (* the files of the resolver                      *)

input == <<dump, distances>>
vars == <<stage, input, unmapped, values, phase1, redirects, ultimate, outlinks, graph,
          concepts, neighbors>>

NoFile == <<>>
Lookup(dictionary, k) == IF k \in DOMAIN dictionary THEN dictionary[k] ELSE None
With(f, k, v) == [x \in DOMAIN f \cup {k} |-> IF x = k THEN v ELSE f[x]]
EmitTo(f, pairs) ==
  LET Put(g, p) == With(g, p[1], IF p[1] \in DOMAIN g THEN Append(g[p[1]], p[2]) ELSE <<p[2]>>)
  IN  FoldLeft(Put, f, pairs)

Init ==
  /\ stage = "phase1"
  /\ dump \in Dumps /\ distances \in Distances
  /\ unmapped = DOMAIN dump
  /\ values = NoFile /\ phase1 = NoFile /\ redirects = NoFile /\ ultimate = NoFile
  /\ outlinks = NoFile /\ graph = NoFile /\ concepts = NoFile /\ neighbors = NoFile

-----------------------------------------------------------------------------
(* graph_from_wpt_phase1.js: its reduce keeps the values as they are.      *)
MapPhase1 ==
  /\ stage = "phase1"
  /\ \E t \in unmapped :
       /\ values' = EmitTo(values, MapPage(t, dump[t]))
       /\ unmapped' = unmapped \ {t}
  /\ UNCHANGED <<stage, input, phase1, redirects, ultimate, outlinks, graph, concepts, neighbors>>

ReducePhase1 ==
  /\ stage = "phase1" /\ unmapped = {}
  /\ phase1' = values /\ values' = NoFile
  /\ stage' = "redirects"
  /\ UNCHANGED <<input, unmapped, redirects, ultimate, outlinks, graph, concepts, neighbors>>

(* phase1_to_redirects.js                                                  *)
RedirectsTo(t) == {r.alias : r \in {x \in ToSet(phase1[t]) : x.kind = "alias" /\ x.fr = "r"}}
MapRedirects ==
  /\ stage = "redirects"
  /\ redirects' = [x \in UNION {RedirectsTo(t) : t \in DOMAIN phase1} |->
                     CHOOSE t \in DOMAIN phase1 : x \in RedirectsTo(t)]
  /\ stage' = "ultimate"
  /\ UNCHANGED <<input, unmapped, values, phase1, ultimate, outlinks, graph, concepts, neighbors>>

(* redirects_to_ultimate_redirects.js follows the redirects until they end *)
(* or come back to a title already seen.                                   *)
Follow(key) ==
  LET go[seen \in SUBSET Title, now \in Title] ==
        LET next == Lookup(redirects, now)
        IN  CASE next = None -> now
              [] next \in seen -> Nowhere
              [] OTHER -> go[seen \cup {next}, next]
  IN  go[{key, redirects[key]}, redirects[key]]
MapUltimate ==
  /\ stage = "ultimate"
  /\ ultimate' = [x \in DOMAIN redirects |-> Follow(x)]
  /\ stage' = "outlinks"
  /\ UNCHANGED <<input, unmapped, values, phase1, redirects, outlinks, graph, concepts, neighbors>>

(* phase1_to_outlinks.js: canonical names, each once, none for a loop, and *)
(* no record for a page without any.                                       *)
AddOutlink(s, link) ==
  LET target == Lookup(ultimate, link)
      name == IF target = None THEN link ELSE target
  IN  IF target = Nowhere \/ name \in ToSet(s) THEN s ELSE Append(s, name)
FirstOutlinks(t) ==
  LET ols == SelectSeq(phase1[t], LAMBDA r : r.kind = "ol")
  IN  IF ols = <<>> THEN <<>> ELSE FoldLeft(AddOutlink, <<>>, ols[1].links)
MapOutlinks ==
  /\ stage = "outlinks"
  /\ outlinks' = [t \in {x \in DOMAIN phase1 : FirstOutlinks(x) # <<>>} |-> FirstOutlinks(t)]
  /\ stage' = "canonical" /\ unmapped' = DOMAIN phase1
  /\ UNCHANGED <<input, values, phase1, redirects, ultimate, graph, concepts, neighbors>>

-----------------------------------------------------------------------------
(* phase1_to_canonicalized_graph_format.js.  Its map moves what was said   *)
(* of a redirecting title to where the redirects end.                      *)
MapCanonical ==
  /\ stage = "canonical"
  /\ \E t \in unmapped :
       LET target == Lookup(ultimate, t)
       IN  /\ values' = CASE target = None -> EmitTo(values, <<<<t, phase1[t]>>>>)
                          [] target = Nowhere -> values
                          [] OTHER -> EmitTo(values, <<<<target, phase1[t]>>>>)
           /\ unmapped' = unmapped \ {t}
  /\ UNCHANGED <<stage, input, phase1, redirects, ultimate, outlinks, graph, concepts, neighbors>>

Unless(f, k, v) == IF k \in DOMAIN f THEN f ELSE With(f, k, v)

(* An alias counts as written and in lower case, the first mention of each *)
(* with its distance.                                                      *)
AddAlias(entry, r) ==
  [entry EXCEPT !.aliases = Unless(Unless(@, r.alias, r.distance), Lower[r.alias], r.distance)]

(* A relation makes an edge, or a descriptor of its category, or replaces  *)
(* the descriptor of its category that is farther.  In-text descriptors    *)
(* differ only in their snippets, which are left out.                      *)
Descriptor(r) == [category |-> r.category, distance |-> r.distance]
AddLastDescriptor(descriptors, r) ==                           (* mutant *)
  LET same == {j \in DOMAIN descriptors : descriptors[j].category = r.category}
  IN  IF same = {} THEN Append(descriptors, Descriptor(r))
      ELSE [j \in DOMAIN descriptors |-> IF j \in same THEN Descriptor(r) ELSE descriptors[j]]
AddDescriptor(descriptors, r) ==
  LET same == {j \in DOMAIN descriptors : descriptors[j].category = r.category}
      farther == {j \in same : descriptors[j].distance > r.distance}
  IN  IF same = {} THEN Append(descriptors, Descriptor(r))
      ELSE [j \in DOMAIN descriptors |-> IF j \in farther THEN Descriptor(r) ELSE descriptors[j]]

CanonicalName(name) ==
  LET target == Lookup(ultimate, name) IN IF target = None THEN name ELSE target

AddRelation(entry, r) ==
  LET name == CanonicalName(r.name)
      old == IF name \in DOMAIN entry.edges THEN entry.edges[name] ELSE <<>>
  IN  [entry EXCEPT !.edges = With(@, name, AddDescriptor(old, r))]

AddFact(entry, r) ==
  CASE r.kind = "about" -> [entry EXCEPT !.about = TRUE]
    [] r.kind = "alias" -> AddAlias(entry, r)
    [] r.kind = "relation" -> AddRelation(entry, r)
    [] OTHER -> entry

(* Only what has an article is saved; its common name is an alias in lower *)
(* case.  No later script reads the file of phase 1: it is forgotten.      *)
Entry(t) ==
  LET entry == FoldLeft(AddFact, [about |-> FALSE, aliases |-> <<>>, edges |-> <<>>],
                        FlattenSeq(values[t]))
      low == Lower[NameOf[t]]
  IN  IF low = NameOf[t] THEN entry ELSE [entry EXCEPT !.aliases = Unless(@, low, 0)]

ReduceCanonical ==
  /\ stage = "canonical" /\ unmapped = {}
  /\ graph' = [t \in {x \in DOMAIN values : Entry(x).about} |->
                 [aliases |-> Entry(t).aliases, edges |-> Entry(t).edges]]
  /\ values' = NoFile /\ phase1' = NoFile
  /\ stage' = "fill"
  /\ UNCHANGED <<input, unmapped, redirects, ultimate, outlinks, concepts, neighbors>>

-----------------------------------------------------------------------------
(* fill_in_distances_to_graph.js: a distance still open is looked up, and  *)
(* is 255 if it is missing; an edge has the least of its descriptors.      *)
Filled(key, name, d) ==
  IF d.distance >= 0 THEN d
  ELSE [d EXCEPT !.distance = LET known == Lookup(distances, <<key, name>>)
                              IN  IF known = None THEN 255 ELSE known]
FilledEdge(key, name, descriptors) ==
  LET filled == [j \in DOMAIN descriptors |-> Filled(key, name, descriptors[j])]
  IN  [descriptors |-> filled, distance |-> Min({d.distance : d \in ToSet(filled)})]
FillInDistances ==
  /\ stage = "fill"
  /\ graph' = [t \in DOMAIN graph |->
                 [aliases |-> graph[t].aliases,
                  edges |-> [n \in DOMAIN graph[t].edges |-> FilledEdge(t, n, graph[t].edges[n])]]]
  /\ stage' = "concepts" /\ unmapped' = DOMAIN graph
  /\ UNCHANGED <<input, values, phase1, redirects, ultimate, outlinks, concepts, neighbors>>

(* meguro/graph/alias_to_canonicals.js.  The aliases of a page come in the *)
(* order of its record, after its common name.                             *)
AliasValues(t) ==
  LET order == SetToSeq(DOMAIN graph[t].aliases)
  IN  <<<<NameOf[t], [can |-> t, d |-> 0]>>>> \o
        [n \in DOMAIN order |-> <<order[n], [can |-> t, d |-> graph[t].aliases[order[n]]]>>]
MapAliases ==
  /\ stage = "concepts"
  /\ \E t \in unmapped :
       /\ values' = EmitTo(values, AliasValues(t))
       /\ unmapped' = unmapped \ {t}
  /\ UNCHANGED <<stage, input, phase1, redirects, ultimate, outlinks, graph, concepts, neighbors>>

(* Each concept once, with its first distance, the nearest first.          *)
LastOfEach(s) ==                                               (* mutant *)
  LET last == {j \in DOMAIN s : \A k \in DOMAIN s : s[k].can = s[j].can => k <= j}
      order == SetToSortSeq(last, <)
  IN  [n \in DOMAIN order |-> s[order[n]]]
FirstOfEach(s) ==
  FoldLeft(LAMBDA out, v : IF \E x \in ToSet(out) : x.can = v.can THEN out ELSE Append(out, v),
           <<>>, s)
ReduceAliases ==
  /\ stage = "concepts" /\ unmapped = {}
  /\ concepts' = [x \in DOMAIN values |->
                    SortSeq(FirstOfEach(values[x]), LAMBDA a, b : a.d < b.d)]
  /\ values' = NoFile
  /\ stage' = "neighbors"
  /\ UNCHANGED <<input, unmapped, phase1, redirects, ultimate, outlinks, graph, neighbors>>

(* meguro/graph/concept_to_neighbors.js: the ends of the edges, nearest    *)
(* first, joined with "|" to names and distances in turn.                  *)
Nearest(t) ==
  SetToSortSeq(DOMAIN graph[t].edges \ {t},
               LAMBDA a, b : graph[t].edges[a].distance < graph[t].edges[b].distance)
MapNeighbors ==
  /\ stage = "neighbors"
  /\ neighbors' = [t \in DOMAIN graph |->
                     [n \in DOMAIN Nearest(t) |->
                        [name |-> Nearest(t)[n], distance |-> graph[t].edges[Nearest(t)[n]].distance]]]
  /\ stage' = "done"
  /\ UNCHANGED <<input, unmapped, values, phase1, redirects, ultimate, outlinks, graph, concepts>>

Finished == stage = "done" /\ UNCHANGED vars

Next ==
  \/ MapPhase1 \/ ReducePhase1 \/ MapRedirects \/ MapUltimate \/ MapOutlinks
  \/ MapCanonical \/ ReduceCanonical \/ FillInDistances
  \/ MapAliases \/ ReduceAliases \/ MapNeighbors \/ Finished

Spec == Init /\ [][Next]_vars
-----------------------------------------------------------------------------
(* Reference: what the dump says, read at once and without files.  "ends"  *)
(* is where redirects lead from each title, "said" what is said of a       *)
(* title, towards another, in a category, at a distance.                   *)

EndOf(hop, x) ==
  LET at[n \in Nat] == IF n = 0 THEN x
                       ELSE IF at[n - 1] \in DOMAIN hop THEN hop[at[n - 1]] ELSE at[n - 1]
      last == at[Cardinality(Title)]
  IN  IF last \in DOMAIN hop THEN Nowhere ELSE last

Dump ==
  LET facts == UNION {ToSet(MapPage(t, dump[t])) : t \in DOMAIN dump}
      named == {p \in facts : p[2].kind = "alias" /\ p[2].fr = "r"}
      hop == [x \in {p[2].alias : p \in named} |-> (CHOOSE p \in named : p[2].alias = x)[1]]
      ends == [x \in Title |-> EndOf(hop, x)]
  IN  [articles |-> {p[1] : p \in {q \in facts : q[2].kind = "about"}},
       hops |-> DOMAIN hop,
       ends |-> ends,
       said |-> {<<ends[p[1]], ends[p[2].name], p[2].category, p[2].distance>>
                   : p \in {q \in facts : q[2].kind = "relation"}}]

(* The descriptor expected of a category: the least distance said, or the  *)
(* one the dictionary knows.                                               *)
Expected(a, n, c, said) ==
  LET d == Min({x[4] : x \in {y \in said : y[1] = a /\ y[2] = n /\ y[3] = c}})
  IN  [category |-> c,
       distance |-> IF d >= 0 THEN d
                    ELSE IF <<a, n>> \in DOMAIN distances THEN distances[<<a, n>>] ELSE 255]

-----------------------------------------------------------------------------
(* Properties                                                              *)

TypeOK ==
  /\ stage \in {"phase1", "redirects", "ultimate", "outlinks", "canonical", "fill",
                "concepts", "neighbors", "done"}
  /\ unmapped \subseteq Title
  /\ DOMAIN redirects \subseteq Title /\ DOMAIN ultimate \subseteq DOMAIN redirects
  /\ \A x \in DOMAIN ultimate : ultimate[x] \in (Title \ DOMAIN redirects) \cup {Nowhere}
  /\ \A t \in DOMAIN outlinks : IsInjective(outlinks[t]) /\ Nowhere \notin ToSet(outlinks[t])
  /\ DOMAIN graph \subseteq Title \ DOMAIN ultimate

(* The graph is what the pages say, in whatever order they were read and   *)
(* merged: an entry for every article, an edge for everything said of it,  *)
(* under the name where its redirects end, one descriptor for each         *)
(* category with the least distance said, and the edge as near as its      *)
(* nearest descriptor.                                                     *)
GraphIsWhatPagesSay ==
  stage = "done" =>
    LET d == Dump
        IsSaid(a, n, e) ==
          LET categories == {x[3] : x \in {y \in d.said : y[1] = a /\ y[2] = n}}
              expected == {Expected(a, n, c, d.said) : c \in categories}
          IN  /\ ToSet(e.descriptors) = expected
              /\ Len(e.descriptors) = Cardinality(expected)
              /\ e.distance = Min({x.distance : x \in expected})
    IN  /\ DOMAIN graph = d.articles
        /\ \A a \in d.articles :
             /\ DOMAIN graph[a].edges = {x[2] : x \in {y \in d.said : y[1] = a}}
             /\ \A n \in DOMAIN graph[a].edges : IsSaid(a, n, graph[a].edges[n])

(* Both pages of an edge list it, as the search from either end expects.   *)
(* What an edge leads to besides has no entry at all: a title that is not  *)
(* an article, or the end of redirects that loop, which a script drops as  *)
(* a key and as an outlink but keeps as the name of an edge.               *)
EdgesHaveTwoEnds ==
  TypeOK /\ (stage = "done" =>
    LET d == Dump
    IN  \A a \in DOMAIN graph : \A n \in DOMAIN graph[a].edges :
          \/ n \in DOMAIN graph /\ a \in DOMAIN graph[n].edges
          \/ n \in Title \ (d.articles \cup d.hops)
          \/ n = Nowhere /\ \E x \in d.hops : d.ends[x] = Nowhere)

(* A text finds every concept it names, once and the nearest first: the    *)
(* name of an article, and every title whose redirects end there, however  *)
(* many they are.                                                          *)
RedirectsFindArticles ==
  stage = "done" =>
    LET d == Dump
    IN  /\ \A x \in d.hops : d.ends[x] \in d.articles =>
             d.ends[x] \in {c.can : c \in ToSet(concepts[x])}
        /\ \A a \in d.articles : [can |-> a, d |-> 0] \in ToSet(concepts[NameOf[a]])
        /\ \A x \in DOMAIN concepts : \A i, j \in DOMAIN concepts[x] :
             i < j => /\ concepts[x][i].d <= concepts[x][j].d
                      /\ concepts[x][i].can # concepts[x][j].can
=============================================================================
