---------------------------- MODULE WikipediaPages ----------------------------
(***************************************************************************)
(* c/wikipedia/wikipedia_page_impl.cpp: the pages of a dump and the links  *)
(* between them in memory, the index files they are written to and read    *)
(* back from, and what is counted over the links to tell how near two      *)
(* pages are.                                                              *)
(*                                                                         *)
(* A page is a number, in the order in which pages are made, an edge too;  *)
(* a title and a text are sequences of lexemes of WikiParser.  titles_     *)
(* holds each text once, so that to compare pointers into it is to compare *)
(* texts, and dead counts the redirects whose titles clear has freed.      *)
(***************************************************************************)
EXTENDS Integers, Sequences, SequencesExt, FiniteSets, FiniteSetsExt

CONSTANTS
  Dumps,        (* sequences of <<title, text>>                              *)
  Cabinets,     (* functions from titles to sequences of titles              *)
  UselessTitles,
  LowerTitle,   (* of titles that begin with an upper and a lower letter     *)
  WordsOf,      (* of a title, the kinds of its words                        *)
  HopLimit,     (* 10 in the code                                            *)
  CountLimit,   (* 255, what a uint8_t holds                                 *)
  PictureNames

VARIABLES
  work,         (* what the program does                                     *)
  dump, unread,
  pages, auto_increment_id,
  title_page_map, redirects_, dead,
  raw,          (* raw_outlinks_ of each page                                *)
  edges, outlinks, inlinks,
  todo,         (* what the loop of the current step has not come to         *)
  files,        (* the index                                                 *)
  written       (* history: the graph when the index was written             *)

graph == <<pages, title_page_map, edges, outlinks, inlinks>>
pageVars == <<work, dump, unread, graph, auto_increment_id, redirects_, dead, raw, todo, files, written>>

LOCAL Wiki == INSTANCE WikiParser WITH Pictures <- PictureNames

PageNumbers == DOMAIN pages
Linked(f, k, v) == [x \in DOMAIN f \cup {k} |-> IF x = k THEN v ELSE f[x]]
LowerCased(title) == {LowerTitle[t] : t \in {title} \cap DOMAIN LowerTitle}
NoIndex == [pages |-> {}, redirects |-> {}, outlinks |-> {}]
GraphNow == [pages |-> pages, names |-> title_page_map, edges |-> edges, outlinks |-> outlinks,
             inlinks |-> inlinks]

(* The constructor of a page: it is about a thing with a name if its words *)
(* are upper case but for the small ones, are not a list and are few.      *)
IsEntity(title) ==
  /\ \A n \in DOMAIN WordsOf[title] : WordsOf[title][n] \notin {"lower", "List"}
  /\ Len(WordsOf[title]) <= 5

NoLinks == pages = <<>> /\ title_page_map = <<>> /\ edges = <<>> /\ outlinks = <<>> /\ inlinks = <<>>
Starting ==
  /\ unread = IF work = "reading" THEN dump ELSE <<>>
  /\ NoLinks /\ auto_increment_id = 1 /\ redirects_ = <<>> /\ dead = 0 /\ raw = <<>>
  /\ files = NoIndex /\ written = [graph |-> GraphNow, around |-> {}]
InitPages ==
  /\ \/ work = "reading" /\ dump \in Dumps /\ todo = {}
     \/ work = "cabinet" /\ dump \in Cabinets /\ todo = DOMAIN dump
  /\ Starting
(* Another program runs.                                                   *)
NoPages == work = "none" /\ dump = <<>> /\ todo = {} /\ Starting

-----------------------------------------------------------------------------
(* load: wikipedia_xml_parse, resolve_redirects, resolve_outlinks          *)

NewPage(title, ambiguous, image) ==
  /\ pages' = Append(pages, [id |-> auto_increment_id, title |-> title, ambiguous |-> ambiguous,
                             image |-> image])
  /\ auto_increment_id' = auto_increment_id + 1

(* new_alias                                                               *)
NewAlias(title, target) ==
  /\ redirects_' = [t \in DOMAIN redirects_ \cup {title} \cup LowerCased(title) |->
                      IF t \in {title} \cup LowerCased(title) THEN target ELSE redirects_[t]]
  /\ UNCHANGED <<graph, auto_increment_id, raw, dead>>

(* perf_new_page of a text that is no redirect.  Of an empty text there is *)
(* no tree and no page.                                                    *)
PerfNewPage(title, tree) ==
  LET page == Len(pages) + 1
      names == {title} \cup LowerCased(title)
  IN  /\ NewPage(title, tree.ambiguous, IF tree.images = <<>> THEN <<>> ELSE tree.images[1])
      /\ title_page_map' = [t \in DOMAIN title_page_map \cup names |->
                              IF t \in names THEN page ELSE title_page_map[t]]
      /\ raw' = Append(raw, tree.outlinks)
      /\ outlinks' = Append(outlinks, <<>>) /\ inlinks' = Append(inlinks, <<>>)
      /\ UNCHANGED <<edges, redirects_, dead>>

SaveXmlProgressToPage ==
  /\ work = "reading" /\ unread # <<>>
  /\ LET title == Head(unread)[1]
         tree == Wiki!wiki_parse(Head(unread)[2])
         useful == title \notin UselessTitles /\ Head(unread)[2] # <<>>
     IN  CASE ~useful -> UNCHANGED <<graph, auto_increment_id, raw, redirects_, dead>>
           [] useful /\ tree.redirect # <<>> -> NewAlias(title, tree.redirect)
           [] OTHER -> PerfNewPage(title, tree)
  /\ unread' = Tail(unread)
  /\ UNCHANGED <<work, dump, todo, files, written>>
ResolveRedirects ==
  /\ work = "reading" /\ unread = <<>> /\ dead = 0
  /\ work' = "redirects" /\ todo' = DOMAIN redirects_
  /\ UNCHANGED <<dump, unread, graph, auto_increment_id, raw, redirects_, dead, files, written>>

(* The end of a redirect to a redirect, or nothing after HopLimit hops.    *)
UltimateTitleFirstHop(alias) == redirects_[alias]                  (* mutant *)
UltimateTitle(alias) ==
  LET after[hops \in 0 .. HopLimit] ==
        IF hops = 0 THEN redirects_[alias]
        ELSE LET last == after[hops - 1]
             IN  IF last \in DOMAIN redirects_ THEN redirects_[last] ELSE last
  IN  IF after[HopLimit - 1] \in DOMAIN redirects_ THEN <<>> ELSE after[HopLimit]

(* Redirects are resolved in the order of a hash table.                    *)
ResolveRedirect(alias) ==
  /\ work = "redirects" /\ alias \in todo
  /\ LET canonical == UltimateTitle(alias)
     IN  title_page_map' = IF canonical \in DOMAIN title_page_map
                           THEN Linked(title_page_map, alias, title_page_map[canonical])
                           ELSE title_page_map
  /\ todo' = todo \ {alias}
  /\ UNCHANGED <<work, dump, unread, pages, edges, outlinks, inlinks, auto_increment_id, raw,
                 redirects_, dead, files, written>>

(* With redirects that point to freed titles, any name may come to mean    *)
(* any page.  Bound: one name, and the load is not followed further.       *)
ResolveDangling ==
  /\ work = "reading" /\ unread = <<>> /\ dead > 0
  /\ work' = "garbled"
  /\ \E name \in DOMAIN title_page_map \cup DOMAIN redirects_, page \in PageNumbers :
       title_page_map' \in {title_page_map, Linked(title_page_map, name, page)}
  /\ UNCHANGED <<dump, unread, pages, edges, outlinks, inlinks, auto_increment_id, raw,
                 redirects_, dead, todo, files, written>>
ResolveOutlinks ==
  /\ work = "redirects" /\ todo = {}
  /\ work' = "outlinks" /\ todo' = PageNumbers
  /\ UNCHANGED <<dump, unread, graph, auto_increment_id, raw, redirects_, dead, files, written>>

Edge(begin, end, count, in_text) == [begin |-> begin, end |-> end, count |-> count, in_text |-> in_text]
(* add_to_outlinks and add_to_inlinks                                      *)
AddEdge(links, edge) ==
  LET e == Len(links.edges) + 1
  IN  [edges |-> Append(links.edges, edge),
       outlinks |-> [links.outlinks EXCEPT ![edge.begin] = Append(@, e)],
       inlinks |-> [links.inlinks EXCEPT ![edge.end] = Append(@, e)]]
Links == [edges |-> edges, outlinks |-> outlinks, inlinks |-> inlinks]
SetLinks(links) == edges' = links.edges /\ outlinks' = links.outlinks /\ inlinks' = links.inlinks

(* One link of a page: to a page that is not linked yet, or once more to   *)
(* one that is.  Its own title counts as linked, without an edge.          *)
SameTitle(links, page, other) ==
  {e \in ToSet(links.outlinks[page]) : pages[links.edges[e].end].title = pages[other].title}
MoreLinks(links, e, link) ==
  [links EXCEPT !.edges[e].count = (@ + link.count) % (CountLimit + 1),
                !.edges[e].in_text = @ \/ link.in_text]
ResolveLink(links, page, link) ==
  IF link.name \notin DOMAIN title_page_map THEN links
  ELSE LET end == title_page_map[link.name]
           known == SameTitle(links, page, end)
       IN  IF pages[end].title = pages[page].title THEN links
           ELSE IF known = {}
           THEN AddEdge(links, Edge(page, end, Min({link.count, CountLimit}), link.in_text))
           ELSE MoreLinks(links, CHOOSE e \in known : TRUE, link)

ResolveOutlinksOf(page) ==
  /\ work = "outlinks" /\ page \in todo
  /\ SetLinks(FoldLeft(LAMBDA links, link : ResolveLink(links, page, link), Links, raw[page]))
  /\ raw' = [raw EXCEPT ![page] = <<>>]
  /\ todo' = todo \ {page}
  /\ UNCHANGED <<work, dump, unread, pages, title_page_map, auto_increment_id, redirects_, dead,
                 files, written>>
Loaded ==
  /\ work = "outlinks" /\ todo = {}
  /\ work' = "loaded"
  /\ UNCHANGED <<dump, unread, graph, auto_increment_id, raw, redirects_, dead, todo, files, written>>

-----------------------------------------------------------------------------
(* clear, build_or_retrieve_page, load_from_tokyo_cabinet                  *)

(* The tests clear the one manager between loads.  Bound: once, and when   *)
(* there are redirects to leave behind.  Their number is in dead.          *)
Clear ==
  /\ work = "loaded" /\ redirects_ # <<>>
  /\ pages' = <<>> /\ title_page_map' = <<>> /\ edges' = <<>> /\ outlinks' = <<>> /\ inlinks' = <<>>
  /\ raw' = <<>> /\ dead' = Cardinality(DOMAIN redirects_) /\ redirects_' = <<>>
  /\ work' = "reading" /\ unread' = dump
  /\ UNCHANGED <<dump, auto_increment_id, todo, files, written>>

BuildOrRetrievePage(g, title) ==
  IF title \in DOMAIN g.names THEN g
  ELSE [pages |-> Append(g.pages, [id |-> g.id, title |-> title, ambiguous |-> FALSE, image |-> <<>>]),
        id |-> g.id + 1,
        names |-> Linked(g.names, title, Len(g.pages) + 1),
        links |-> [g.links EXCEPT !.outlinks = Append(@, <<>>), !.inlinks = Append(@, <<>>)]]

(* A record of the cabinet: a title and the titles it links to, between    *)
(* bars.  An empty value has one title, the empty one.                     *)
TitlesIn(value) == IF value = <<>> THEN <<<<>>>> ELSE value
LoadRecord(key) ==
  /\ work = "cabinet" /\ key \in todo
  /\ LET page(g) == g.names[key]
         start == [pages |-> pages, id |-> auto_increment_id, names |-> title_page_map, links |-> Links]
         Link(g, title) ==
           LET h == BuildOrRetrievePage(g, title)
           IN  [h EXCEPT !.links = AddEdge(@, Edge(page(h), h.names[title], 1, TRUE))]
         g == FoldLeft(Link, BuildOrRetrievePage(start, key), TitlesIn(dump[key]))
     IN  /\ pages' = g.pages /\ auto_increment_id' = g.id /\ title_page_map' = g.names
         /\ SetLinks(g.links)
  /\ todo' = todo \ {key}
  /\ work' = IF todo = {key} THEN "opened" ELSE work
  /\ UNCHANGED <<dump, unread, redirects_, dead, raw, files, written>>

-----------------------------------------------------------------------------
(* The edges of a page.  A distance is a formula over counts of links;     *)
(* here it is what goes into the formula and the denominator in it.  Of    *)
(* compare_distances, the number of inlinks goes along with the distances. *)

BeginsOf(p) == [n \in DOMAIN inlinks[p] |-> edges[inlinks[p][n]].begin]
EndsOf(p) == [n \in DOMAIN outlinks[p] |-> edges[outlinks[p][n]].end]
Occurs(seq, x) == Cardinality({n \in DOMAIN seq : seq[n] = x})

(* distance_calculation.  The float of 97 and 3 parts is not below the     *)
(* whole number when both are of the same number.                          *)
DenominatorWithoutPage(n1, n2, bidi) ==                              (* mutant *)
  IF bidi THEN IF n1 <= n2 THEN n1 ELSE (n1 + n2) \div 2
  ELSE (97 * (n1 + 1) + 3 * n2) \div 100
Denominator(n1, n2, bidi) ==
  IF bidi THEN IF n1 <= n2 THEN n1 + 1 ELSE (n1 + n2) \div 2 + 1
  ELSE (97 * (n1 + 1) + 3 * n2) \div 100
DistanceCalculation(n1, n2, common, bidi) ==
  [n1 |-> n1, n2 |-> n2, bidi |-> bidi, common |-> common, denom |-> Denominator(n1, n2, bidi)]

(* sorted_edges                                                            *)
Bidirectional(p, q) == q \in ToSet(EndsOf(p)) /\ q \in ToSet(BeginsOf(p))
SharedLinks(p, q) == FoldLeft(LAMBDA n, c : n + Occurs(EndsOf(c), q), 0, BeginsOf(p))
SortedEdges(p) ==
  {[first |-> pages[p].id, second |-> pages[q].id,
    distance |-> DistanceCalculation(Len(inlinks[p]), Len(inlinks[q]), 1 + SharedLinks(p, q),
                                     Bidirectional(p, q))] :
     q \in ToSet(EndsOf(p)) \cup ToSet(BeginsOf(p))}

(* bidi_sorted_edges                                                       *)
OneWayDistance(count) == IF count > 2 THEN 2 ELSE IF count > 1 THEN 3 ELSE 4
BidiSortedEdges(p) ==
  {[first |-> pages[p].id, second |-> pages[e.end].id,
    distance |-> IF e.end \in ToSet(BeginsOf(p)) THEN 1 ELSE OneWayDistance(e.count),
    inlinks |-> Len(inlinks[e.end])] :
     e \in {edges[n] : n \in {m \in ToSet(outlinks[p]) :
              LET end == pages[edges[m].end]
              IN  ~end.ambiguous /\ edges[m].in_text /\ IsEntity(end.title)}}}

(* neighbors.  The boost of a page that links back replaces what earlier   *)
(* inlinks have added, so the order of the inlinks tells.                  *)
Boost(c) == Max({4, (Len(inlinks[c]) + 2) \div 4})
CountNeighbors(p, begins) ==
  LET near == {q \in ToSet(EndsOf(p)) : ~pages[q].ambiguous}
      Add(f, q, n) == Linked(f, q, n + IF q \in DOMAIN f THEN f[q] ELSE 0)
      Outlink(f, e) == IF edges[e].end = p THEN f ELSE Add(f, edges[e].end, edges[e].count)
      Inlink(f, c) ==
        IF pages[c].ambiguous THEN f
        ELSE FoldLeft(Outlink, IF c \in near THEN Linked(f, c, Boost(c)) ELSE f, outlinks[c])
  IN  FoldLeft(Inlink, [q \in near |-> 1], begins)
NeighborDistance(count, n) == IF count >= n + 1 THEN 0 ELSE (256 * (n + 1 - count)) \div (n + 1)
NeighborsInOrder(p, begins) ==
  LET count == CountNeighbors(p, begins)
  IN  {[first |-> pages[p].id, second |-> pages[q].id,
        distance |-> NeighborDistance(count[q], Len(inlinks[p])), inlinks |-> Len(inlinks[q])] :
         q \in {r \in DOMAIN count : IsEntity(pages[r].title) /\ ~pages[r].ambiguous}}
Neighbors(p) == {NeighborsInOrder(p, order) : order \in {s \in [DOMAIN BeginsOf(p) -> ToSet(BeginsOf(p))] :
                                                       ToSet(s) = ToSet(BeginsOf(p))}}

(* distance_between counts a link back as well.                            *)
CommonBetween(p, q) ==
  (IF p \in ToSet(EndsOf(q)) THEN 1 ELSE 0) + Occurs(EndsOf(p), q) + SharedLinks(p, q)
DistanceBetween(p, q) ==
  DistanceCalculation(Len(inlinks[p]), Len(inlinks[q]), CommonBetween(p, q), Bidirectional(p, q))

-----------------------------------------------------------------------------
(* The index                                                               *)

PageLines(shown) ==
  {[id |-> pages[p].id, title |-> pages[p].title, ambiguous |-> pages[p].ambiguous] : p \in shown}
Outlink(e) ==
  [first |-> pages[edges[e].begin].id, second |-> pages[edges[e].end].id,
   in_text |-> edges[e].in_text, count |-> edges[e].count]
RedirectLines ==
  {[name |-> t, id |-> pages[title_page_map[t]].id] :
     t \in {u \in DOMAIN title_page_map : u # pages[title_page_map[u]].title}}
AroundIn(shown) ==
  {[id |-> pages[p].id, sorted |-> SortedEdges(p), bidi |-> BidiSortedEdges(p), near |-> Neighbors(p)] :
     p \in shown}

(* to_index                                                                *)
FirstToEachEnd(p) ==
  {e \in ToSet(outlinks[p]) :
     \A d \in ToSet(outlinks[p]) : edges[d].end = edges[e].end => e <= d}
ToIndex ==
  /\ work = "loaded"
  /\ files' = [pages |-> PageLines(PageNumbers), redirects |-> RedirectLines,
               outlinks |-> {Outlink(e) : e \in UNION {FirstToEachEnd(p) : p \in PageNumbers}}]
  /\ written' = [graph |-> GraphNow, around |-> AroundIn(PageNumbers)]
  /\ work' = "index"
  /\ UNCHANGED <<dump, unread, graph, auto_increment_id, redirects_, dead, raw, todo>>

(* to_subgraph of a page: its links and those of the pages they lead to    *)
(* and come from, as far as the counts need them.                          *)
SubgraphEdgesNear(p) ==                                              (* mutant *)
  LET ends == {edges[e].end : e \in ToSet(outlinks[p])}
      starts == {edges[e].begin : e \in ToSet(inlinks[p])}
  IN  ToSet(outlinks[p]) \cup ToSet(inlinks[p])
        \cup UNION {ToSet(outlinks[c]) : c \in starts}
        \cup UNION {ToSet(inlinks[q]) : q \in ends \cup starts}
SubgraphEdges(p) ==
  LET ends == {edges[e].end : e \in ToSet(outlinks[p])}
      starts == {edges[e].begin : e \in ToSet(inlinks[p])}
      besides == {edges[e].end : e \in UNION {ToSet(outlinks[c]) : c \in starts}}
  IN  ToSet(outlinks[p]) \cup ToSet(inlinks[p])
        \cup UNION {ToSet(outlinks[c]) : c \in starts}
        \cup UNION {ToSet(inlinks[q]) : q \in ends \cup starts \cup besides}
ToSubgraph(title) ==
  /\ work = "reloaded" /\ title \in DOMAIN title_page_map
  /\ LET p == title_page_map[title]
     IN  /\ files' = [pages |-> PageLines({p} \cup UNION {{edges[e].begin, edges[e].end} : e \in SubgraphEdges(p)}),
                      redirects |-> {}, outlinks |-> {Outlink(e) : e \in SubgraphEdges(p)}]
         /\ written' = [graph |-> GraphNow, around |-> AroundIn({p})]
  /\ work' = "subgraph"
  /\ UNCHANGED <<dump, unread, graph, auto_increment_id, redirects_, dead, raw, todo>>

(* load_from_index in a program of its own.  auto_increment_id_ stays 1.   *)
LoadFromIndex ==
  /\ work \in {"index", "subgraph"}
  /\ LET lines == SetToSeq(files.pages)
         PageOf(id) == CHOOSE n \in DOMAIN lines : lines[n].id = id
         names == [t \in {l.title : l \in files.pages} |-> CHOOSE n \in DOMAIN lines : lines[n].title = t]
         aliases == [t \in {r.name : r \in files.redirects} |->
                       PageOf((CHOOSE r \in files.redirects : r.name = t).id)]
         empty == [n \in DOMAIN lines |-> <<>>]
         Load(links, line) ==
           AddEdge(links, Edge(PageOf(line.first), PageOf(line.second), Min({line.count, CountLimit}),
                               line.in_text))
     IN  /\ pages' = [n \in DOMAIN lines |-> [id |-> lines[n].id, title |-> lines[n].title,
                                              ambiguous |-> lines[n].ambiguous, image |-> <<>>]]
         /\ title_page_map' = aliases @@ names
         /\ SetLinks(FoldLeft(Load, [edges |-> <<>>, outlinks |-> empty, inlinks |-> empty],
                              SetToSeq(files.outlinks)))
  /\ auto_increment_id' = 1 /\ redirects_' = <<>> /\ raw' = <<>>
  /\ work' = IF work = "index" THEN "reloaded" ELSE "small"
  /\ UNCHANGED <<dump, unread, dead, todo, files, written>>

Exit ==
  /\ work \in {"loaded", "garbled", "opened", "reloaded", "small"}
  /\ UNCHANGED pageVars

NextPages ==
  \/ SaveXmlProgressToPage \/ ResolveRedirects \/ ResolveDangling \/ ResolveOutlinks \/ Loaded \/ Clear
  \/ \E alias \in todo : ResolveRedirect(alias) \/ LoadRecord(alias)
  \/ \E page \in todo : ResolveOutlinksOf(page)
  \/ ToIndex \/ LoadFromIndex \/ Exit
  \/ \E title \in DOMAIN title_page_map : ToSubgraph(title)
SpecPages == InitPages /\ [][NextPages]_pageVars

-----------------------------------------------------------------------------
(* What the dump says of titles, without loading it.                       *)

NamesOf(n) == {dump[n][1]} \cup LowerCased(dump[n][1])
Trees == [n \in DOMAIN dump |-> Wiki!wiki_parse(dump[n][2])]
PagesRead(trees) == {n \in DOMAIN trees : dump[n][1] \notin UselessTitles /\ dump[n][2] # <<>>}
PagesNamed(numbers, name) == {n \in numbers : name \in NamesOf(n)}
(* The article a name means, as a set: the last of the dump to have it, or *)
(* the one at the end of at most HopLimit redirects.                       *)
Meant(trees, name) ==
  LET redirects == {n \in PagesRead(trees) : trees[n].redirect # <<>>}
      articles == PagesRead(trees) \ redirects
      own == PagesNamed(articles, name)
      At[hops \in 0 .. HopLimit] ==
        IF hops = 0 THEN name
        ELSE LET last == At[hops - 1]
                 next == PagesNamed(redirects, last)
             IN  IF next = {} THEN last ELSE trees[Max(next)].redirect
      end == At[HopLimit]
      ends == IF PagesNamed(redirects, end) = {} THEN PagesNamed(articles, end) ELSE {}
      meant == IF ends = {} THEN own ELSE ends
  IN  {n \in meant : \A m \in meant : m <= n}

(* Whatever the order of the hash tables, a page has an edge to another    *)
(* exactly if one of its links means it, under its title, in lower case or *)
(* through redirects (resolve_redirects, resolve_outlinks); its count is   *)
(* that of all its links to the page, unless their sum does not fit a byte *)
(* when they use several names; it is in the text if one of them is; and   *)
(* the two ends hold the same edges, no page one to itself or two to       *)
(* another.                                                                *)
LinksFollowRedirects ==
  work = "loaded" =>
    LET trees == Trees
        articles == {n \in PagesRead(trees) : trees[n].redirect = <<>>}
        meant == [name \in UNION {{l.name : l \in ToSet(trees[n].outlinks)} : n \in articles} |-> Meant(trees, name)]
        Number(n) == CHOOSE p \in PageNumbers : pages[p].title = dump[n][1]
        Between(a, b) == SelectSeq(trees[a].outlinks, LAMBDA l : b \in meant[l.name])
        Total(ls) == FoldLeft(LAMBDA sum, l : sum + l.count, 0, ls)
    IN  /\ Cardinality(PageNumbers) = Cardinality(articles)
        /\ \A e \in DOMAIN edges : \A p \in PageNumbers :
             /\ e \in ToSet(outlinks[p]) <=> edges[e].begin = p
             /\ e \in ToSet(inlinks[p]) <=> edges[e].end = p
        /\ \A p \in PageNumbers : IsInjective(EndsOf(p)) /\ IsInjective(BeginsOf(p))
        /\ \A a, b \in articles :
             LET ls == Between(a, b)
                 found == {edges[e] : e \in {x \in ToSet(outlinks[Number(a)]) : edges[x].end = Number(b)}}
             IN  /\ found = {} <=> ls = <<>> \/ a = b
                 /\ \A edge \in found :
                      /\ edge.in_text <=> \E n \in DOMAIN ls : ls[n].in_text
                      /\ Total(ls) <= CountLimit => edge.count = Total(ls)
                      /\ Len(ls) = 1 => edge.count = Min({Total(ls), CountLimit})

(* A program that loads the index has the names, the pages and the edges   *)
(* of the one that wrote it, and finds the same distances from every page; *)
(* one that loads the subgraph of a page finds the same distances from     *)
(* that page: to_subgraph goes just far enough for the counts of           *)
(* sorted_edges, bidi_sorted_edges and neighbors.                          *)
IndexKeepsGraph ==
  LET Titles(g) == {<<t, g.pages[g.names[t]].title>> : t \in DOMAIN g.names}
      PagesIn(g) == {[id |-> g.pages[p].id, title |-> g.pages[p].title, ambiguous |-> g.pages[p].ambiguous] :
                      p \in DOMAIN g.pages}
      EdgesIn(g) == {[e EXCEPT !.begin = g.pages[e.begin].title, !.end = g.pages[e.end].title] : e \in ToSet(g.edges)}
  IN  /\ work = "reloaded" =>
           /\ Titles(GraphNow) = Titles(written.graph)
           /\ PagesIn(GraphNow) = PagesIn(written.graph)
           /\ EdgesIn(GraphNow) = EdgesIn(written.graph) /\ Len(edges) = Len(written.graph.edges)
      /\ work \in {"reloaded", "small"} => written.around \subseteq AroundIn(PageNumbers)

(* distance_between and sorted_edges agree on any two pages, but for the   *)
(* link back that only the first counts; two pages that are linked are     *)
(* each an edge of the other; and the count is never more than what it is  *)
(* divided by, nor that zero, so that the power of distance_calculation is *)
(* defined: except for two pages that no page links to.                    *)
DistancesAgree ==
  work \in {"loaded", "opened"} =>
    \A p, q \in PageNumbers : p # q =>
      LET near == {r \in SortedEdges(p) : r.second = pages[q].id}
          between == DistanceBetween(p, q)
      IN  /\ near = {} <=> {r \in SortedEdges(q) : r.second = pages[p].id} = {}
          /\ Cardinality(near) <= 1
          /\ between.common <= between.denom
          /\ between.denom = 0 <=> inlinks[p] = <<>> /\ inlinks[q] = <<>>
          /\ \A r \in near :
               /\ 0 < r.distance.common
               /\ between = IF Bidirectional(p, q) THEN [r.distance EXCEPT !.common = @ + 1] ELSE r.distance
=============================================================================
