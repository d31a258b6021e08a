--------------------------- MODULE SparseGraphLoad ---------------------------
(***************************************************************************)
(* How SparseGraph (c/graph/sparse_graph.cpp) gets the pages, edges and    *)
(* aliases that shortest_chain searches: load reads the records of a       *)
(* cabinet in whatever order it returns them, and an edge may name a page  *)
(* whose record has not been read yet, or that has none.                   *)
(*                                                                         *)
(* Tokyo Cabinet and the JSON library are outside the repository; a record *)
(* is what its JSON says, and aliases and common names are strings.  A     *)
(* page is known by its id, the order in which pages were built.           *)
(***************************************************************************)
EXTENDS Naturals, Sequences, SequencesExt, FiniteSetsExt, Functions

CONSTANTS
  Cabinets,      (* each maps titles to records: common_name, aliases,     *)
                 (* edges, sequences; an edge has an end and the weights   *)
                 (* of its descriptors                                     *)
  MaxEdges,      (* 65535                                                  *)
  ByteRange,     (* weights are bytes: 256                                 *)
  ShadowAsks     (* sequences of names an end of a chain may be given as   *)

(* Records and questions are lists, and there is room in one.              *)
IsRecord(record) ==
  /\ record.common_name \in Seq(ToSet(record.common_name))
  /\ record.aliases \in Seq(ToSet(record.aliases)) /\ record.edges \in Seq(ToSet(record.edges))
ASSUME LoadAssumption ==
  /\ MaxEdges \in Nat \ {0} /\ ByteRange \in Nat /\ ByteRange > 10
  /\ \A file \in Cabinets : \A title \in DOMAIN file : IsRecord(file[title])
  /\ \A names \in ShadowAsks : names \in Seq(ToSet(names))

VARIABLES
  cabinet,       (* the file                                               *)
  unread,        (* the titles of its records load has not read yet        *)
  loading,       (* where the program is                                   *)
  titles,        (* of each page, by its id                                *)
  edgesOf,       (* of each page, a sequence of [end, min_weight]          *)
  aliases_,      (* of each alias, a sequence of pages                     *)
  shadow,        (* the edges of the last shadow page                      *)
  askedFor       (* the names it was built for, and whether each weighs    *)
                 (* more than the last                                     *)

loadVars == <<cabinet, unread, loading, titles, edgesOf, aliases_, shadow, askedFor>>

InitLoad ==
  /\ cabinet \in Cabinets /\ unread = DOMAIN cabinet /\ loading = "load"
  /\ titles = <<>> /\ edgesOf = <<>> /\ aliases_ = <<>> /\ shadow = <<>>
  /\ askedFor = [names |-> <<>>, increasing |-> FALSE]

-----------------------------------------------------------------------------
(* The tables                                                              *)

FindOrBuildEnds(known, title) == Append(known, title)          (* mutant *)
FindOrBuildPage(known, title) == IF title \in ToSet(known) THEN known ELSE Append(known, title)
IdOfPage(known, title) == CHOOSE id \in DOMAIN known : known[id] = title

AppendOrBuild(table, alias, page) ==
  [a \in DOMAIN table \cup {alias} |->
     IF a = alias THEN (IF a \in DOMAIN table THEN table[a] ELSE <<>>) \o <<page>> ELSE table[a]]

AddToEdges(edges, edge) == IF Len(edges) < MaxEdges THEN Append(edges, edge) ELSE edges

(* Only the first descriptor counts; an edge without one weighs 0.         *)
MinWeight(weights) == IF weights = <<>> THEN 0 ELSE Head(weights) % ByteRange

(* build_page_from_open_graph_json                                         *)
BuildPage(title) ==
  LET record == cabinet[title]
      own == FindOrBuildPage(titles, title)
      known == FoldLeft(FindOrBuildPage, own, [n \in DOMAIN record.edges |-> record.edges[n].end])
      page == IdOfPage(known, title)
      old(id) == IF id \in DOMAIN edgesOf THEN edgesOf[id] ELSE <<>>
      new == [n \in DOMAIN record.edges |->
                [end |-> IdOfPage(known, record.edges[n].end),
                 min_weight |-> MinWeight(record.edges[n].weights)]]
  IN  /\ titles' = known
      /\ edgesOf' = [id \in DOMAIN known |-> IF id = page THEN FoldLeft(AddToEdges, old(id), new) ELSE old(id)]
      /\ aliases_' = FoldLeft(LAMBDA table, alias : AppendOrBuild(table, alias, page),
                              aliases_, record.common_name \o record.aliases)

LoadCabinetRecord(title) ==
  /\ loading = "load" /\ title \in unread
  /\ BuildPage(title)
  /\ unread' = unread \ {title}
  /\ UNCHANGED <<cabinet, loading, shadow, askedFor>>
CabinetLoaded ==
  /\ loading = "load" /\ unread = {}
  /\ loading' = "loaded"
  /\ UNCHANGED <<cabinet, unread, titles, edgesOf, aliases_, shadow, askedFor>>

(* clear frees the pages and forgets them; aliases_ goes on pointing to    *)
(* them, and max_id_ goes on counting.                                     *)
ClearGraph ==
  /\ loading = "loaded" /\ loading' = "cleared"
  /\ titles' = <<>> /\ edgesOf' = <<>>
  /\ UNCHANGED <<cabinet, unread, aliases_, shadow, askedFor>>

-----------------------------------------------------------------------------
(* build_shadow_page: an edge to each page a name stands for.  The weight  *)
(* counts in an int and is stored in a byte.                               *)
ConceptsOf(name) == IF name \in DOMAIN aliases_ THEN aliases_[name] ELSE <<>>
ShadowEdges(names, increasing) ==
  LET pages == FlattenSeq([n \in DOMAIN names |-> ConceptsOf(names[n])])
      all == [n \in DOMAIN pages |->
                [end |-> pages[n], min_weight |-> IF increasing THEN (10 * (n - 1)) % ByteRange ELSE 0]]
  IN  FoldLeft(AddToEdges, <<>>, all)
BuildShadowPage(names, increasing) ==
  /\ loading = "loaded" /\ names # <<>>
  /\ shadow' = ShadowEdges(names, increasing)
  /\ askedFor' = [names |-> names, increasing |-> increasing]
  /\ UNCHANGED <<cabinet, unread, loading, titles, edgesOf, aliases_>>

NextLoad ==
  \/ (\E title \in unread : LoadCabinetRecord(title)) \/ CabinetLoaded \/ ClearGraph
  \/ \E names \in ShadowAsks, increasing \in BOOLEAN : BuildShadowPage(names, increasing)

-----------------------------------------------------------------------------
(* Properties                                                              *)

FirstOf(seq) == SubSeq(seq, 1, Min({MaxEdges, Len(seq)}))
Mentions(title, alias) ==
  Cardinality({n \in DOMAIN cabinet[title].aliases : cabinet[title].aliases[n] = alias})
    + Cardinality({n \in DOMAIN cabinet[title].common_name : cabinet[title].common_name[n] = alias})

(* In whatever order its records were read, the graph is the one the file  *)
(* describes: a page for each title and each end, once; of each page the   *)
(* edges of its record, up to the limit, leading to the pages they name;   *)
(* under each alias the pages whose records mention it, as often as they   *)
(* do.  A shadow page reaches all pages its names stand for, in order, and *)
(* where the order is to count no page weighs less than one before it, as  *)
(* long as their number times 10 fits a byte.                              *)
LoadKeepsGraph ==
  loading = "loaded" =>
    LET ends == {title \in ToSet(titles) : title \notin DOMAIN cabinet}
        mentioned == UNION {ToSet(cabinet[t].aliases \o cabinet[t].common_name) : t \in DOMAIN cabinet}
    IN  /\ IsInjective(titles)
        /\ ToSet(titles) = DOMAIN cabinet \cup UNION {{e.end : e \in ToSet(cabinet[t].edges)} : t \in DOMAIN cabinet}
        /\ \A id \in DOMAIN titles :
             [n \in DOMAIN edgesOf[id] |-> <<titles[edgesOf[id][n].end], edgesOf[id][n].min_weight>>]
               = IF titles[id] \in ends THEN <<>>
                 ELSE LET edges == FirstOf(cabinet[titles[id]].edges)
                      IN  [n \in DOMAIN edges |-> <<edges[n].end, MinWeight(edges[n].weights)>>]
        /\ DOMAIN aliases_ = mentioned
        /\ \A alias \in mentioned, t \in DOMAIN cabinet :
             Mentions(t, alias) = Cardinality({n \in DOMAIN aliases_[alias] : titles[aliases_[alias][n]] = t})
        /\ LET named == UNION {ToSet(ConceptsOf(name)) : name \in ToSet(askedFor.names)}
               total == FoldLeft(LAMBDA sum, name : sum + Len(ConceptsOf(name)), 0, askedFor.names)
           IN  /\ Len(shadow) = Min({total, MaxEdges})
               /\ total <= MaxEdges => {e.end : e \in ToSet(shadow)} = named
               /\ \A m, n \in DOMAIN shadow :
                    m < n /\ 10 * Len(shadow) <= ByteRange => shadow[m].min_weight <= shadow[n].min_weight
=============================================================================
