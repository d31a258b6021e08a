----------------------------- MODULE IndexReaders -----------------------------
(***************************************************************************)
(* The three programs that read an index, on the same index: a name should *)
(* mean the same page to all of them.                                      *)
(***************************************************************************)
EXTENDS WikipediaGraph, WikipediaNeighborSet, WikipediaTupleMap

readerVars == <<index, graphVars, neighborVars, tupleVars>>

InitReaders == index \in Indexes /\ InitGraph /\ InitNeighbors /\ InitTuples
NextReaders ==
  /\ \/ NextGraph /\ UNCHANGED <<neighborVars, tupleVars>>
     \/ NextNeighbors /\ UNCHANGED <<graphVars, tupleVars>>
     \/ NextTuples /\ UNCHANGED <<graphVars, neighborVars>>
  /\ UNCHANGED index
SpecReaders == InitReaders /\ [][NextReaders]_readerVars

-----------------------------------------------------------------------------
(* Properties                                                              *)

Titles(lines) == {lines[n].title : n \in DOMAIN lines}
Names(lines) == {lines[n].name : n \in DOMAIN lines}
TitlesFor(names, TitleAt(_), name) == {TitleAt(names[n]) : n \in {name} \cap DOMAIN names}
RecordsOf(n) ==
  SelectSeq(index.distances, LAMBDA r : PageTable(Lines)[r.first] = n)

(* The tuple map and the neighbor set read a name as the same title, unless *)
(* it or the title is a stop word or the name has an override; the graph    *)
(* reads the titles of pages as they do, and redirects as nothing unless    *)
(* some title is the number of a page.  What the neighbor set answers of a  *)
(* page are its records in order, all if their number fits a byte, and      *)
(* otherwise those behind the last multiple of what it can count.           *)
ReadersAgree ==
  LET names == Titles(index.pages) \cup Names(index.redirects) \cup Names(index.overrides)
      numbers == {<<ToString(index.pages[n].id)>> : n \in Lines}
      asNeighbor(name) == TitlesFor(neighbors_, LAMBDA h : holders[h].title, name)
      asTuple(name) == TitlesFor(tuples_, LAMBDA c : canonicals_[c].tuple, name)
      asPage(name) == TitlesFor(pages_, LAMBDA p : index.pages[p].title, name)
  IN  {search, serves, maps} = {"loaded"} =>
      /\ \A name \in names \ (Names(index.overrides) \cup StopTitles) :
           asNeighbor(name) \cap StopTitles = {} => asTuple(name) = asNeighbor(name)
      /\ \A name \in names :
           IF name \notin Names(index.redirects) THEN asPage(name) = asNeighbor(name)
           ELSE asPage(name) # {} => name \in Titles(index.pages) \/ Titles(index.pages) \cap numbers # {}
      /\ \A n \in DOMAIN holders :
           LET near == holders[n].neighbors
               records == RecordsOf(n)
               lost == SizeRange * (Len(records) \div SizeRange)
           IN  near = [k \in 1..Len(records) - lost |->
                         [title |-> holders[PageTable(Lines)[records[k + lost].second]].title,
                          distance |-> records[k + lost].distance]]
=============================================================================
