--------------------------- MODULE MCConceptResolver ---------------------------
(* Three texts, two of which share a concept, and qualities on either side *)
(* of the thresholds; neighbor lists one longer than the limit, a neighbor *)
(* that is no concept, and a record that is missing.                       *)
EXTENDS ConceptResolver, IndexReaders, FrequencyCounter

Entry(name, quality) == [name |-> name, quality |-> quality]

AliasRecord(first, second) ==
  [text \in {"", "apple", "jobs", "pie"} |->
     CASE text = "apple" -> first
       [] text = "jobs"  -> second
       [] text = "pie"   -> <<Entry("Fruit", 10)>>
       [] OTHER          -> <<>>]
MCAliasFiles ==
  {AliasRecord(first, second) :
     first \in {<<Entry("Inc", 5), Entry("Fruit", q)>> : q \in {20, 90}},
     second \in {<<Entry("Steve", 0)>>, <<Entry("Steve", 30), Entry("Inc", 40)>>, <<>>}}

MCNeighborFiles ==
  LET lists(name, near) == {<<>>, <<Entry(near, 3)>>, <<Entry("nobody", 1), Entry(near, 120)>>,
                            <<Entry(near, 45), Entry("nobody", 1), Entry(name, 3)>>}
  IN  {[name \in {"Inc", "Steve", "", "unknown"} |->
          CASE name = "Inc" -> inc [] name = "Steve" -> steve [] OTHER -> <<>>] :
         inc \in lists("Fruit", "Steve"), steve \in lists("Inc", "Inc")}
      \cup {[name \in {"Inc", "Fruit", "Steve"} |-> <<Entry("Fruit", 10), Entry("Steve", q)>>] : q \in {10, 60}}

MCInputs ==
  {<<"apple", "jobs">>, <<"jobs", "apple">>, <<"pie", "jobs", "apple">>, <<"apple", "apple", "jobs">>,
   <<"apple", "pie", "apple">>, <<"pie", "nothing">>}

(* Four linked pages, in every way without self links; and indexes of a few *)
(* lines whose names collide, with a stop word, a number for a title, more  *)
(* records than SizeRange, and an override.                                 *)
Page4 == [n \in 1..4 |-> [id |-> n, title |-> <<<<"A", "B", "C", "D">>[n]>>, ambiguous |-> FALSE]]
LinkList ==
  SelectSeq([k \in 1..16 |-> [first |-> (k - 1) \div 4 + 1, second |-> ((k - 1) % 4) + 1]],
            LAMBDA r : r.first # r.second /\ ~(r.first = 2 /\ r.second = 1))
IndexOf(pages, redirects, outlinks, distances, images, overrides) ==
  [pages |-> pages, redirects |-> redirects, outlinks |-> outlinks, distances |-> distances,
   images |-> images, overrides |-> overrides]
MCGraphIndexes ==
  {IndexOf(Page4, <<>>, SelectSeq(LinkList, LAMBDA r : r \in links), <<>>, <<>>, <<>>) :
     links \in SUBSET ToSet(LinkList)}
Line(id, title, ambiguous) == [id |-> id, title |-> title, ambiguous |-> ambiguous]
Name(name, id) == [name |-> name, id |-> id]
Override(name, title) == [name |-> name, title |-> title]
Record(first, second, distance) == [first |-> first, second |-> second, distance |-> distance]
NewYork == <<"New", " ", "York">>
NewYorkCity == NewYork \o <<" ", "City">>
MCPageFiles ==
  {<<Line(1, NewYork, FALSE), Line(3, second, FALSE), Line(2, third, second = <<"1">>)>> :
     second \in {NewYorkCity, <<"the">>, <<"1">>}, third \in {<<"York">>, NewYork}}
MCRedirectFiles ==
  {<<>>, <<Name(<<"Gotham">>, 3), Name(<<"York">>, 1), Name(<<"York", " ", "New">>, 1)>>, <<Name(<<"Gotham">>, 3), Name(<<"Gotham">>, 1), Name(<<"the">>, 2)>>,
   <<Name(<<"city", " ", "hall", " ", "of">>, 1), Name(NewYorkCity, 2), Name(<<"hall", " ", "of">> \o <<" ">> \o NewYork, 3)>>}
MCDistanceFiles ==
  {<<Record(1, 2, 5), Record(1, 3, 7), Record(3, 1, 9)>>,
   <<Record(1, 2, 1), Record(1, 3, 2), Record(1, 2, 3), Record(2, 2, 0), Record(1, 1, 4)>>}
MCImageFiles == {<<[title |-> NewYork, link |-> <<"ny.png">>], [title |-> <<"York">>, link |-> <<"y.png">>]>>}
MCOverrideFiles == {<<>>, <<Override(<<"York">>, NewYork), Override(<<"nowhere">>, <<"nothing">>)>>}
MCNameIndexes ==
  {IndexOf(pages, redirects, <<>>, distances, images, overrides) :
     pages \in MCPageFiles, redirects \in MCRedirectFiles, distances \in MCDistanceFiles,
     images \in MCImageFiles, overrides \in MCOverrideFiles}
MCIndexes == MCGraphIndexes \cup MCNameIndexes
MCChainAsks == {<<<<"A">>, <<"D">>>>, <<<<"A">>, <<"A">>>>, <<<<"Gotham">>, <<"D">>>>}
Say(words) == FlattenSeq([n \in 1..2 * Len(words) - 1 |-> IF n % 2 = 1 THEN <<words[(n + 1) \div 2]>> ELSE <<" ">>])
MCStopTitles == {<<"the">>}
MCExactExempt == {Say(<<"i", "like">>)}
MCDistanceAsks == {<<NewYork>>, <<<<"York">>, <<"Gotham">>, NewYork>>}
MCSnippetAsks ==
  {Say(w) : w \in [1..4 -> {"New", "York", "City"}] \cup UNION {[1..k -> {"New", "York", "City", "the"}] : k \in 1..3}}
  \cup {<<" ">> \o Say(<<"city", "hall", "of", "New", "York", "City", "hall", "of", "York">>) \o <<" ">>,
        Say(<<"city", "hall", "of">>) \o <<" ">> \o NewYorkCity, <<>>, <<",", " ", "York">>, <<"New", ",", "York">>,
        Say(<<"Gotham", "hall", "of", "New", "York", "York">>), Say(<<"i", "like">>)}

(* Tuples of one to three words, some of which begin inside others, some   *)
(* that name the same concept; pages about a concept they speak of.        *)
NamedTuples(inner) ==
  <<"a">> :> "A" @@ <<"b">> :> inner @@ <<"a", "b">> :> "C" @@ <<"b", "a">> :> "A" @@ <<"a", "b", "a">> :> inner
MCTuples ==
  {[p \in phrases |-> NamedTuples(inner)[p]] : inner \in {"A", "B"},
     phrases \in {s \in SUBSET DOMAIN NamedTuples("A") : Cardinality(s) \in {2, 3}}}
PageOf(title, words) == [title |-> title, words |-> words]
MCDumpPages ==
  {<<PageOf("C", <<"a", "b", "a", "b">>), PageOf("B", <<"a", "a", "b">>)>>,
   <<PageOf("A", <<"b", "a", "b", "a">>), PageOf("D", <<>>), PageOf("D", <<"b">>)>>}

(* A program resolves concepts, counts them, or reads an index.  One of    *)
(* the readers is asked, when the three have loaded.                       *)
NoResolver ==
  /\ aliasFile = <<>> /\ neighborFile = <<>> /\ todo = {} /\ ids = NoEntries /\ names = <<>>
  /\ allocated = AllocationJump /\ aliases = NoEntries /\ neighbors = NoEntries /\ zeroed = FALSE
  /\ resolving = "crashed" /\ input = <<>> /\ output = {}
NoIndex == IndexOf(<<>>, <<>>, <<>>, <<>>, <<>>, <<>>)
NoReaders == index = NoIndex /\ InitGraph /\ InitNeighbors /\ InitTuples
NoCounter ==
  /\ tupleMap = <<>> /\ waitingPages = <<>> /\ lostCalls = 0 /\ counting = "none" /\ chunk = <<>>
  /\ article = NoArticle /\ word = 0 /\ furthestWindow = 0 /\ dupChecker = {} /\ conceptCounts = <<>>
  /\ frequencies = <<>> /\ quitting = FALSE /\ counted = <<>> /\ inFile = 0
InitPrograms ==
  \/ InitResolver /\ NoReaders /\ NoCounter
  \/ InitReaders /\ NoResolver /\ NoCounter
  \/ InitCounter /\ NoReaders /\ NoResolver
GraphAlone == index.distances = <<>>
States == {search, serves, maps}
Reading == {"start", "redirects", "outlinks", "distances", "images", "overrides"}
NextPrograms ==
  \/ counting # "none" /\ NextCounter /\ UNCHANGED <<resolverVars, readerVars>>
  \/ counting = "none" /\ index = NoIndex /\ NextResolver /\ UNCHANGED <<readerVars, counterVars>>
  \/ /\ index # NoIndex /\ NextReaders /\ UNCHANGED <<resolverVars, counterVars>>
     /\ IF GraphAlone THEN UNCHANGED <<neighborVars, tupleVars>>
        ELSE States = {"loaded"} \/ (States \cap Reading # {} /\ States' \subseteq Reading \cup {"loaded"})
SpecPrograms == InitPrograms /\ [][NextPrograms]_<<resolverVars, readerVars, counterVars>>
=============================================================================
