------------------------- MODULE MCSequentialParser -------------------------
(* Instance for TLC of the programs that read articles: the two parsers, on *)
(* the well-formed articles and on every sequence of a few lexemes of       *)
(* several small alphabets, most of them broken articles; and the pages, on *)
(* small dumps.                                                             *)
EXTENDS ArticleParsers, WikipediaPages

Sequences(alphabet, n) == UNION {[1 .. k -> alphabet] : k \in 0 .. n}
Lexemes ==
  (TakenAnywhere \ {"===", "h4", "h5", "''", "'''''"}) \cup DOMAIN Ends
  \cup {"}}", "}}}}", "]]", "{{", "|", "=", "]", " ", "nl", "</ref>", "|+", "!", "|-", "|}", "a"}
MCPictures == {"f", "p.jpg"}
MCLinkTexts ==
  Sequences({"[[", "]]", "|", "#", ":", "nl", "a", "#redirect"}, 4)
  \cup Sequences({"{{", "}}", "<ref>", "</ref>", "[[", "]]", "a"}, 5)
  \cup Sequences({"{{", "|", "=", "p.jpg", "<!--", "-->", "}}"}, 5)
MCArticles ==
  {p.src : p \in Phrases}
  \cup Sequences({"[[", "]]", "|", "nl", "a", "#redirect"}, 5)
  \cup {<<"{{", "t">> \o s : s \in Sequences({"{{", "}}", "}}}}", "|", "=", "[[Image:", "]]"}, 4)}
  \cup {<<"{|", "nl">> \o s :
          s \in Sequences({"{|", "|}", "|-", "|+", "|", "nl", "!", "[["}, 4)}
  \cup Sequences({"<nowiki>", "</nowiki>", "<pre>", "</pre>", "</source>", "[http://", " ", "]"}, 4)
  \cup Sequences({"<ref>", "</ref>", "<ref/>", "==", "'''", "[[", "]]", "[[Category:"}, 4)
  \cup Sequences({"<!--", "-->", "{{PAGENAME}}", "{{SERVER}}", "a"}, 4)
  \cup Sequences(Lexemes, 3)

(* Dumps of an article, a redirect, a useless title, and two pages more;    *)
(* the last links to a page without a text.                                 *)
T(x) == <<x>>
LinkTo(x) == <<"[[", x, "]]">>
InTemplate(x) == <<"{{", "t", "|">> \o LinkTo(x) \o <<"}}">>
RedirectTo(x) == <<"#redirect">> \o LinkTo(x)
TextsA ==
  {LinkTo("b") \o LinkTo("R") \o LinkTo("R") \o InTemplate("B"),
   LinkTo("a") \o LinkTo("C") \o LinkTo("R"), InTemplate("R") \o <<"p.jpg">>, <<"a">>}
TextsB ==
  {LinkTo("r") \o LinkTo("R") \o LinkTo("A"),
   LinkTo("C") \o InTemplate("A") \o LinkTo("A") \o <<"{{disambig}}">>, RedirectTo("A")}
TextsC ==
  {LinkTo("A") \o LinkTo("B"), LinkTo("a") \o LinkTo("a") \o LinkTo("a") \o LinkTo("a"),
   LinkTo("B"), RedirectTo("R")}
MCDumps ==
  {<<<<T("A"), a>>, <<T("R"), RedirectTo(r)>>, <<T("Talk"), LinkTo("A")>>, <<T("B"), b>>, <<T("C"), c>>>> :
     a \in TextsA, b \in TextsB, c \in TextsC, r \in {"A", "B", "C", "R"}}
  \cup {<<<<T("R"), RedirectTo("B")>>, <<T("B"), RedirectTo("C")>>, <<T("C"), RedirectTo("D")>>,
          <<T("D"), RedirectTo("A")>>, <<T("A"), a>>, <<T("F"), LinkTo("R") \o LinkTo("B")>>>> : a \in TextsA}
  \cup {<<<<T("A"), a>>, <<T("B"), LinkTo("A") \o LinkTo("F")>>, <<T("D"), LinkTo("F")>>, <<T("F"), f>>>> :
          a \in {<<"a">>, LinkTo("D") \o LinkTo("F") \o LinkTo("F")}, f \in {<<"a">>, LinkTo("B"), LinkTo("A")}}
  \cup {<<<<T("A"), LinkTo("R") \o LinkTo("C")>>, <<T("R"), RedirectTo(r)>>, <<T("B"), <<>>>>, <<T("C"), LinkTo("B")>>>> :
          r \in {"B", "C"}}
MCCabinets ==
  {(T("A") :> <<T("B")>>) @@ (T("B") :> <<>>) @@ (T("C") :> <<>>)}
  \cup {(T("A") :> a) @@ (T("B") :> b) @@ (T("C") :> c) :
     a \in {<<T("B")>>, <<T("C"), T("B")>>, <<T("D")>>},
     b \in {<<T("C")>>, <<T("A"), T("C"), T("D")>>}, c \in {<<T("A"), T("B")>>, <<T("D"), T("B")>>}}
MCUselessTitles == {T("Talk")}
MCLowerTitle == (T("A") :> T("a")) @@ (T("B") :> T("b")) @@ (T("R") :> T("r"))
MCWordsOf ==
  (<<>> :> <<>>) @@
  [t \in {T(x) : x \in {"A", "B", "C", "D", "F"}} |->
     IF t = T("C") THEN <<"Upper", "lower">> ELSE <<"Upper", "of", "Upper">>]

(* A program parses an article, or loads pages.                             *)
InitPrograms == (InitBoth /\ NoPages) \/ (InitPages /\ NoArticle)
NextPrograms == (NextBoth /\ UNCHANGED pageVars) \/ (NextPages /\ UNCHANGED <<vars, linkVars>>)
SpecPrograms == InitPrograms /\ [][NextPrograms]_<<vars, linkVars, pageVars>>
=============================================================================
