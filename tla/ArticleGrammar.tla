--------------------------- MODULE ArticleGrammar ---------------------------
(***************************************************************************)
(* Articles that are written as the wiki's markup means them to be, each   *)
(* with the JSON it stands for: a phrase is a text and the values that it  *)
(* is worth, and a construct makes a phrase from the phrases inside it.    *)
(* What the parser makes of such a text is compared with what it is worth. *)
(*                                                                         *)
(* Left out are the texts that the parser does not read as they are meant  *)
(* (README, "What the parser loses"): the text of a <ref>, the text of a   *)
(* table cell in front of a link, text in front of a redirect, a header    *)
(* cell that is not the first cell of its row; and the texts whose lexemes *)
(* the scanner cuts in another way, as where an image ends right behind an *)
(* external link: "]" and "]]" are cut into "]]" and "]".                  *)
(***************************************************************************)
EXTENDS SequentialTreeJson, SequencesExt

Phrase(src, json) == [src |-> src, json |-> json]
Nothing == Phrase(<<>>, <<>>)
Then(p, q) == Phrase(p.src \o q.src, p.json \o q.json)
Around(before, p, after) == Phrase(before \o p.src \o after, p.json)

Text(s) == Phrase(s, <<Node("text", s, <<>>, <<>>)>>)
Word == Text(<<"a">>)
Site == Phrase(<<"{{SITENAME}}">>, <<Node("text", <<"Wikipedia">>, <<>>, <<>>)>>)
Link == Phrase(<<"[[", "b", "]]">>, <<Node("internal_link", <<"b">>, <<>>, <<>>)>>)
AliasedLink ==
  Phrase(<<"[[", "b", "|", "c", "]]">>, <<Node("internal_link", <<"b">>, <<"c">>, <<>>)>>)
PipeLink ==
  Phrase(<<"[[", "b", "|", "]]">>, <<Node("internal_link", <<"b">>, <<"b">>, <<>>)>>)
Inline == {Word, Link, Then(Word, AliasedLink), Then(PipeLink, Word)}

(* Parameters: numbered ones count from 1 and skip the named ones; blanks  *)
(* around keys and values do not count.                                    *)
Value1(p) == Node("key_value", <<"1">>, <<>>, <<Value(p.json)>>)
Named(key, p) == Node("key_value", <<key>>, <<>>, <<Value(p.json)>>)
Parameters(p) ==
  {Phrase(<<"|">> \o p.src, <<Value1(p)>>),
   Phrase(<<"|", " ">> \o p.src \o <<"nl">>, <<Value1(p)>>),
   Phrase(<<"|", " ", "k", " ", "=", " ">> \o p.src \o <<" ">>, <<Named("k", p)>>),
   Phrase(<<"|", "k", "=">> \o p.src \o <<"|">> \o p.src, <<Named("k", p), Value1(p)>>),
   Phrase(<<"|">> \o p.src \o <<"|", "k", "=">> \o p.src, <<Value1(p), Named("k", p)>>)}

Template(params) ==
  Phrase(<<"{{", "t">> \o params.src \o <<"}}">>,
         <<Node("template", <<"t">>, <<>>, params.json)>>)
Image(params) ==
  Phrase(<<"[[Image:", "f">> \o params.src \o <<"]]">>,
         <<Node("image", <<"f">>, <<>>, params.json)>>)
Templates(bodies) == {Template(ps) : ps \in UNION {Parameters(p) : p \in bodies} \cup {Nothing}}
Images(bodies) == {Image(ps) : ps \in UNION {Parameters(p) : p \in bodies} \cup {Nothing}}

(* An end that closes a template inside the last parameter of a template.  *)
DoubleEnd ==
  {Phrase(<<"{{", "s", "|">> \o between \o <<"{{", "t", "|", "a", "}}}}">>,
          <<Node("template", <<"s">>, <<>>,
                 <<Node("key_value", key, <<>>, Template(Phrase(<<>>, <<Value1(Word)>>)).json)>>)>>) :
     <<between, key>> \in {<<<<>>, <<"1">>>>, <<<<"k", "=">>, <<"k">>>>}}

ExternalLinks(bodies) ==
  {Phrase(<<"[http://", "u", "]">>,
          <<Node("external_link", <<"http://", "u">>, <<>>, <<>>)>>)} \cup
  {Phrase(<<"[http://", "u", " ">> \o p.src \o <<"]">>,
          <<Node("external_link", <<"http://", "u">>, <<>>, p.json)>>) : p \in bodies}

Verbatims ==
  {Phrase(<<tok[1], "[[", "a", "}}", tok[2]>>,
          <<Node(tok[3], <<"[[", "a", "}}">>, <<>>, <<>>)>>) :
     tok \in {<<"<nowiki>", "</nowiki>", "text">>, <<"<pre>", "</pre>", "pre">>,
              <<"<math>", "</math>", "math">>, <<"<source>", "</source>", "source">>,
              <<"<gallery>", "</gallery>", "gallery">>}}

Specials ==
  {Phrase(<<"[[Category:", "c", "]]">>, <<Node("category", <<"c">>, <<>>, <<>>)>>),
   Phrase(<<"[[de:", "d", "]]">>, <<Node("language_link", <<"d">>, <<"de">>, <<>>)>>)}

Headings(bodies) ==
  {Phrase(<<"==">> \o p.src \o <<"==">>,
          <<Node("heading", <<>>, <<>>, <<Value(p.json)>>)>>) : p \in bodies}

Refs(bodies) ==
  {Phrase(<<"<ref>">> \o p.src \o <<"</ref>">>, <<Node("ref", <<>>, <<>>, p.json)>>) :
     p \in {p \in bodies : \A i \in DOMAIN p.json : p.json[i].type # "text"}} \cup
  {Phrase(<<"<ref/>">>, <<Node("ref", <<>>, <<>>, <<>>)>>)}

(* Tables: one cell or header a line; what follows a cell's content up to  *)
(* the end of the line belongs to it.                                      *)
Line(p) == Then(p, Text(<<"nl">>))
CellText(s) == Text(s \o <<"nl">>)
DataCells ==
  {Phrase(<<"|">> \o p.src, <<Node("cell", <<>>, <<>>, p.json)>>) :
     p \in {CellText(<<"a">>), Line(Link)}} \cup
  {Phrase(<<"|", "y", "|", "a", "nl">>,
          <<Node("cell", <<"y">>, <<>>, CellText(<<"a">>).json)>>)}
HeaderCell ==
  Phrase(<<"!", "a", "nl">>, <<Node("cell", <<>>, <<"header">>, CellText(<<"a">>).json)>>)
Cells == DataCells \cup {HeaderCell}
Row(style, cells) ==
  Phrase(<<"|-">> \o style \o <<"nl">> \o cells.src, <<Node("row", style, <<>>, cells.json)>>)
EmptyRow == Phrase(<<"|-", "nl">>, <<>>)
Rows ==
  {Row(style, c) : style \in {<<>>, <<"s">>}, c \in Cells}
  \cup {Row(<<>>, Then(c, d)) : c \in Cells, d \in DataCells}
Captions ==
  {Nothing,
   Phrase(<<"|+", "a", "nl">>, <<Node("table_caption", <<>>, <<>>, CellText(<<"a">>).json)>>),
   Phrase(<<"|+", "y", "|", "a", "nl">>,
          <<Node("table_caption", <<"y">>, <<>>, CellText(<<"a">>).json)>>)}
Table(style, body) ==
  Phrase(<<"{|">> \o style \o <<"nl">> \o body.src \o <<"|}">>,
         <<Node("table", style, <<>>, body.json)>>)
Tables ==
  {Table(<<>>, row) : row \in Rows} \cup
  {Table(<<"s">>, Then(Then(caption, row), last)) :
     caption \in Captions, row \in {Row(<<>>, c) : c \in Cells},
     last \in {Nothing, EmptyRow} \cup {Row(<<>>, c) : c \in Cells}}

Constructs ==
  {Link, AliasedLink, PipeLink} \cup Templates(Inline) \cup Images(Inline) \cup DoubleEnd
  \cup ExternalLinks(Inline) \cup Verbatims \cup Specials \cup Headings(Inline)
  \cup Refs(Inline) \cup Tables

(* A template, image or reference with any construct inside it.            *)
Small ==
  {Link, PipeLink, Then(Then(Word, Template(Nothing)), Link)} \cup Images({Word})
  \cup Templates({Link}) \cup ExternalLinks({Word}) \cup Verbatims \cup Specials
Nested == Templates(Small) \cup Images(Small) \cup Refs(Small)

Formatted == Phrase(<<"'''", "a", "'''">>, Word.json)
Redirected == Phrase(<<"#redirect", " ">> \o Link.src, <<Node("redirect", <<"b">>, <<>>, <<>>)>>)
Comment == <<"<!--", "[[", "-->">>

Phrases ==
  {Word, Site, Formatted, Redirected} \cup Nested
  \cup {Then(Then(Word, p), Word) : p \in Constructs}
  \cup {Then(p, q) : p \in Small, q \in Small}
  \cup {Around(Comment, Then(p, Site), Comment) : p \in Small}

(* An end "}}}}" is as good as two.                                        *)
TwoEnds(text) ==
  FlattenSeq([i \in DOMAIN text |-> IF text[i] = "}}}}" THEN <<"}}", "}}">> ELSE <<text[i]>>])
CutAsWritten(text) == TwoEnds(Tokenize(text)) = TwoEnds(text)
WellFormed == {p \in Phrases : CutAsWritten(Preprocess(p.src))}

Texts == {Stripped(p.src) : p \in WellFormed}
Worth == {<<Stripped(p.src), p.json>> : p \in WellFormed}
ASSUME OneReading == Cardinality(Worth) = Cardinality(Texts)

(* An article that is well formed is parsed without an error to the tree   *)
(* its markup means, with the contexts of nested constructs returning to   *)
(* where they were, blanks stripped and parameters numbered; and with that *)
(* tree everything the parser has allocated is freed.                      *)
ParsesWellFormed ==
  phase \in {"parsed", "freed", "crashed"} /\ content \in Texts =>
    /\ phase = "parsed" => <<content, TreeToJson>> \in Worth
    /\ phase = "freed" => freed = 2 .. Len(heap.node)
    /\ phase # "crashed"
=============================================================================
