--------------------------- MODULE ArticleParsers ---------------------------
(***************************************************************************)
(* The two readings of an article: the links and the text that WikiParser  *)
(* finds in it, and the tree that the sequential parser makes of it, from  *)
(* which the same links and the same text can be read off.                 *)
(***************************************************************************)
EXTENDS ArticleGrammar

CONSTANTS
  LinkTexts,    (* what WikiParser reads besides the well-formed articles    *)
  Pictures

VARIABLES
  article,      (* the text WikiParser reads, with its comments, or <<>>     *)
  links,        (* the parse tree of wiki_parse                              *)
  plain         (* what wikitext_to_plaintext returns                        *)

Wiki == INSTANCE WikiParser
linkVars == <<article, links, plain>>
Unused == article = <<>> /\ links = Wiki!Tree /\ plain = <<>>

NoContent ==
  /\ content = <<>> /\ pos = 1 /\ half = FALSE /\ stack = <<>> /\ frames = <<>>
  /\ heap = [node |-> <<Section("tree")>>, list |-> <<<<>>>>] /\ freed = {} /\ redirect = FALSE /\ error = ""
(* Neither runs.                                                           *)
NoArticle == Unused /\ NoContent /\ phase = "none"

(* A program calls one of the parsers: the sequential one, or wiki_parse   *)
(* and wikitext_to_plaintext.                                              *)
InitLinks ==
  /\ article \in LinkTexts \cup {p.src : p \in Phrases}
  /\ links = Wiki!Tree /\ plain = <<>>
  /\ NoContent /\ phase = "links"
ReadLinks ==
  /\ phase = "links"
  /\ links' = Wiki!wiki_parse(article)
  /\ plain' = Wiki!wikitext_to_plaintext(article)
  /\ phase' = "read"
  /\ UNCHANGED <<article, content, pos, half, stack, frames, heap, freed, redirect, error>>

InitBoth == (Init /\ Unused) \/ InitLinks
NextBoth == (Next /\ UNCHANGED linkVars) \/ ReadLinks

-----------------------------------------------------------------------------
(* What a tree says of links and text.  top: outside of any template and   *)
(* image.  References and tables are skipped.                              *)

RECURSIVE LinksIn(_, _), TextIn(_), ImagesIn(_)
LinksIn(node, top) ==
  CASE node.type = "internal_link" -> <<[name |-> node.text, in_text |-> top]>>
    [] node.type \in {"ref", "table"} -> <<>>
    [] OTHER ->
         LET inner == top /\ node.type \notin {"template", "image"}
         IN  FlattenSeq([n \in DOMAIN node.kids |-> LinksIn(node.kids[n], inner)])

(* The name of a page without its alias, [[b|]], is lost with its link,    *)
(* and the name of the site is a template.                                 *)
TextOfLink(node) ==
  LET alias == IF node.other = <<>> THEN node.text ELSE node.other
  IN  IF node.other = node.text THEN <<>>
      ELSE <<"[[">> \o node.text \o <<"|">> \o alias \o <<"]]">>
TextIn(node) ==
  LET inner == FlattenSeq([n \in DOMAIN node.kids |-> TextIn(node.kids[n])])
  IN  CASE node.type = "text" -> SelectSeq(node.text, LAMBDA x : x # "Wikipedia")
        [] node.type = "internal_link" -> TextOfLink(node)
        [] node.type = "external_link" ->
             <<"[http://">> \o Tail(node.text)
               \o (IF node.kids = <<>> THEN <<>> ELSE <<" ">> \o inner) \o <<"]">>
        [] node.type \in {"heading", "array"} -> inner
        [] OTHER -> <<>>

(* The colon of an address drops the image whose caption it is in.         *)
InCaption(node, type) ==
  \E n \in DOMAIN node.kids : \E m \in DOMAIN node.kids[n].kids :
    LET value == node.kids[n].kids[m]
    IN  value.type = type \/ \E k \in DOMAIN value.kids :
                               value.type = "array" /\ value.kids[k].type = type
ImagesIn(node) ==
  IF node.type \in {"ref", "table"} THEN {}
  ELSE UNION {ImagesIn(node.kids[n]) : n \in DOMAIN node.kids}
         \cup IF node.type = "image" /\ ~InCaption(node, "external_link") THEN {node.text} ELSE {}

AddLink(found, link) ==
  LET known == {n \in DOMAIN found : found[n].name = link.name}
  IN  IF known = {} THEN Append(found, [name |-> link.name, count |-> 1, in_text |-> link.in_text])
      ELSE [n \in DOMAIN found |->
              IF n \in known THEN [found[n] EXCEPT !.count = @ + 1, !.in_text = @ \/ link.in_text]
              ELSE found[n]]

(* Regions: their end tags and the ends of templates end them alike, and   *)
(* two of the tags are no tags to this scanner.                            *)
Regions == {"<nowiki>", "<pre>", "<math>", "<source>", "<gallery>"}
TemplateInRef(src) ==
  \E i, j \in DOMAIN src : /\ i < j /\ src[i] = "<ref>" /\ src[j] \in {"}}", "{{SITENAME}}"}
                           /\ \A k \in i .. j : src[k] # "</ref>"
Readable(src) == ToSet(src) \cap Regions = {}

(* wiki_parse and wikitext_to_plaintext find the links, the images, the    *)
(* redirect and the text that the tree of the article holds: each link     *)
(* once, with its count, and in the text if it is not only in templates    *)
(* and captions.  In any text, the regions that are counted as open are    *)
(* those on top of the stack, so that their end tags close nothing else.   *)
ParsersAgree ==
  /\ phase = "read" =>
       LET after == Wiki!ParseStates(Wiki!Tokenize(article))
       IN  \A i \in DOMAIN after :
             \A n \in DOMAIN after[i].stack :
               after[i].stack[n].type = "IGNORE" <=> n > Len(after[i].stack) - after[i].ignores
  /\ phase = "read" => \A p \in WellFormed : p.src = article /\ Readable(article) =>
       LET found == FlattenSeq([n \in DOMAIN p.json |-> LinksIn(p.json[n], TRUE)])
           text == FlattenSeq([n \in DOMAIN p.json |-> TextIn(p.json[n])])
           redirects == p.json # <<>> /\ p.json[1].type = "redirect"
       IN  IF redirects
           THEN links = [Wiki!Tree EXCEPT !.redirect = p.json[1].text] /\ plain = Wiki!Redirecting
           ELSE /\ ~TemplateInRef(article) =>
                     links.redirect = <<>> /\ links.outlinks = FoldLeft(AddLink, <<>>, found)
                /\ ToSet(links.images) = UNION {ImagesIn(p.json[n]) : n \in DOMAIN p.json}
                /\ plain = text
=============================================================================
