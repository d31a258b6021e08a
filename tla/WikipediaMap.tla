---------------------------- MODULE WikipediaMap ----------------------------
(***************************************************************************)
(* The map of meguro/wikipedia/graph_from_wpt_phase1.js: what one page of  *)
(* the parsed Wikipedia says of itself and of the pages it names.          *)
(*                                                                         *)
(* A page is a sequence of elements, as the parser leaves it.  Of a text   *)
(* only the places of full stops and line ends count here, of a link its   *)
(* target.  A fact is emitted under the title it is about.                 *)
(***************************************************************************)
EXTENDS Integers, Sequences, SequencesExt

CONSTANTS
  None,      (* null                                                       *)
  Meta,      (* titles is_meta_page rejects: "Category:...", "List of ..." *)
  NameOf     (* of a title, its text without the part in parentheses       *)

(* The elements of a page.  A link out of an infobox is one that a rule of *)
(* ATTRIBUTE_RULES reads, with the rule's two distances; "section" is a    *)
(* target written with a #.  The "match" of a link on a disambiguation     *)
(* page is the distance its text earns it.                                 *)
Redirect(t) == [kind |-> "redirect", target |-> t]
Infobox(t, c, d, r, section) ==
  [kind |-> "template", target |-> t, category |-> c, distance |-> d, reverse |-> r,
   section |-> section]
Link(t) == [kind |-> "link", target |-> t]
Match(t, d) == [kind |-> "link", target |-> t, match |-> d]
Disambig == [kind |-> "disambig"]
SeeAlso == [kind |-> "see also"]

(* Text: does it end a sentence before its first line end, is that         *)
(* sentence too long, does it have a line end, and text before it; what    *)
(* the paragraph after it begins with.                                     *)
Text(stop, runOn, newline, before, tail) ==
  [kind |-> "text", stop |-> stop, runOn |-> runOn, newline |-> newline,
   before |-> before, tail |-> tail]
Words == Text(FALSE, FALSE, FALSE, TRUE, "plain")
Stop == Text(TRUE, FALSE, FALSE, TRUE, "plain")
LongStop == Text(TRUE, TRUE, FALSE, TRUE, "plain")
Newline == Text(FALSE, FALSE, TRUE, FALSE, "empty")
NewItem == Text(FALSE, FALSE, TRUE, FALSE, "list")

(* The facts.                                                              *)
About == [kind |-> "about"]
Outlinks(s) == [kind |-> "ol", links |-> s]
Alias(x, from, d) == [kind |-> "alias", alias |-> x, fr |-> from, distance |-> d]
Relation(n, c, d) == [kind |-> "relation", name |-> n, category |-> c, distance |-> d]

(* Both ends of a relation are told, each with its own distance.           *)
emit_one_end(key, target, section, c, d, r) ==                 (* mutant *)
  IF target = key /\ ~section THEN <<>> ELSE <<<<key, Relation(target, c, d)>>>>
emit_relation(key, target, section, c, d, r) ==
  IF target = key /\ ~section THEN <<>>
  ELSE <<<<key, Relation(target, c, d)>>, <<target, Relation(key, c, r)>>>>

-----------------------------------------------------------------------------
(* A disambiguation page gives its name to the pages it lists: of a line   *)
(* the links that match well, or else those that match best.  The last     *)
(* line counts only if it ends.                                            *)
BestOf(line) == CHOOSE d \in {x[2] : x \in ToSet(line)} : \A x \in ToSet(line) : d <= x[2]
LineAliases(name, line) ==
  LET good == SelectSeq(line, LAMBDA x : x[2] < 30 \/ x[2] = BestOf(line))
  IN  [n \in DOMAIN good |-> <<good[n][1], Alias(name, "d", good[n][2])>>]

OnListed(title, m, e) ==
  CASE m.over -> m
    [] e.kind = "see also" -> [m EXCEPT !.over = TRUE]
    [] e.kind = "link" -> [m EXCEPT !.line = Append(@, <<e.target, e.match>>)]
    [] e.kind = "text" /\ e.newline ->
         [m EXCEPT !.out = @ \o LineAliases(NameOf[title], m.line), !.line = <<>>]
    [] OTHER -> m

handle_ambiguous_page(title, page) ==
  FoldLeft(LAMBDA m, e : OnListed(title, m, e),
           [out |-> <<>>, line |-> <<>>, over |-> FALSE], page).out

-----------------------------------------------------------------------------
(* An article.  "targets" are the links of the sentence so far, or None    *)
(* when the rest of the paragraph is given up; "para" is what the          *)
(* paragraph begins with; "described" is set by the first paragraph.       *)
Unread == [out |-> <<>>, targets |-> <<>>, para |-> "empty", described |-> FALSE,
           links |-> <<>>, redirected |-> FALSE]

SentenceRelations(key, targets) ==
  FlattenSeq([n \in DOMAIN targets |->
                emit_relation(key, targets[n], FALSE, "UNCLASSIFIED", -1, -1)])

(* A full stop turns the links of its sentence into relations, but not in  *)
(* a list and not in an overlong sentence behind the first paragraph.      *)
AtStop(key, m, e) ==
  CASE m.targets \in {None, <<>>} -> m
    [] m.para = "list" -> [m EXCEPT !.targets = None]
    [] m.para # "list" /\ ~e.stop -> m
    [] m.para # "list" /\ e.stop /\ e.runOn /\ m.described -> [m EXCEPT !.targets = None]
    [] OTHER -> [m EXCEPT !.targets = <<>>, !.out = @ \o SentenceRelations(key, m.targets)]

OnText(key, m, e) ==
  LET read == AtStop(key, m, e)
  IN  IF e.newline
      THEN [read EXCEPT !.targets = <<>>, !.para = e.tail,
                        !.described = @ \/ e.before \/ m.para # "empty"]
      ELSE [read EXCEPT !.para = IF @ = "empty" THEN e.tail ELSE @]

OnLink(m, e) ==
  LET good == e.target \notin Meta
  IN  [m EXCEPT !.targets = IF @ # None /\ good THEN Append(@, e.target) ELSE @,
                !.para = IF @ = "empty" THEN "plain" ELSE @,
                !.links = IF good /\ e.target \notin ToSet(@) THEN Append(@, e.target) ELSE @]

(* Templates speak through the rule of their parameter.                    *)
OnTemplate(key, m, e) ==
  [m EXCEPT !.out = @ \o emit_relation(key, e.target, e.section, e.category,
                                       e.distance, e.reverse)]

(* A redirect ends the page: nothing is said of it but its name, apart     *)
(* from relations already emitted.                                         *)
OnRedirect(key, m, e) ==
  [m EXCEPT !.redirected = TRUE, !.out = Append(@, <<e.target, Alias(key, "r", 1)>>)]

OnElement(key, m, e) ==
  CASE m.redirected -> m
    [] e.kind = "text" -> OnText(key, m, e)
    [] e.kind = "link" -> OnLink(m, e)
    [] e.kind = "redirect" -> OnRedirect(key, m, e)
    [] e.kind = "template" -> OnTemplate(key, m, e)
    [] OTHER -> m

Article(key, page) ==
  LET m == FoldLeft(LAMBDA x, e : OnElement(key, x, e), Unread, page)
  IN  IF m.described /\ ~m.redirected
      THEN m.out \o <<<<key, About>>, <<key, Outlinks(m.links)>>>>
      ELSE m.out

page_is_ambiguous(page) == Disambig \in ToSet(page)

(* What map emits: pairs of a title and a fact, in order.                  *)
MapPage(key, page) ==
  CASE key \in Meta -> <<>>
    [] key \notin Meta /\ page_is_ambiguous(page) -> handle_ambiguous_page(key, page)
    [] OTHER -> Article(key, page)
=============================================================================
