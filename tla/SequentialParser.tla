-------------------------- MODULE SequentialParser --------------------------
(***************************************************************************)
(* The parser of c/wikipedia/wikipedia_sequential_parser.cpp.  A scanner   *)
(* cuts the text of an article into tokens; wiki_seq_parse hands each to   *)
(* the handler of its type, and a handler does what the context on top of  *)
(* the stack asks for: it opens a context, closes one or several, or       *)
(* appends a section to a list.  A context points to the section it is     *)
(* building and to the list that sections found inside it go to, which may *)
(* be a list of its own section or the list of the context below.          *)
(*                                                                         *)
(* The text is the sequence of the tokens that the scanner cuts it into,   *)
(* and a pointer into it the index of one: tok->start is pos, tok->stop is *)
(* pos + 1 and NULL is 0.                                                  *)
(* Lexemes that are no token of the scanner, and tokens without a handler  *)
(* that does anything, are words.  Sections are numbered as they are       *)
(* allocated; section 1 is the tree itself.                                *)
(***************************************************************************)
EXTENDS WikiPreprocessor, FiniteSets, TLC

CONSTANT Articles          (* the texts that are parsed, with their comments *)

VARIABLES
  content,   (* stripped_content                                           *)
  pos,       (* the token                                                  *)
  half,      (* the first of the two ends in a '}}}}' has been handled     *)
  stack,     (* ctx_stack: the types of the contexts, the top at the end   *)
  frames,    (* ctx_stack: the other fields of the contexts                *)
  heap,      (* the sections: their fields, and the lists they own         *)
  freed,     (* the sections that have been given to free()                *)
  redirect,  (* meta->redirect                                             *)
  error,     (* tree->error_str                                            *)
  phase      (* "scan", "cleanup", "parsed", "freed" or "crashed"          *)

vars == <<content, pos, half, stack, frames, heap, freed, redirect, error, phase>>

None == 0

Raw == {"NOWIKI", "PRE", "MATH", "SOURCE", "GALLERY"}           (* ignorable *)
Context == Raw \cup
  {"ROOT", "IMAGE", "INTERNAL_LINK", "INTERNAL_LINK_ANCHOR_TEXT", "EXTERNAL_LINK",
   "EXTERNAL_LINK_VALUE", "TEMPLATE", "PARAMETER", "VALUE", "REF", "HEADING",
   "CATEGORY_LINK", "LANGUAGE_LINK", "TABLE", "TABLE_CAPTION", "TABLE_ROW", "TABLE_CELL"}

-----------------------------------------------------------------------------
(* Strings.  A string that would be empty is NULL in the code, <<>> here.  *)

Blank == {" ", "nl"}
Str(begin, end) == SubSeq(content, begin, end - 1)

StripLeft(s) ==                                                 (* mutant *)
  LET inner == {i \in DOMAIN s : s[i] \notin Blank}
  IN  IF inner = {} THEN <<>>
      ELSE SubSeq(s, CHOOSE i \in inner : \A j \in inner : i <= j, Len(s))
Strip(s) ==
  LET inner == {i \in DOMAIN s : s[i] \notin Blank}
  IN  IF inner = {} THEN <<>>
      ELSE SubSeq(s, CHOOSE i \in inner : \A j \in inner : i <= j,
                     CHOOSE i \in inner : \A j \in inner : i >= j)

TrimsWhitespace(type) == type \in {"PARAMETER", "VALUE", "HEADING"}
IsTextContainer(type) ==
  type \in {"ROOT", "PARAMETER", "VALUE", "REF", "EXTERNAL_LINK_VALUE", "HEADING"}

-----------------------------------------------------------------------------
(* Sections.  text is the one string most of them have: the text of a TEXT *)
(* or PRE, the target of a link, the title of a template, the key of a     *)
(* pair, the style of a table.  alias is the alias of a link, the language *)
(* of a language link, the header flag of a cell.  The list of a section   *)
(* is its sections, its kv_pairs, rows or cells.  held is the caption of a *)
(* table, the link of a redirect.  A link has no type while it is open.    *)

Section(type) == [type |-> type, text |-> <<>>, alias |-> <<>>, held |-> None]
Fresh(h) == Len(h.node) + 1
Build(h, type) == [node |-> Append(h.node, Section(type)), list |-> Append(h.list, <<>>)]
SetText(h, sec, text) == [h EXCEPT !.node[sec].text = text]
AppendSection(h, list, sec) == [h EXCEPT !.list[list] = Append(@, sec)]

AppendText(h, type, frame, begin, end) ==
  LET text == IF TrimsWhitespace(type) THEN Strip(Str(begin, end)) ELSE Str(begin, end)
  IN  IF text = <<>> THEN h
      ELSE AppendSection(SetText(Build(h, "text"), Fresh(h), text), frame.list, Fresh(h))

(* What free_section gives to free(): a section with all it owns.  Types   *)
(* without a case in its switch, a link's among them while it is open, are *)
(* left alone.                                                             *)
Owned(h, sec) ==
  LET owned[s \in DOMAIN h.node] ==
        {s} \cup (UNION {owned[h.list[s][i]] : i \in DOMAIN h.list[s]})
            \cup IF h.node[s].held = None THEN {} ELSE owned[h.node[s].held]
  IN  owned[sec]
HasFreeCaseAll(type) == type # ""                               (* mutant *)
HasFreeCase(type) == type \notin {"", "key_value", "table_caption", "row", "cell"}
FreeTableRow(h, row) == Owned(h, row)
FreeSection(h, sec) == IF sec # None /\ HasFreeCase(h.node[sec].type) THEN Owned(h, sec) ELSE {}

-----------------------------------------------------------------------------
(* Contexts.  A change of heap, stack and frames that is under way is a     *)
(* record of the three, so that the calls of a handler can be composed.    *)

Depth == Len(stack)
Top == stack[Depth]
F == frames[Depth]
Now == [heap |-> heap, stack |-> stack, frames |-> frames]
Become(m) == heap' = m.heap /\ stack' = m.stack /\ frames' = m.frames

TopOf(m) == m.frames[Len(m.frames)]
SetTop(m, field, value) == [m EXCEPT !.frames[Len(m.frames)][field] = value]
Resume(m) == SetTop(m, "start", pos + 1)        (* parent->text_start = tok->stop *)
Pop(m, n) ==
  [m EXCEPT !.stack = SubSeq(@, 1, Len(@) - n), !.frames = SubSeq(@, 1, Len(@) - n)]
Push(m, type, sec, list) ==
  [m EXCEPT !.stack = Append(@, type),
            !.frames = Append(@, [section |-> sec, list |-> list, start |-> pos + 1,
                                  stop |-> None, tok |-> pos, params |-> 0,
                                  newline |-> FALSE])]

(* append_text_section(meta, text_start, tok->start), and append_section.  *)
TextSoFar(m) ==
  [m EXCEPT !.heap = AppendText(@, m.stack[Len(m.stack)], TopOf(m), TopOf(m).start, pos)]
AppendTo(m, sec) == [m EXCEPT !.heap = AppendSection(@, TopOf(m).list, sec)]
Flush(m) == TextSoFar(SetTop(m, "stop", pos))
FlushText(m) == IF IsTextContainer(Top) THEN Flush(m) ELSE m

(* push_ctx_stack with a new section; those of HasOwnList collect what is  *)
(* found inside them, the others leave it to the list of their parent.     *)
HasOwnList(type) == type \in {"REF", "HEADING", "PARAMETER", "TABLE_CAPTION", "TABLE_CELL"}
Open(m, type, section) ==
  LET sec == Fresh(m.heap)
  IN  Push([m EXCEPT !.heap = Build(@, section)], type, sec,
           IF HasOwnList(type) THEN sec ELSE TopOf(m).list)

(* The section of the context on top is finished: its text is set, its     *)
(* context popped, and it is appended to the list of the context below.    *)
WithText(m, text) == [m EXCEPT !.heap = SetText(@, TopOf(m).section, text)]
Finished(m) == Resume(AppendTo(Pop(m, 1), TopOf(m).section))

-----------------------------------------------------------------------------
(* The loop of wiki_seq_parse.                                             *)

Tok == IF pos > Len(content) THEN "EOF" ELSE content[pos]
TemplateEnd == {"}}", "|}}", "}}}}"}
HeadingMark == {"==", "===", "h4", "h5"}
FormattingMark == {"''", "'''", "'''''"}
Begins == {"<nowiki>", "<pre>", "<math>", "<source>", "<gallery>"}
Ends == ("</nowiki>" :> "NOWIKI") @@ ("</pre>" :> "PRE") @@ ("</math>" :> "MATH")
        @@ ("</source>" :> "SOURCE") @@ ("</gallery>" :> "GALLERY")

(* The switches of the dispatchers: the contexts in which a token counts.  *)
Anywhere == Context \ Raw
LinkEndIn == {"INTERNAL_LINK", "INTERNAL_LINK_ANCHOR_TEXT", "IMAGE", "PARAMETER", "VALUE",
              "CATEGORY_LINK", "LANGUAGE_LINK"}
TemplateBeginIn == {"ROOT", "PARAMETER", "VALUE", "REF"}
TemplateEndIn == {"PARAMETER", "VALUE", "TEMPLATE"}
SeparatorIn == {"INTERNAL_LINK", "VALUE", "TEMPLATE", "PARAMETER", "IMAGE",
                "TABLE_CAPTION", "TABLE_ROW", "TABLE_CELL"}
EqualsIn == {"PARAMETER"}
ExternalLinkEndIn == {"EXTERNAL_LINK", "EXTERNAL_LINK_VALUE"}
SpaceIn == {"EXTERNAL_LINK"}
NewlineIn == {"INTERNAL_LINK", "TABLE", "TABLE_ROW"}
TableEndIn == {"TABLE", "TABLE_ROW", "TABLE_CELL"}
TableRowBeginIn == {"TABLE_CAPTION", "TABLE", "TABLE_CELL"}

TakenAnywhere == {"[[", "[[Image:", "[http://", "[[Category:", "[[de:", "<ref>", "<ref/>", "{|",
                  "#redirect"} \cup HeadingMark \cup FormattingMark \cup Begins
HandledIn(tok) ==
  CASE tok \in TakenAnywhere -> Anywhere
    [] tok = "]]" -> LinkEndIn
    [] tok = "{{" -> TemplateBeginIn
    [] tok \in TemplateEnd -> TemplateEndIn
    [] tok = "|" -> SeparatorIn
    [] tok = "=" -> EqualsIn
    [] tok = "]" -> ExternalLinkEndIn
    [] tok = " " -> SpaceIn
    [] tok = "nl" -> NewlineIn
    [] tok = "</ref>" -> {"REF"}
    [] tok = "|+" -> {"TABLE"}
    [] tok = "!" -> {"TABLE_ROW"}
    [] tok = "|-" -> TableRowBeginIn
    [] tok = "|}" -> TableEndIn
    [] OTHER -> {}

(* A '}}}}' is two ends: its handler runs twice.                           *)
Advance ==
  /\ half' = (Tok = "}}}}" /\ ~half /\ Top \in HandledIn(Tok))
  /\ pos' = IF half' THEN pos ELSE pos + 1
  /\ UNCHANGED content
Scanning == phase = "scan" /\ Tok # "EOF"
On(tok) == Scanning /\ Tok \in tok /\ Top \in HandledIn(Tok) /\ Advance
rest == <<freed, redirect, error, phase>>
SetError(txt) == error' = txt /\ phase' = "cleanup"

Skip ==
  /\ Scanning /\ Top \notin Raw /\ Top \notin HandledIn(Tok)
  /\ Advance
  /\ UNCHANGED <<stack, frames, heap, rest>>

Redirect ==
  /\ On({"#redirect"})
  /\ redirect' = TRUE
  /\ UNCHANGED <<stack, frames, heap, freed, error, phase>>

-----------------------------------------------------------------------------
(* Internal links.                                                         *)

(* The space that ends the address of an external link, or stands for it.  *)
GenerateHref == IF pos > F.start THEN <<"http://">> \o Str(F.start, pos) ELSE <<>>
AddressEnds == Push(WithText(Now, GenerateHref), "EXTERNAL_LINK_VALUE", None, F.section)

(* A link that is open, n contexts down, becomes the text it was.          *)
LinkFrame(n) == frames[Depth - n + 1]
BackToText(n) ==
  Pop([Now EXCEPT !.heap =
         AppendText(@, "INTERNAL_LINK", LinkFrame(n), LinkFrame(n).tok, pos)], n)

LinkBegin ==
  /\ On({"[["})
  /\ Top \notin {"INTERNAL_LINK", "INTERNAL_LINK_ANCHOR_TEXT"}
  /\ LET parent == IF Top = "EXTERNAL_LINK" THEN AddressEnds
                   ELSE IF redirect THEN Now ELSE FlushText(Now)
     IN  Become(Open(parent, "INTERNAL_LINK", ""))
  /\ UNCHANGED rest

LinkBeginInLink ==
  /\ On({"[["})
  /\ Top \in {"INTERNAL_LINK", "INTERNAL_LINK_ANCHOR_TEXT"}
  /\ LET n == IF Top = "INTERNAL_LINK" THEN 1 ELSE 2
     IN  /\ Become(Open(BackToText(n), "INTERNAL_LINK", ""))
         /\ freed' = freed \cup {LinkFrame(n).section}
  /\ UNCHANGED <<redirect, error, phase>>

NewlineInInternalLink ==
  /\ On({"nl"}) /\ Top = "INTERNAL_LINK"
  /\ Become(SetTop(BackToText(1), "start", pos))
  /\ freed' = freed \cup {F.section}
  /\ UNCHANGED <<redirect, error, phase>>

SeparatorInInternalLink ==
  /\ On({"|"}) /\ Top = "INTERNAL_LINK"
  /\ Become(Push(WithText(Now, Str(F.tok + 1, pos)), "INTERNAL_LINK_ANCHOR_TEXT", None, F.list))
  /\ UNCHANGED rest

(* append_link_section and append_redirect_section.                        *)
AppendLink(m, sec) == AppendTo([m EXCEPT !.heap.node[sec].type = "internal_link"], sec)
AppendRedirect(m, sec) ==
  LET red == Fresh(m.heap)
  IN  AppendTo([m EXCEPT !.heap = [Build(@, "redirect") EXCEPT !.node[red].held = sec]], red)

LinkEndInInternalLink ==
  /\ On({"]]"}) /\ Top = "INTERNAL_LINK"
  /\ LET link == WithText(Now, Str(F.tok + 1, pos))
     IN  Become(Resume(Pop(IF redirect THEN AppendRedirect(link, F.section)
                           ELSE AppendLink(link, F.section), 1)))
  /\ UNCHANGED rest

LinkEndInAnchorText ==
  /\ On({"]]"}) /\ Top = "INTERNAL_LINK_ANCHOR_TEXT"
  /\ LET link == LinkFrame(2).section
         anchor == Str(F.start, pos)
         alias == IF anchor # <<>> THEN anchor ELSE heap.node[link].text
     IN  Become(Resume(Pop(AppendLink([Now EXCEPT !.heap.node[link].alias = alias], link), 2)))
  /\ UNCHANGED rest

-----------------------------------------------------------------------------
(* Category and language links.                                            *)

OpenSpecial(type, section) ==
  Open(IF redirect THEN Now ELSE FlushText(Now), type, section)
CloseSpecial == Finished(WithText(Now, Str(F.start, pos)))

CategoryLinkBegin ==
  /\ On({"[[Category:"})
  /\ Become(OpenSpecial("CATEGORY_LINK", "category"))
  /\ UNCHANGED rest

LinkEndInCategory ==
  /\ On({"]]"}) /\ Top = "CATEGORY_LINK"
  /\ Become(CloseSpecial)
  /\ UNCHANGED rest

RetrieveLanguage == <<"de">>
LanguageLinkBegin ==
  /\ On({"[[de:"})
  /\ LET m == OpenSpecial("LANGUAGE_LINK", "language_link")
     IN  Become([m EXCEPT !.heap.node[TopOf(m).section].alias = RetrieveLanguage])
  /\ UNCHANGED rest

LinkEndInLanguageLink ==
  /\ On({"]]"}) /\ Top = "LANGUAGE_LINK"
  /\ Become(CloseSpecial)
  /\ UNCHANGED rest

-----------------------------------------------------------------------------
(* Templates, images and their parameters.                                 *)

ImageBegin ==
  /\ On({"[[Image:"})
  /\ Become(Open(IF redirect THEN Now ELSE Flush(Now), "IMAGE", "image"))
  /\ UNCHANGED rest

TemplateBegin ==
  /\ On({"{{"})
  /\ Become(Open(Flush(Now), "TEMPLATE", "template"))
  /\ UNCHANGED rest

(* A key_value is built, put into the list of its template or image, and   *)
(* the context of its parameter pushed.                                    *)
NextParameter(m) ==
  LET parent == TopOf(m).section
      kv == Fresh(m.heap)
  IN  Push([m EXCEPT !.heap = AppendSection(Build(@, "key_value"), parent, kv)],
           "PARAMETER", kv, kv)

SeparatorInTemplate ==
  /\ On({"|"}) /\ Top = "TEMPLATE"
  /\ Become(NextParameter(WithText(SetTop(Now, "stop", pos), Strip(Str(F.start, pos)))))
  /\ UNCHANGED rest

SeparatorInImage ==
  /\ On({"|"}) /\ Top = "IMAGE"
  /\ Become(NextParameter(WithText(SetTop(Now, "stop", pos), Str(F.start, pos))))
  /\ UNCHANGED rest

EqualsInParameter ==
  /\ On({"="}) /\ Top = "PARAMETER"
  /\ Become(Push(WithText(SetTop(Now, "stop", pos), Strip(Str(F.start, pos))),
                 "VALUE", None, F.section))
  /\ UNCHANGED rest

(* The parameter on top is closed: an unnamed one gets the next number of  *)
(* its template, a value takes its parameter along.                        *)
CountParameter(m) == SetTop(m, "params", TopOf(m).params + 1)
CloseParameter ==
  LET m == CountParameter(Pop(TextSoFar(Now), 1))
  IN  [m EXCEPT !.heap = SetText(@, F.section, <<ToString(TopOf(m).params)>>)]
CloseValueOnly == Pop(TextSoFar(Now), 1)                        (* mutant *)
CloseValue == Pop(TextSoFar(Now), 2)

SeparatorInParameter ==
  /\ On({"|"}) /\ Top = "PARAMETER"
  /\ Become(NextParameter(CloseParameter))
  /\ UNCHANGED rest

SeparatorInValue ==
  /\ On({"|"}) /\ Top = "VALUE"
  /\ Become(NextParameter(CloseValue))
  /\ UNCHANGED rest

TemplateEndInTemplate ==
  /\ On(TemplateEnd) /\ Top = "TEMPLATE"
  /\ Become(Finished(WithText(Now, Str(F.tok + 1, pos))))
  /\ UNCHANGED rest

TemplateEndInParameter ==
  /\ On(TemplateEnd) /\ Top = "PARAMETER"
  /\ Become(Finished(CloseParameter))
  /\ UNCHANGED rest

TemplateEndInValue ==
  /\ On(TemplateEnd) /\ Top = "VALUE"
  /\ stack[Depth - 2] = "TEMPLATE"
  /\ Become(Finished(CloseValue))
  /\ UNCHANGED rest

TemplateEndInImageValue ==
  /\ On(TemplateEnd) /\ Top = "VALUE"
  /\ stack[Depth - 2] # "TEMPLATE"
  /\ Become(CloseValue)
  /\ SetError("Parent is not a TEMPLATE inside of parse_template_end_in_value")
  /\ UNCHANGED <<freed, redirect>>

LinkEndInImage ==
  /\ On({"]]"}) /\ Top = "IMAGE"
  /\ Become(Finished(IF F.stop = None THEN WithText(Now, Str(F.start, pos)) ELSE Now))
  /\ UNCHANGED rest

LinkEndInParameter ==
  /\ On({"]]"}) /\ Top = "PARAMETER"
  /\ Become(Finished(CloseParameter))
  /\ UNCHANGED rest

LinkEndInValue ==
  /\ On({"]]"}) /\ Top = "VALUE"
  /\ Become(Finished(CloseValue))
  /\ UNCHANGED rest

-----------------------------------------------------------------------------
(* Text that is not parsed, references, external links and headings.       *)

OpenRaw(type, section) == Become(Open(Flush(Now), type, section)) /\ UNCHANGED rest

NowikiBegin ==
  /\ On({"<nowiki>"})
  /\ Become(Open(IF Top = "EXTERNAL_LINK" THEN AddressEnds ELSE FlushText(Now),
                 "NOWIKI", "text"))
  /\ UNCHANGED rest
PreBegin == On({"<pre>"}) /\ OpenRaw("PRE", "pre")
MathBegin == On({"<math>"}) /\ OpenRaw("MATH", "math")
SourceBegin == On({"<source>"}) /\ OpenRaw("SOURCE", "source")
GalleryBegin == On({"<gallery>"}) /\ OpenRaw("GALLERY", "gallery")

OnRaw(tok, type) == Scanning /\ Tok = tok /\ Top = type /\ Advance
CloseRaw == Become(Finished(WithText(Now, Str(F.start, pos)))) /\ UNCHANGED rest

NowikiEnd ==
  /\ OnRaw("</nowiki>", "NOWIKI")
  /\ IF Str(F.start, pos) = <<>> THEN Become(Resume(Pop(Now, 1))) /\ UNCHANGED rest
     ELSE CloseRaw
PreEnd == OnRaw("</pre>", "PRE") /\ CloseRaw
MathEnd == OnRaw("</math>", "MATH") /\ CloseRaw
SourceEnd == OnRaw("</source>", "SOURCE") /\ CloseRaw
GalleryEnd == OnRaw("</gallery>", "GALLERY") /\ CloseRaw

SourceEndElsewhere ==
  /\ \E type \in Raw \ {"SOURCE"} : OnRaw("</source>", type)
  /\ SetError("NULL context inside of parse_source_end")
  /\ UNCHANGED <<stack, frames, heap, freed, redirect>>

RawSkip ==
  /\ Scanning /\ Top \in Raw
  /\ Tok \in DOMAIN Ends => Ends[Tok] # Top /\ Tok # "</source>"
  /\ Advance
  /\ UNCHANGED <<stack, frames, heap, rest>>

Ref ==
  /\ On({"<ref/>"})
  /\ LET m == Flush(Now)
     IN  Become(Resume(AppendTo([m EXCEPT !.heap = Build(@, "ref")], Fresh(m.heap))))
  /\ UNCHANGED rest

RefBegin ==
  /\ On({"<ref>"})
  /\ Become(Open(Flush(Now), "REF", "ref"))
  /\ UNCHANGED rest

(* The text goes up to text_stop, which is NULL when nothing in the ref    *)
(* has set it: the length, cut to an int, is anything.                     *)
RefEnd ==
  /\ On({"</ref>"})
  /\ \/ \E stop \in {F.stop} \cup IF F.stop = None THEN {Len(content) + 1} ELSE {} :
          Become(Finished([Now EXCEPT !.heap = AppendText(@, "REF", F, F.start, stop)]))
        /\ phase' = phase
     \/ F.stop = None /\ phase' = "crashed" /\ UNCHANGED <<stack, frames, heap>>
  /\ UNCHANGED <<freed, redirect, error>>

ExternalLinkBegin ==
  /\ On({"[http://"})
  /\ Become(Open(Flush(Now), "EXTERNAL_LINK", "external_link"))
  /\ UNCHANGED rest

SpaceInExternalLink ==
  /\ On({" "})
  /\ Become(AddressEnds)
  /\ UNCHANGED rest

ExternalLinkEndInExternalLink ==
  /\ On({"]"}) /\ Top = "EXTERNAL_LINK"
  /\ Become(Finished(WithText(Now, GenerateHref)))
  /\ UNCHANGED rest

ExternalLinkEndInValue ==
  /\ On({"]"}) /\ Top = "EXTERNAL_LINK_VALUE"
  /\ Become(Finished(Pop(TextSoFar(Now), 1)))
  /\ UNCHANGED rest

Heading ==
  /\ On(HeadingMark)
  /\ Become(IF Top = "HEADING" THEN Finished(TextSoFar(Now))
            ELSE Open(TextSoFar(Now), "HEADING", "heading"))
  /\ UNCHANGED rest

Formatting ==
  /\ On(FormattingMark)
  /\ Become(Resume(IF IsTextContainer(Top) THEN TextSoFar(Now) ELSE Now))
  /\ UNCHANGED rest

-----------------------------------------------------------------------------
(* Tables.  cur_table and cur_row of a cell are the sections of the two    *)
(* contexts below it.                                                      *)

TableBegin ==
  /\ On({"{|"})
  /\ Become(Open(Flush(Now), "TABLE", "table"))
  /\ UNCHANGED rest

(* The style of a table is what stands behind '{|' on its line.            *)
FirstLine ==
  IF F.newline THEN Now
  ELSE SetTop(WithText(Now, Strip(Str(F.start, pos))), "newline", TRUE)

NewlineInTable ==
  /\ On({"nl"}) /\ Top = "TABLE"
  /\ Become(FirstLine)
  /\ UNCHANGED rest

NewlineInTableRow ==
  /\ On({"nl"}) /\ Top = "TABLE_ROW"
  /\ Become(SetTop(Now, "newline", TRUE))
  /\ UNCHANGED rest

TableCaptionBegin ==
  /\ On({"|+"})
  /\ Become(Open(Now, "TABLE_CAPTION", "table_caption"))
  /\ UNCHANGED rest

SeparatorInTableCaption ==
  /\ On({"|"}) /\ Top = "TABLE_CAPTION"
  /\ Become(Resume(WithText(Now, Str(F.start, pos))))
  /\ UNCHANGED rest

TableRowBeginInTable ==
  /\ On({"|-"}) /\ Top = "TABLE"
  /\ Become(Open(FirstLine, "TABLE_ROW", "row"))
  /\ UNCHANGED rest

TableRowBeginInCaption ==
  /\ On({"|-"}) /\ Top = "TABLE_CAPTION"
  /\ LET m == Pop(TextSoFar(Now), 1)
     IN  Become(Open([m EXCEPT !.heap.node[TopOf(m).section].held = F.section],
                     "TABLE_ROW", "row"))
  /\ UNCHANGED rest

(* The section on top goes into the one below: a cell into its row, a row  *)
(* into its table.                                                         *)
CloseIntoBelow(m) ==
  LET below == Pop(m, 1)
  IN  [below EXCEPT !.heap = AppendSection(@, TopOf(below).section, TopOf(m).section)]
CloseCell == CloseIntoBelow(TextSoFar(Now))
CloseCellAndRow == CloseIntoBelow(CloseCell)

TableRowBeginInTableCell ==
  /\ On({"|-"}) /\ Top = "TABLE_CELL"
  /\ Become(Open(CloseCellAndRow, "TABLE_ROW", "row"))
  /\ UNCHANGED rest

(* has_only_leading_whitespace_in_ctx: the token is the first of its line. *)
IsLeading ==
  \E i \in F.start .. (pos - 1) :
    content[i] = "nl" /\ \A j \in i .. (pos - 1) : content[j] \in Blank

(* A cell is the first thing in its row, and the style what stands before. *)
FirstCell == Open(WithText(Now, Strip(Str(F.start, pos))), "TABLE_CELL", "cell")

SeparatorInTableRow ==
  /\ On({"|"}) /\ Top = "TABLE_ROW"
  /\ Become(IF IsLeading THEN FirstCell ELSE Now)
  /\ UNCHANGED rest

Exclamation ==
  /\ On({"!"})
  /\ Become(IF IsLeading
            THEN [FirstCell EXCEPT !.heap.node[TopOf(FirstCell).section].alias = <<"header">>]
            ELSE Now)
  /\ UNCHANGED rest

SeparatorInTableCell ==
  /\ On({"|"}) /\ Top = "TABLE_CELL"
  /\ Become(IF IsLeading THEN Open(CloseCell, "TABLE_CELL", "cell")
            ELSE Resume(WithText(Now, Strip(Str(F.start, pos)))))
  /\ UNCHANGED rest

TableEndInTable ==
  /\ On({"|}"}) /\ Top = "TABLE"
  /\ Become(Finished(Now))
  /\ UNCHANGED rest

TableEndInTableRow ==
  /\ On({"|}"}) /\ Top = "TABLE_ROW"
  /\ Become(Finished(Pop(Now, 1)))
  /\ freed' = freed \cup FreeTableRow(heap, F.section)
  /\ UNCHANGED <<redirect, error, phase>>

TableEndInTableCell ==
  /\ On({"|}"}) /\ Top = "TABLE_CELL"
  /\ Become(Finished(CloseCellAndRow))
  /\ UNCHANGED rest

-----------------------------------------------------------------------------
(* The end: the rest is text, then the end counts as a newline.            *)

EndOfFile ==
  /\ phase = "scan" /\ Tok = "EOF"
  /\ LET m == Flush(Now)
     IN  CASE Top = "INTERNAL_LINK" ->
                /\ Become(Pop([m EXCEPT !.heap = AppendText(@, Top, F, F.tok, pos)], 1))
                /\ freed' = freed \cup {F.section}
           [] Top = "TABLE" /\ ~F.newline ->
                Become(WithText(m, Strip(Str(F.start, pos)))) /\ freed' = freed
           [] OTHER -> Become(m) /\ freed' = freed
  /\ phase' = "cleanup"
  /\ UNCHANGED <<content, pos, half, redirect, error>>

(* cleanup_parser frees the sections of the contexts that are still open,  *)
(* the one on top first.                                                   *)
CleanupParser ==
  /\ phase = "cleanup"
  /\ IF Depth > 0
     THEN /\ Become(Pop(Now, 1))
          /\ freed' = freed \cup FreeSection(heap, F.section)
          /\ phase' = phase
     ELSE /\ phase' = "parsed"
          /\ UNCHANGED <<stack, frames, heap, freed>>
  /\ UNCHANGED <<content, pos, half, redirect, error>>

(* free_wiki_seq_tree, called when the tree has been written out.          *)
FreeTree ==
  /\ phase = "parsed"
  /\ phase' = "freed"
  /\ freed' = freed \cup UNION {FreeSection(heap, heap.list[1][i]) : i \in DOMAIN heap.list[1]}
  /\ UNCHANGED <<content, pos, half, stack, frames, heap, redirect, error>>

(* The scanner: its tokens that are marks, and the two that end in blanks.  *)
Marks == DOMAIN Spelling \ {"''''", "-->", "{{SITENAME}}", "{{SERVER}}", "{{PAGENAME}}"}
Tokenize(text) == Cut(text, Marks, {"[[Category:", "[[de:"})
Stripped(text) == Tokenize(Preprocess(text))

Init ==
  /\ content \in {Stripped(text) : text \in Articles}
  /\ pos = 1 /\ half = FALSE
  /\ stack = <<"ROOT">>
  /\ frames = <<[section |-> None, list |-> 1, start |-> 1, stop |-> 1, tok |-> None,
                 params |-> 0, newline |-> FALSE]>>
  /\ heap = [node |-> <<Section("tree")>>, list |-> <<<<>>>>]
  /\ freed = {} /\ redirect = FALSE
  /\ error = IF content = <<>> THEN "Empty content after preprocessing" ELSE ""
  /\ phase = IF content = <<>> THEN "parsed" ELSE "scan"

Handler ==
  \/ Skip \/ Redirect
  \/ LinkBegin \/ LinkBeginInLink \/ NewlineInInternalLink
  \/ SeparatorInInternalLink \/ LinkEndInInternalLink \/ LinkEndInAnchorText
  \/ CategoryLinkBegin \/ LinkEndInCategory \/ LanguageLinkBegin \/ LinkEndInLanguageLink
  \/ ImageBegin \/ TemplateBegin \/ SeparatorInTemplate \/ SeparatorInImage
  \/ EqualsInParameter \/ SeparatorInParameter \/ SeparatorInValue
  \/ TemplateEndInTemplate \/ TemplateEndInParameter \/ TemplateEndInValue
  \/ TemplateEndInImageValue \/ LinkEndInImage \/ LinkEndInParameter \/ LinkEndInValue
  \/ NowikiBegin \/ PreBegin \/ MathBegin \/ SourceBegin \/ GalleryBegin
  \/ NowikiEnd \/ PreEnd \/ MathEnd \/ SourceEnd \/ GalleryEnd
  \/ SourceEndElsewhere \/ RawSkip
  \/ Ref \/ RefBegin \/ RefEnd
  \/ ExternalLinkBegin \/ SpaceInExternalLink
  \/ ExternalLinkEndInExternalLink \/ ExternalLinkEndInValue
  \/ Heading \/ Formatting
  \/ TableBegin \/ NewlineInTable \/ NewlineInTableRow
  \/ TableCaptionBegin \/ SeparatorInTableCaption
  \/ TableRowBeginInTable \/ TableRowBeginInCaption \/ TableRowBeginInTableCell
  \/ SeparatorInTableRow \/ Exclamation \/ SeparatorInTableCell
  \/ TableEndInTable \/ TableEndInTableRow \/ TableEndInTableCell

Next == Handler \/ EndOfFile \/ CleanupParser \/ FreeTree
Spec == Init /\ [][Next]_vars

-----------------------------------------------------------------------------
(* Properties.                                                             *)

(* The contexts that may lie directly below a context.                     *)
Under(type) ==
  CASE type = "ROOT" -> {}
    [] type = "VALUE" -> {"PARAMETER"}
    [] type = "PARAMETER" -> {"TEMPLATE", "IMAGE"}
    [] type = "INTERNAL_LINK_ANCHOR_TEXT" -> {"INTERNAL_LINK"}
    [] type = "EXTERNAL_LINK_VALUE" -> {"EXTERNAL_LINK"}
    [] type \in {"TABLE_CAPTION", "TABLE_ROW"} -> {"TABLE"}
    [] type = "TABLE_CELL" -> {"TABLE_ROW"}
    [] type = "TEMPLATE" -> {"ROOT", "PARAMETER", "VALUE", "REF"}
    [] type = "INTERNAL_LINK" ->
         Anywhere \ {"INTERNAL_LINK", "INTERNAL_LINK_ANCHOR_TEXT", "EXTERNAL_LINK"}
    [] type = "NOWIKI" -> Anywhere \ {"EXTERNAL_LINK"}
    [] OTHER -> Anywhere

(* The contexts nest as the handlers believe when they pop two or three of *)
(* them unseen: whatever the article, a value lies on its parameter and    *)
(* that on a template or an image, a cell on a row of a table, and the     *)
(* root is never popped before the end.  So none of the tests for a NULL   *)
(* context can ever fail: the only errors are the two below.               *)
ContextsNest ==
  /\ phase \in {"scan", "crashed"} => Depth > 0
  /\ Depth > 0 => stack[1] = "ROOT"
  /\ Len(frames) = Depth
  /\ \A d \in 2 .. Depth : stack[d - 1] \in Under(stack[d])
  /\ error \in {"", "Empty content after preprocessing",
                "Parent is not a TEMPLATE inside of parse_template_end_in_value",
                "NULL context inside of parse_source_end"}

(* The kinds of sections the lists of a section are declared to hold.      *)
InlineSection == {"text", "internal_link", "redirect", "external_link", "template", "image", "pre",
                  "math", "source", "gallery", "ref", "heading", "category", "language_link", "table"}
Holds(type) ==
  CASE type \in {"template", "image"} -> {"key_value"}
    [] type = "table" -> {"row"}
    [] type = "row" -> {"cell"}
    [] type \in {"tree", "key_value", "external_link", "ref", "heading", "table_caption", "cell"} ->
         InlineSection
    [] OTHER -> {}

(* Every section has one owner: it is in one place of one list, or it is   *)
(* the caption or link that one section holds, or the context that is      *)
(* building it holds it (a key_value is in the list of its template from   *)
(* the start, and is not freed with its context).  What has been freed can *)
(* be reached neither from the tree nor from a context.  So cleanup_parser *)
(* after a broken article and free_wiki_seq_tree free nothing twice.  And  *)
(* a list holds only what it is declared for, though the contexts of a     *)
(* template or a table pass the list of their parent on: whoever reads a   *)
(* list casts its members, and the outputters meet no unknown section.     *)
SectionsOwnedOnce ==
  LET entries == UNION {{<<n, i>> : i \in DOMAIN heap.list[n]} : n \in DOMAIN heap.list}
      listed == {heap.list[e[1]][e[2]] : e \in entries}
      holders == {n \in DOMAIN heap.node : heap.node[n].held # None}
      held == {heap.node[n].held : n \in holders}
      open == {d \in 1 .. Depth : frames[d].section # None}
      own == {frames[d].section : d \in {d \in open : stack[d] # "PARAMETER"}}
      tree == IF phase = "freed" THEN {} ELSE {1}
  IN  /\ \A e \in entries :
           heap.node[heap.list[e[1]][e[2]]].type \in Holds(heap.node[e[1]].type)
      /\ Cardinality(listed) = Cardinality(entries)
      /\ Cardinality(held) = Cardinality(holders)
      /\ listed \cap held = {}
      /\ own \cap (listed \cup held) = {}
      /\ \A sec \in tree \cup {frames[d].section : d \in open} : Owned(heap, sec) \cap freed = {}
=============================================================================
