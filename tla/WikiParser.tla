----------------------------- MODULE WikiParser -----------------------------
(***************************************************************************)
(* c/wikipedia/wiki_parser.cpp: wiki_parse, which finds the links, images  *)
(* and the redirect of an article, and wikitext_to_plaintext, which leaves *)
(* its text with the links in it.  Both read the tokens of one scanner and *)
(* keep a stack of the links, images, templates and ignored regions that   *)
(* are open.                                                               *)
(*                                                                         *)
(* A text is the sequence of the tokens the scanner cuts it into, and a    *)
(* pointer into it the index of one, 0 for NULL.  An entry of the stack    *)
(* has the fields of link_entry_t that are read again; stop stands for     *)
(* data + len.                                                             *)
(***************************************************************************)
EXTENDS Integers, Sequences

CONSTANT Pictures    (* lexemes that end in .jpg, .jpeg, .svg, .gif or .png *)

(* The tokens of a lexeme; of a word there are none.                       *)
Tokens(lexeme) ==
  CASE lexeme = "#redirect" -> <<"REDIRECT">>
    [] lexeme \in {"[[Category:", "[[de:"} -> <<"LINK_BEGIN", "COLON">>
    [] lexeme = "[[" -> <<"LINK_BEGIN">>
    [] lexeme = "[[Image:" -> <<"IMAGE_LINK_BEGIN">>
    [] lexeme = "]]" -> <<"LINK_END">>
    [] lexeme = "{{" -> <<"TEMPLATE_BEGIN">>
    [] lexeme = "}}" -> <<"TEMPLATE_END">>
    [] lexeme \in {"<nowiki>", "<pre>", "<math>", "<ref>", "{|", "{{current"} -> <<"IGNORE_BEGIN">>
    [] lexeme \in {"</nowiki>", "</pre>", "</math>", "</ref>", "|}"} -> <<"IGNORE_END">>
    [] lexeme \in {"<ref/>", "''", "'''", "''''", "'''''", "==", "===", "h4", "h5"} ->
         <<"IGNORABLE">>
    [] lexeme = "<!--" -> <<"COMMENT_BEGIN">>
    [] lexeme = "-->" -> <<"COMMENT_END">>
    [] lexeme = "|" -> <<"SEPARATOR">>
    [] lexeme \in {":", "[http://"} -> <<"COLON">>
    [] lexeme = "#" -> <<"HASH">>
    [] lexeme = "=" -> <<"EQUALS">>
    [] lexeme = "nl" -> <<"CRLF">>
    [] lexeme = "{{disambig}}" -> <<"DISAMBIGUATION">>
    [] OTHER -> <<>>

(* The marks among the tokens of the scanner.                              *)
Scanner == INSTANCE WikiPreprocessor
Marks == {"]]", "{{", "}}", "{|", "|}", "-->"} \cup {"''", "'''", "''''", "'''''"}
         \cup {"==", "===", "h4", "h5"}
Tokenize(text) == Scanner!Cut(text, Marks, {})

(* sanitize_title: blanks at the ends are cut off, line ends inside become *)
(* blanks, and a title of nothing but blanks is NULL, <<>> here.           *)
IsBlank(lexeme) == lexeme \in {" ", "nl"}
Sanitize(text, begin, stop) ==
  LET inner == {i \in begin .. stop - 1 : ~IsBlank(text[i])}
      first == CHOOSE i \in inner : \A j \in inner : i <= j
      last == CHOOSE i \in inner : \A j \in inner : i >= j
      Cleaned(lexeme) == IF lexeme = "nl" THEN " " ELSE lexeme
  IN  IF inner = {} THEN <<>>
      ELSE [n \in 1 .. last - first + 1 |-> Cleaned(text[first + n - 1])]

(* image_match: behind blanks, a name up to the first extension of a       *)
(* picture, on one line and not begun by a bracket.                        *)
Opening == {"[[", "[[Image:", "[[Category:", "[[de:", "[http://", "{{", "{|", "{{disambig}}"}
ImageMatch(text, begin, stop) ==
  LET inner == {i \in begin .. stop - 1 : ~IsBlank(text[i])}
      first == CHOOSE i \in inner : \A j \in inner : i <= j
      found == {i \in inner : /\ text[i] \in Pictures
                              /\ \A j \in first .. i : text[j] # "nl"}
  IN  IF inner = {} \/ found = {} THEN <<>>
      ELSE IF text[first] \in Opening THEN <<>>
      ELSE SubSeq(text, first, CHOOSE i \in found : \A j \in found : i <= j)

Entry(type, at) ==
  [type |-> type, data |-> at + 1, stop |-> at + 1, key |-> FALSE, value |-> 0,
   alias |-> 0, done |-> FALSE, invalid |-> FALSE]

-----------------------------------------------------------------------------
(* The stack: its top is its last entry.                                   *)

Open(m) == m.stack # <<>>
Top(m) == m.stack[Len(m.stack)]
Push(m, type, at) == [m EXCEPT !.stack = Append(@, Entry(type, at))]
Pop(m) == [m EXCEPT !.stack = SubSeq(@, 1, Len(@) - 1)]
SetTop(m, field, value) ==
  IF Open(m) THEN [m EXCEPT !.stack[Len(m.stack)][field] = value] ELSE m

IgnoreBegin(m, at) == [Push(m, "IGNORE", at) EXCEPT !.ignores = @ + 1]

(* The end of a region or of a template closes what is open, whatever it   *)
(* is, and a region is counted off.                                        *)
CloseAny(m) ==
  IF ~Open(m) THEN m
  ELSE [Pop(m) EXCEPT !.ignores = IF Top(m).type = "IGNORE" THEN @ - 1 ELSE @]

(* Does the link on top end here?                                          *)
EndOfTarget(m, at) ==
  IF Open(m) /\ ~Top(m).done THEN SetTop(SetTop(m, "stop", at), "done", TRUE) ELSE m

(* A template inside the target of a link makes the link bogus.            *)
TemplateBegin(m, at) ==
  Push(IF Open(m) /\ ~Top(m).done THEN SetTop(m, "invalid", TRUE) ELSE m, "TEMPLATE", at)
Equals(m, at) ==
  IF Open(m) /\ Top(m).type = "TEMPLATE" THEN SetTop(m, "value", at + 1) ELSE m
Hash(m, at) == EndOfTarget(m, at)
Crlf(m, at) ==
  Hash(IF Open(m) /\ Top(m).type = "INTERNAL" /\ ~Top(m).done
       THEN SetTop(m, "invalid", TRUE) ELSE m, at)

TargetStop(entry, at) == IF entry.done THEN entry.stop ELSE at

-----------------------------------------------------------------------------
(* wiki_parse                                                              *)

Tree == [redirect |-> <<>>, ambiguous |-> FALSE, outlinks |-> <<>>, images |-> <<>>]
Unread == [stack |-> <<>>, ignores |-> 0, comments |-> 0, commentStart |-> 0,
           redirect |-> FALSE, over |-> FALSE, tree |-> Tree]

AddImage(m, image) ==
  IF image = <<>> \/ \E n \in DOMAIN m.tree.images : m.tree.images[n] = image THEN m
  ELSE [m EXCEPT !.tree.images = Append(@, image)]

(* A link is listed once, with its count, and is in the text if it is      *)
(* outside of everything at least once.                                    *)
AddOutlinkOnce(m, name) ==                                      (* mutant *)
  IF \E n \in DOMAIN m.tree.outlinks : m.tree.outlinks[n].name = name THEN m
  ELSE [m EXCEPT !.tree.outlinks =
                   Append(@, [name |-> name, count |-> 1, in_text |-> ~Open(m)])]
AddOutlink(m, name) ==
  LET known == {n \in DOMAIN m.tree.outlinks : m.tree.outlinks[n].name = name}
  IN  IF known = {}
      THEN [m EXCEPT !.tree.outlinks =
                       Append(@, [name |-> name, count |-> 1, in_text |-> ~Open(m)])]
      ELSE [m EXCEPT !.tree.outlinks =
                       [n \in DOMAIN @ |->
                          IF n \in known
                          THEN [@[n] EXCEPT !.count = @ + 1, !.in_text = @ \/ ~Open(m)]
                          ELSE @[n]]]

(* A value that a comment or an ignored region interrupts is searched for  *)
(* a picture up to there, and goes on behind it.                           *)
Interrupt(text, m, from, at) ==
  IF Open(m) /\ Top(m).type = "TEMPLATE" /\ Top(m).value # 0 /\ from # 0
  THEN SetTop(AddImage(m, ImageMatch(text, Top(m).value, from)), "value", at + 1)
  ELSE m

CommentBegin(m, at) == [m EXCEPT !.comments = @ + 1, !.commentStart = at]
CommentEnd(text, m, at) ==
  [Interrupt(text, [m EXCEPT !.comments = @ - 1], m.commentStart, at) EXCEPT !.commentStart = 0]
IgnoreEnd(text, m, at) ==
  IF Open(m) THEN Interrupt(text, CloseAny(m), Top(m).data, at) ELSE m

(* The first link that is not bogus ends a redirect.                       *)
Redirected(text, m, entry, at) ==
  [m EXCEPT !.tree.redirect = Sanitize(text, entry.data, TargetStop(entry, at)), !.over = TRUE]
FoundLink(text, m, entry, at) ==
  LET name == Sanitize(text, entry.data, TargetStop(entry, at))
  IN  IF name = <<>> THEN m ELSE AddOutlink(m, name)
LinkEnd(text, m, at) ==
  LET entry == Top(m)
      rest == Pop(m)
  IN  CASE ~Open(m) -> m
        [] Open(m) /\ entry.invalid -> rest
        [] Open(m) /\ ~entry.invalid /\ m.redirect -> Redirected(text, rest, entry, at)
        [] Open(m) /\ ~entry.invalid /\ ~m.redirect /\ entry.type = "INTERNAL" ->
             FoundLink(text, rest, entry, at)
        [] Open(m) /\ ~entry.invalid /\ ~m.redirect /\ entry.type = "IMAGE" ->
             AddImage(rest, ImageMatch(text, entry.data, TargetStop(entry, at)))
        [] OTHER -> rest

(* A "|" ends a value of a template, which may name a picture, or the      *)
(* target of a link.                                                       *)
Separator(text, m, at) ==
  IF Open(m) /\ Top(m).type = "TEMPLATE"
  THEN LET read == IF Top(m).key /\ Top(m).value # 0
                   THEN AddImage(m, ImageMatch(text, Top(m).value, at)) ELSE m
       IN  SetTop(SetTop(read, "key", TRUE), "value", 0)
  ELSE EndOfTarget(m, at)

Scanned(text, m, tok, at) ==
  CASE tok = "REDIRECT" -> [m EXCEPT !.redirect = TRUE]
    [] tok = "TEMPLATE_BEGIN" -> TemplateBegin(m, at)
    [] tok = "IMAGE_LINK_BEGIN" -> Push(m, "IMAGE", at)
    [] tok = "LINK_BEGIN" -> Push(m, "INTERNAL", at)
    [] tok = "LINK_END" -> LinkEnd(text, m, at)
    [] tok = "SEPARATOR" -> Separator(text, m, at)
    [] tok = "EQUALS" -> Equals(m, at)
    [] tok = "COLON" -> SetTop(m, "invalid", TRUE)
    [] tok = "CRLF" -> Crlf(m, at)
    [] tok = "HASH" -> Hash(m, at)
    [] tok = "DISAMBIGUATION" -> [m EXCEPT !.tree.ambiguous = TRUE]
    [] OTHER -> m

(* Comments come first, then ignored regions; an end of a template counts  *)
(* inside a region too.                                                    *)
ParseToken(text, m, tok, at) ==
  CASE m.over -> m
    [] ~m.over /\ tok = "COMMENT_BEGIN" -> CommentBegin(m, at)
    [] ~m.over /\ tok = "COMMENT_END" -> CommentEnd(text, m, at)
    [] ~m.over /\ m.comments # 0 /\ tok \notin {"COMMENT_BEGIN", "COMMENT_END"} -> m
    [] ~m.over /\ m.comments = 0 /\ tok = "IGNORE_BEGIN" -> IgnoreBegin(m, at)
    [] ~m.over /\ m.comments = 0 /\ tok = "IGNORE_END" -> IgnoreEnd(text, m, at)
    [] ~m.over /\ m.comments = 0 /\ tok = "TEMPLATE_END" -> CloseAny(m)
    [] OTHER -> IF m.ignores = 0 THEN Scanned(text, m, tok, at) ELSE m

(* The states after each lexeme.                                           *)
ParseLexeme(text, m, at) ==
  LET toks == Tokens(text[at])
  IN  CASE toks = <<>> -> m
        [] Len(toks) = 1 -> ParseToken(text, m, toks[1], at)
        [] OTHER -> ParseToken(text, ParseToken(text, m, toks[1], at), toks[2], at)
ParseStates(text) ==
  LET after[i \in 0 .. Len(text)] ==
        IF i = 0 THEN Unread ELSE ParseLexeme(text, after[i - 1], i)
  IN  after
wiki_parse(content) ==
  LET text == Tokenize(content) IN ParseStates(text)[Len(text)].tree

-----------------------------------------------------------------------------
(* wikitext_to_plaintext.  out is the text of the blocks that are finished, *)
(* begin the start of the open block.                                      *)

NoText == [stack |-> <<>>, ignores |-> 0, comments |-> 0, out |-> <<>>, begin |-> 1,
           redirect |-> FALSE]

(* Outside of everything the open block ends in front of a token, and a    *)
(* new one begins behind it.                                               *)
EndBlock(text, m, at) ==
  IF Open(m) THEN m
  ELSE [m EXCEPT !.out = IF m.begin = 0 THEN @ ELSE @ \o SubSeq(text, m.begin, at - 1),
                 !.begin = 0]
BeginBlock(m, at) == IF Open(m) THEN m ELSE [m EXCEPT !.begin = at + 1]

TextCommentEnd(m, at) ==
  IF m.comments > 0 THEN [BeginBlock(m, at) EXCEPT !.comments = @ - 1] ELSE m
TextIgnoreEnd(m, at) ==
  LET rest == CloseAny(m)
  IN  CASE ~Open(m) -> m
        [] Open(m) /\ Open(rest) /\ Top(rest).type = "TEMPLATE" /\ Top(rest).value # 0 ->
             SetTop(rest, "value", at + 1)
        [] OTHER -> BeginBlock(rest, at)

(* A link in the text is written as [[target|alias]].                      *)
RenderedLink(text, entry, at) ==
  LET name == Sanitize(text, entry.data, TargetStop(entry, at))
      alias == IF entry.alias = 0 THEN name ELSE SubSeq(text, entry.alias, at - 1)
  IN  IF name = <<>> \/ alias = <<>> THEN <<>> ELSE <<"[[">> \o name \o <<"|">> \o alias \o <<"]]">>
RenderLink(text, m, entry, at) ==
  IF entry.invalid \/ entry.type # "INTERNAL" \/ Open(m) THEN m
  ELSE [m EXCEPT !.out = @ \o RenderedLink(text, entry, at)]
TextLinkEnd(text, m, at) ==
  IF Open(m) THEN BeginBlock(RenderLink(text, Pop(m), Top(m), at), at) ELSE m

(* Only a template's separator leaves its target alone.                    *)
TextSeparator(m, at) ==
  IF Open(m) /\ Top(m).type = "TEMPLATE" THEN SetTop(SetTop(m, "key", TRUE), "value", 0)
  ELSE EndOfTarget(SetTop(m, "alias", at + 1), at)
TextColon(m) == IF Open(m) /\ ~Top(m).done THEN SetTop(m, "invalid", TRUE) ELSE m

TextScanned(text, m, tok, at) ==
  CASE tok = "REDIRECT" -> [m EXCEPT !.redirect = TRUE]
    [] tok = "TEMPLATE_END" -> IF Open(m) THEN BeginBlock(CloseAny(m), at) ELSE m
    [] tok = "IGNORABLE" -> BeginBlock(EndBlock(text, m, at), at)
    [] tok = "TEMPLATE_BEGIN" -> TemplateBegin(EndBlock(text, m, at), at)
    [] tok = "IMAGE_LINK_BEGIN" -> Push(EndBlock(text, m, at), "IMAGE", at)
    [] tok = "LINK_BEGIN" -> Push(EndBlock(text, m, at), "INTERNAL", at)
    [] tok = "LINK_END" -> TextLinkEnd(text, m, at)
    [] tok = "SEPARATOR" -> TextSeparator(m, at)
    [] tok = "EQUALS" -> Equals(m, at)
    [] tok = "COLON" -> TextColon(m)
    [] tok = "CRLF" -> Crlf(m, at)
    [] tok = "HASH" -> Hash(m, at)
    [] OTHER -> m

TextToken(text, m, tok, at) ==
  CASE m.redirect -> m
    [] ~m.redirect /\ tok = "COMMENT_BEGIN" -> [EndBlock(text, m, at) EXCEPT !.comments = @ + 1]
    [] ~m.redirect /\ tok = "COMMENT_END" -> TextCommentEnd(m, at)
    [] ~m.redirect /\ m.comments > 0 /\ tok \notin {"COMMENT_BEGIN", "COMMENT_END"} -> m
    [] ~m.redirect /\ m.comments = 0 /\ tok = "IGNORE_BEGIN" -> IgnoreBegin(EndBlock(text, m, at), at)
    [] ~m.redirect /\ m.comments = 0 /\ tok = "IGNORE_END" -> TextIgnoreEnd(m, at)
    [] OTHER -> IF m.ignores = 0 THEN TextScanned(text, m, tok, at) ELSE m

TextLexeme(text, m, at) ==
  LET toks == Tokens(text[at])
  IN  CASE toks = <<>> -> m
        [] Len(toks) = 1 -> TextToken(text, m, toks[1], at)
        [] OTHER -> TextToken(text, TextToken(text, m, toks[1], at), toks[2], at)

(* The last block goes to the end of the text; a redirect has no text.     *)
Redirecting == <<"NULL">>
wikitext_to_plaintext(content) ==
  LET text == Tokenize(content)
      after[i \in 0 .. Len(text)] ==
        IF i = 0 THEN NoText ELSE TextLexeme(text, after[i - 1], i)
      m == after[Len(text)]
  IN  IF m.redirect THEN Redirecting
      ELSE IF m.begin = 0 THEN m.out ELSE m.out \o SubSeq(text, m.begin, Len(text))
=============================================================================
