-------------------------- MODULE WikiPreprocessor --------------------------
(***************************************************************************)
(* wiki_preprocess of c/wikipedia/wiki_preprocessor.cpp, which cleans an   *)
(* article before it is parsed: it cuts the comments out and replaces the  *)
(* names of the site.  The text is collected in blocks; a block without a  *)
(* start, the one that a comment's begin opens, is dropped.  out holds the *)
(* blocks that are finished, text the block cur_text.                      *)
(*                                                                         *)
(* A text is a sequence of lexemes.  A scanner reads characters, and takes *)
(* the longest token that begins where it stands: lexemes that lie side by *)
(* side may be cut into others, a "]" and a "]]" into a "]]" and a "]".    *)
(* Cut is that cut.  A character is a sign of the marks below, or anything *)
(* that runs together with nothing: a word, a blank, a tag.  The marks of  *)
(* four and of five equals signs are named "h4" and "h5".                  *)
(***************************************************************************)
EXTENDS Naturals, Sequences, TLC

Run(sign, n) == [i \in 1 .. n |-> sign]
Spelling ==
  ("]]" :> Run("]", 2)) @@ ("{{" :> Run("{", 2)) @@ ("{{{" :> Run("{", 3))
  @@ ("{{{{" :> Run("{", 4)) @@ ("}}" :> Run("}", 2)) @@ ("}}}" :> Run("}", 3))
  @@ ("}}}}" :> Run("}", 4)) @@ ("{|" :> <<"{", "|">>) @@ ("|}" :> <<"|", "}">>)
  @@ ("|}}" :> <<"|", "}", "}">>) @@ ("|}}}" :> <<"|", "}", "}", "}">>)
  @@ ("|+" :> <<"|", "+">>) @@ ("|-" :> <<"|", "-">>) @@ ("||" :> Run("|", 2))
  @@ ("!!" :> Run("!", 2)) @@ ("==" :> Run("=", 2)) @@ ("===" :> Run("=", 3))
  @@ ("h4" :> Run("=", 4)) @@ ("h5" :> Run("=", 5)) @@ ("''" :> Run("'", 2))
  @@ ("'''" :> Run("'", 3)) @@ ("''''" :> Run("'", 4)) @@ ("'''''" :> Run("'", 5))
  @@ ("-->" :> <<"-", "->">>) @@ ("{{SITENAME}}" :> <<"{", "{", "SITENAME", "}", "}">>)
  @@ ("{{SERVER}}" :> <<"{", "{", "SERVER", "}", "}">>)
  @@ ("{{PAGENAME}}" :> <<"{", "{", "PAGENAME", "}", "}">>)
Spelt(lexeme) == IF lexeme \in DOMAIN Spelling THEN Spelling[lexeme] ELSE <<lexeme>>

(* The characters of a text; the tokens of padded take the blanks behind   *)
(* them along.                                                             *)
Characters(text, padded) ==
  LET spelt[i \in 0 .. Len(text)] ==
        IF i = 0 THEN <<>>
        ELSE IF i > 1 /\ text[i] = " " /\ spelt[i - 1][Len(spelt[i - 1])] \in padded
             THEN spelt[i - 1]
        ELSE spelt[i - 1] \o Spelt(text[i])
  IN  spelt[Len(text)]

(* signs: the marks that are tokens of the scanner, with their spelling.   *)
CutCharacters(chars, signs) ==
  LET StandsAt(i, token) == \A n \in DOMAIN signs[token] :
                              i + n - 1 \in DOMAIN chars /\ chars[i + n - 1] = signs[token][n]
      Longest(found) ==
        CHOOSE token \in found : \A t \in found : Len(signs[t]) <= Len(signs[token])
      cut[i \in 1 .. Len(chars) + 1] ==
        LET found == {token \in DOMAIN signs : StandsAt(i, token)}
        IN  IF i > Len(chars) THEN <<>>
            ELSE IF found = {} THEN <<chars[i]>> \o cut[i + 1]
            ELSE <<Longest(found)>> \o cut[i + Len(signs[Longest(found)])]
  IN  cut[1]
Cut(text, tokens, padded) ==
  CutCharacters(Characters(text, padded), [token \in tokens |-> Spelling[token]])

-----------------------------------------------------------------------------

Replacement(lexeme) ==
  CASE lexeme = "{{SITENAME}}" -> <<"Wikipedia">>
    [] lexeme = "{{SERVER}}"   -> <<"http://en.wikipedia.org">>
    [] lexeme = "{{PAGENAME}}" -> <<"PAGENAME">>
    [] OTHER -> <<>>

InitialBlocks == [out |-> <<>>, gate |-> 0, started |-> TRUE, text |-> <<>>]
Finish(m) == [m EXCEPT !.out = IF m.started THEN @ \o m.text ELSE @, !.text = <<>>]

CommentBegin(m) == [Finish(m) EXCEPT !.gate = @ + 1, !.started = FALSE]
CommentEnd(m) == [m EXCEPT !.gate = @ - 1, !.started = TRUE, !.text = <<>>]
AppendTextBlock(m, replacement) == [Finish(m) EXCEPT !.out = @ \o replacement]
Ordinary(m, lexeme) == [m EXCEPT !.text = Append(@, lexeme)]

Scan(m, lexeme) ==
  CASE lexeme = "<!--" -> CommentBegin(m)
    [] lexeme = "-->" /\ m.gate > 0 -> CommentEnd(m)
    [] Replacement(lexeme) # <<>> /\ m.gate = 0 -> AppendTextBlock(m, Replacement(lexeme))
    [] OTHER -> Ordinary(m, lexeme)

Preprocess(text) ==
  LET blocks[i \in 0 .. Len(text)] ==
        IF i = 0 THEN InitialBlocks ELSE Scan(blocks[i - 1], text[i])
  IN  Finish(blocks[Len(text)]).out
=============================================================================
