--------------------------- MODULE WikipediaTupleMap ---------------------------
(***************************************************************************)
(* WikipediaTupleMapImpl of c/wikipedia: the titles (tuples) of an index   *)
(* with their images, and the tuples that occur in a snippet of text.      *)
(*                                                                         *)
(* A snippet is a sequence of words and separators.  WordList is a library *)
(* outside the repository: StopTitles are the titles that, in lower case,  *)
(* are on the list of stop words.                                          *)
(***************************************************************************)
EXTENDS WikipediaIndex

CONSTANTS
  StopTitles,
  Separators,       (* of words: " " and - , ; and the double quote        *)
  Capitalized,      (* the words that begin with one of A to Z             *)
  ExactExempt,      (* "i like", "anything" and the like                   *)
  SnippetAsks       (* snippets                                            *)

VARIABLES
  tuples_,          (* of each tuple, the number of its canonical          *)
  canonicals_,      (* of each canonical: tuple, image_link, ambiguous     *)
  maps,             (* what the program has done last                      *)
  snippet, found    (* of the last tuples_from_snippet                     *)

tupleVars == <<tuples_, canonicals_, maps, snippet, found>>

NoImageLink == <<>>
InitTuples == tuples_ = <<>> /\ canonicals_ = <<>> /\ maps = "start" /\ snippet = <<>> /\ found = <<>>

-----------------------------------------------------------------------------
(* load, file by file                                                      *)

ShownLines == {n \in Lines : index.pages[n].title \notin StopTitles}

(* load_redirects: a page that was skipped has no entry in the table.      *)
RedirectTupleKept(table, names, r) ==                                    (* mutant *)
  IF r.id \in DOMAIN table /\ r.name \notin StopTitles \cup DOMAIN names
  THEN Named(names, r.name, table[r.id]) ELSE names
RedirectTuple(table, names, r) ==
  IF r.id \in DOMAIN table /\ r.name \notin StopTitles THEN Named(names, r.name, table[r.id]) ELSE names

(* load_images                                                             *)
WithImage(names, canonicals, line) ==
  IF line.title \in DOMAIN names THEN [canonicals EXCEPT ![names[line.title]].image_link = line.link]
  ELSE canonicals

(* load_redirect_overrides                                                 *)
OverrideTuple(names, line) ==
  IF line.title \in DOMAIN names THEN Named(names, line.name, names[line.title]) ELSE names

TupleStep(from, to) == maps = from /\ maps' = to /\ UNCHANGED <<snippet, found>>
LoadTuplePages ==
  /\ TupleStep("start", "redirects")
  /\ tuples_' = TitleTable(ShownLines)
  /\ canonicals_' = [n \in Lines |-> [tuple |-> index.pages[n].title, image_link |-> NoImageLink,
                                      ambiguous |-> index.pages[n].ambiguous]]
LoadTupleRedirects ==
  /\ TupleStep("redirects", "images")
  /\ LET table == PageTable(ShownLines)
     IN  tuples_' = FoldLeft(LAMBDA names, r : RedirectTuple(table, names, r), tuples_, index.redirects)
  /\ UNCHANGED canonicals_
LoadImages ==
  /\ TupleStep("images", "overrides")
  /\ canonicals_' = FoldLeft(LAMBDA all, line : WithImage(tuples_, all, line), canonicals_, index.images)
  /\ UNCHANGED tuples_
LoadRedirectOverrides ==
  /\ TupleStep("overrides", "loaded")
  /\ tuples_' = FoldLeft(OverrideTuple, tuples_, index.overrides)
  /\ UNCHANGED canonicals_

(* clear frees every key and every canonical the table reaches, and leaves *)
(* the table with pointers to them: no call makes sense from there on.     *)
ClearTupleMap ==
  /\ maps = "loaded"
  /\ maps' = "cleared"
  /\ UNCHANGED <<tuples_, canonicals_, snippet, found>>

-----------------------------------------------------------------------------
(* tuples_from_snippet                                                     *)

(* The words: where each begins and ends.  Only spaces are skipped before  *)
(* the first, which is empty if another separator or nothing comes first.  *)
WordsOfSnippet(s) ==
  LET n == Len(s)
      finish[cur \in 1..n + 1] ==
        IF cur = n + 1 \/ s[cur] \in Separators THEN cur - 1 ELSE finish[cur + 1]
      after[i \in 1..n + 1] == IF i <= n /\ s[i] \in Separators THEN after[i + 1] ELSE i
      from[cur \in 1..n + 1] ==
        LET end == finish[cur]
            next == after[end + 1]
        IN  <<[start |-> cur, finish |-> end]>>
              \o (IF end = n \/ next = n + 1 THEN <<>> ELSE from[next])
      first[i \in 1..n + 1] == IF i <= n /\ s[i] = " " THEN first[i + 1] ELSE i
  IN  from[first[1]]

(* append_tuple_if_exists on the words from a to b.                        *)
ExistsIn(s, words, a, b) == SubSeq(s, words[a].start, words[b].finish) \in DOMAIN tuples_
MoreThanOneWord(tuple) == " " \in ToSet(tuple)
AppendTuple(list, s, words, a, b, do_canonical_ngram_check) ==
  LET alias == SubSeq(s, words[a].start, words[b].finish)
      canonical == tuples_[alias]
  IN  IF do_canonical_ngram_check /\ ~MoreThanOneWord(canonicals_[canonical].tuple) THEN list
      ELSE Append(list, [alias |-> alias, canonical |-> canonical, from |-> a, to |-> b])

(* The sliding window of k words: acc holds the list, the words found, and *)
(* the next place to look at.                                              *)
WindowUnfoundFirst(k, acc, i) == k > 2 \/ i \notin acc.taken            (* mutant *)
WindowUnfound(k, acc, i) == k > 2 \/ {i, i + 1} \cap acc.taken = {}
SlideWindow(k, s, words, start) ==
  FoldLeft(LAMBDA acc, i :
             IF i >= acc.next /\ WindowUnfound(k, acc, i) /\ ExistsIn(s, words, i, i + k - 1)
             THEN [list  |-> AppendTuple(acc.list, s, words, i, i + k - 1, FALSE),
                   taken |-> acc.taken \cup i..i + k - 1, next |-> i + k]
             ELSE acc,
           [start EXCEPT !.next = 1], [i \in 1..Len(words) - k + 1 |-> i])

Unigrams(s, words, start) ==
  FoldLeft(LAMBDA list, i :
             IF i \notin start.taken /\ words[i].start <= words[i].finish
                /\ s[words[i].start] \in Capitalized /\ ExistsIn(s, words, i, i)
             THEN AppendTuple(list, s, words, i, i, TRUE) ELSE list,
           start.list, [i \in DOMAIN words |-> i])

TuplesFromSnippet(s, want_full) ==
  LET words == WordsOfSnippet(s)
      n == Len(words)
      nothing == [list |-> <<>>, taken |-> {}, next |-> 1]
  IN  IF n < 9 /\ ExistsIn(s, words, 1, n) THEN AppendTuple(<<>>, s, words, 1, n, FALSE)
      ELSE IF want_full /\ s \notin ExactExempt THEN <<>>
      ELSE IF n = 2
      THEN FoldLeft(LAMBDA list, i : IF ExistsIn(s, words, i, i) THEN AppendTuple(list, s, words, i, i, TRUE)
                                     ELSE list, <<>>, <<1, 2>>)
      ELSE Unigrams(s, words,
             SlideWindow(2, s, words, SlideWindow(3, s, words, SlideWindow(4, s, words, nothing))))

AskSnippet(s, want_full) ==
  /\ maps = "loaded"
  /\ snippet' = s
  /\ found' = TuplesFromSnippet(s, want_full)
  /\ maps' = IF want_full /\ s \notin ExactExempt THEN "exact" ELSE "snippet"
  /\ UNCHANGED <<tuples_, canonicals_>>

NextTuples ==
  \/ LoadTuplePages \/ LoadTupleRedirects \/ LoadImages \/ LoadRedirectOverrides \/ ClearTupleMap
  \/ \E s \in SnippetAsks, want_full \in BOOLEAN : AskSnippet(s, want_full)

-----------------------------------------------------------------------------
(* Properties                                                              *)

(* Two tuples of a snippet share no word, unless one is of four words and  *)
(* the other of three; no two to four words in a row that all tuples leave *)
(* name a tuple; and where not the whole snippet is the tuple, a single    *)
(* word stands for a canonical of several.                                 *)
WordsIn(p) == p.from..p.to
WindowSize(p) == Cardinality(WordsIn(p))
SnippetWindows ==
  maps = "snippet" =>
    LET words == WordsOfSnippet(snippet)
        n == Len(words)
        used == UNION {WordsIn(p) : p \in ToSet(found)}
    IN  /\ \A i, j \in DOMAIN found :
             i # j /\ WordsIn(found[i]) \cap WordsIn(found[j]) # {} =>
               {WindowSize(found[i]), WindowSize(found[j])} = {3, 4}
        /\ \A a, b \in 1..n :
             b - a \in 1..3 /\ a..b \cap used = {} => ~ExistsIn(snippet, words, a, b)
        /\ \A p \in ToSet(found) :
             p.from = p.to /\ n > 1 => MoreThanOneWord(canonicals_[p.canonical].tuple)
=============================================================================
