--------------------------- MODULE FrequencyCounter ---------------------------
(***************************************************************************)
(* c/wikipedia/concept_frequency_counter.cpp: a client of the page_parse   *)
(* queue that counts how often the pages speak of each concept, and writes *)
(* the counts to a file when it is interrupted.                            *)
(*                                                                         *)
(* A text is the sequence of its words; of every run of words that is a    *)
(* tuple of the index the concept is known.  The text is not terminated:   *)
(* a phrase that ends with the last word ends a letter too soon or in what *)
(* the heap holds, so its last word may be any.  The queue is a sequence   *)
(* here; how its calls fail is the subject of module PageParseQueue.       *)
(***************************************************************************)
EXTENDS Naturals, Sequences, FiniteSets, SequencesExt, FiniteSetsExt, Functions

CONSTANTS
  Tuples,         (* what tuple_exists may know: functions from phrases,   *)
                  (* sequences of words, to concepts                       *)
  DumpPages,      (* what the queue may hold: sequences of [title, words]  *)
  OtherWords,     (* what the last word of a text may look like            *)
  LookAhead,      (* LOOKAHEAD, 5                                          *)
  PagesPerCall,   (* pages of a call of dequeue                            *)
  MaxLostCalls    (* bound: calls of dequeue that fail                     *)

(* Pages are read from a queue that sends whole records.                   *)
IsSequence(s) == s \in Seq(Range(s))
ASSUME CounterAssumption ==
  /\ PagesPerCall \in Nat \ {0} /\ LookAhead \in Nat /\ MaxLostCalls \in Nat
  /\ \A pages \in DumpPages :
       IsSequence(pages) /\ \A n \in DOMAIN pages : IsSequence(pages[n].words)

VARIABLES
  tupleMap,       (* __tuple_map                                           *)
  waitingPages,   (* the queue of the server                               *)
  lostCalls,
  counting,       (* where the program is                                  *)
  chunk,          (* work_units, those not counted yet                     *)
  article,        (* the page that is counted                              *)
  word,           (* start_word, its place in the text                     *)
  furthestWindow, (* the place of the last word of the last tuple found    *)
  dupChecker,     (* __dup_checker                                         *)
  conceptCounts,  (* __counts                                              *)
  frequencies,    (* the file, a function once it is written               *)
  quitting,       (* gracefully_quit                                       *)
  counted,        (* history: the pages counted                            *)
  inFile          (* history: how many of them when the file was written   *)

onPage == <<article, word, furthestWindow, dupChecker>>
counterVars == <<tupleMap, waitingPages, lostCalls, counting, chunk, onPage, conceptCounts, frequencies,
                 quitting, counted, inFile>>

NoArticle == [title |-> "", words |-> <<>>]
Concepts == Range(tupleMap)

InitCounter ==
  /\ tupleMap \in Tuples /\ waitingPages \in DumpPages /\ lostCalls = 0
  /\ counting = "ready" /\ chunk = <<>> /\ article = NoArticle /\ word = 0 /\ furthestWindow = 0 /\ dupChecker = {}
  /\ conceptCounts = <<>> /\ frequencies = <<>> /\ quitting = FALSE /\ counted = <<>> /\ inFile = 0

-----------------------------------------------------------------------------
(* main: a chunk of pages after the other.  The program ends when it finds *)
(* the queue empty, and writes nothing then.                               *)
DequeueChunk ==
  /\ counting = "ready" /\ ~quitting
  /\ LET n == Min({PagesPerCall, Len(waitingPages)})
     IN  chunk' = SubSeq(waitingPages, 1, n) /\ waitingPages' = SubSeq(waitingPages, n + 1, Len(waitingPages))
  /\ counting' = IF waitingPages = <<>> THEN "exited" ELSE "chunk"
  /\ UNCHANGED <<tupleMap, lostCalls, onPage, conceptCounts, frequencies, quitting, counted, inFile>>
(* A TException: the answer may be lost, and its pages with it.            *)
CallLost ==
  /\ counting = "ready" /\ ~quitting /\ lostCalls < MaxLostCalls
  /\ lostCalls' = lostCalls + 1
  /\ \E n \in {0, Min({PagesPerCall, Len(waitingPages)})} : waitingPages' = SubSeq(waitingPages, n + 1, Len(waitingPages))
  /\ UNCHANGED <<tupleMap, counting, chunk, onPage, conceptCounts, frequencies, quitting, counted, inFile>>
QuitGracefully ==
  /\ counting = "ready" /\ quitting
  /\ counting' = "exited"
  /\ UNCHANGED <<tupleMap, waitingPages, lostCalls, chunk, onPage, conceptCounts, frequencies, quitting, counted, inFile>>

(* handle_raw_page; with the words as frequency_count sees them.           *)
Endings(words) ==
  {words} \cup (IF words = <<>> THEN {} ELSE {Append(Front(words), w) : w \in OtherWords})
HandleRawPage ==
  /\ counting = "chunk" /\ chunk # <<>>
  /\ \E words \in Endings(Head(chunk).words) : article' = [title |-> Head(chunk).title, words |-> words]
  /\ chunk' = Tail(chunk) /\ counting' = "words" /\ word' = 1 /\ furthestWindow' = 0
  /\ UNCHANGED <<tupleMap, waitingPages, lostCalls, dupChecker, conceptCounts, frequencies, quitting, counted, inFile>>
ChunkDone ==
  /\ counting = "chunk" /\ chunk = <<>>
  /\ counting' = "ready"
  /\ UNCHANGED <<tupleMap, waitingPages, lostCalls, chunk, onPage, conceptCounts, frequencies, quitting, counted, inFile>>

-----------------------------------------------------------------------------
(* frequency_count                                                         *)

Phrase(a, i, n) == SubSeq(a.words, i, i + n - 1)
IsTuple(a, i, n) == Phrase(a, i, n) \in DOMAIN tupleMap
(* Windows of more than LOOKAHEAD words are tried as long as they are      *)
(* found, and once more.                                                   *)
Tried(a, i) ==
  {n \in 1..Len(a.words) + 1 - i : \A m \in 1..n - 1 : m > LookAhead => IsTuple(a, i, m)}
FoundAt(a, i) == {n \in Tried(a, i) : IsTuple(a, i, n)}
ConceptsAt(a, i) == {tupleMap[Phrase(a, i, n)] : n \in FoundAt(a, i)} \ {a.title}

Remembered == IF word > furthestWindow THEN {} ELSE dupChecker
NewAlways(i) == ConceptsAt(article, i)                         (* mutant *)
NewAt(i) == ConceptsAt(article, i) \ Remembered
CountFrom ==
  /\ counting = "words" /\ word <= Len(article.words)
  /\ LET new == NewAt(word)
         found == FoundAt(article, word)
         old(c) == IF c \in DOMAIN conceptCounts THEN conceptCounts[c] ELSE 0
     IN  /\ dupChecker' = Remembered \cup new
         /\ conceptCounts' = [c \in DOMAIN conceptCounts \cup new |-> old(c) + (IF c \in new THEN 1 ELSE 0)]
         /\ furthestWindow' = IF found = {} THEN furthestWindow ELSE word + Max(found) - 1
  /\ word' = word + 1
  /\ UNCHANGED <<tupleMap, waitingPages, lostCalls, counting, chunk, article, frequencies, quitting, counted, inFile>>
PageCounted ==
  /\ counting = "words" /\ word > Len(article.words)
  /\ counted' = Append(counted, article)
  /\ counting' = "chunk" /\ word' = 0 /\ article' = NoArticle
  /\ UNCHANGED <<tupleMap, waitingPages, lostCalls, chunk, furthestWindow, dupChecker, conceptCounts, frequencies, quitting, inFile>>

(* handle_sigint: the first signal writes the file, the second exits.  The *)
(* handler walks over the table the program may be growing.                *)
OutputFrequencies ==
  /\ counting \in {"ready", "chunk", "words"}
  /\ IF quitting THEN counting' = "exited" /\ UNCHANGED <<frequencies, quitting, inFile>>
     ELSE \/ quitting' = TRUE /\ frequencies' = conceptCounts /\ inFile' = Len(counted) /\ UNCHANGED counting
          \/ counting = "words" /\ counting' = "crashed" /\ UNCHANGED <<frequencies, quitting, inFile>>
  /\ UNCHANGED <<tupleMap, waitingPages, lostCalls, chunk, onPage, conceptCounts, counted>>

NextCounter ==
  DequeueChunk \/ CallLost \/ QuitGracefully \/ HandleRawPage \/ ChunkDone \/ CountFrom \/ PageCounted \/ OutputFrequencies

-----------------------------------------------------------------------------
(* Properties                                                              *)

EndOf(a, i) == IF FoundAt(a, i) = {} THEN 0 ELSE i + Max(FoundAt(a, i)) - 1
(* Tuples that overlap, directly or by others between them, begin at the   *)
(* same word.                                                              *)
Beginning(a, i) == Max({b \in 1..i : \A j \in 1..b - 1 : EndOf(a, j) < b})
Groups(a, c) == {Beginning(a, i) : i \in {j \in DOMAIN a.words : c \in ConceptsAt(a, j)}}
Mentioned(a, c) == {i \in DOMAIN a.words : c \in ConceptsAt(a, i)}
GoesBack(a) == \E i, j \in DOMAIN a.words : i < j /\ 0 < EndOf(a, j) /\ EndOf(a, j) < EndOf(a, i)
Least(pages, c) == MapThenSumSet(LAMBDA n : Cardinality(Groups(pages[n], c)), DOMAIN pages)
Most(pages, c) ==
  MapThenSumSet(LAMBDA n : Cardinality(IF GoesBack(pages[n]) THEN Mentioned(pages[n], c) ELSE Groups(pages[n], c)),
                DOMAIN pages)

(* A concept counts once in every group of overlapping tuples that speaks  *)
(* of it, but for the page's own, which no page counts.  Only where a      *)
(* tuple ends before one that began earlier may it count again in the same *)
(* group, at most as often as it is mentioned.  The file, once written,    *)
(* holds at least the pages counted before and nothing that is not counted *)
(* in the end; without a signal there is none.                             *)
ConceptsCountOnce ==
  /\ counting \in {"ready", "chunk"} =>
       /\ DOMAIN conceptCounts \subseteq Concepts
       /\ \A c \in Concepts :
            LET count == IF c \in DOMAIN conceptCounts THEN conceptCounts[c] ELSE 0
            IN  Least(counted, c) <= count /\ count <= Most(counted, c)
  /\ ~quitting => frequencies = <<>>
  /\ quitting =>
       \A c \in Concepts :
         LET count == IF c \in DOMAIN frequencies THEN frequencies[c] ELSE 0
         IN  /\ Least(SubSeq(counted, 1, inFile), c) <= count
             /\ count > 0 => c \in DOMAIN conceptCounts /\ count <= conceptCounts[c]
=============================================================================
