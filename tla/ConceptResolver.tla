--------------------------- MODULE ConceptResolver ---------------------------
(***************************************************************************)
(* c/disambig/concept_resolver.cpp: which concept a text stands for, given *)
(* the other texts around it.  The constructor reads two files: the        *)
(* concepts (canonicals) an alias may mean, and the neighbors of a         *)
(* concept.  resolve() then rates every concept of every input text by the *)
(* neighbors it has among the concepts of the OTHER texts, and returns the *)
(* concepts it finds convincing.                                           *)
(*                                                                         *)
(* The files are Tokyo Cabinet hash tables, read in any order.  A value    *)
(* "name|quality|name|quality" is a sequence of records here.  The string  *)
(* pool is left out: texts are equal when their pooled pointers are.       *)
(* resolve() gets texts that are not pooled: a pointer is the position of  *)
(* the text in the input.                                                  *)
(***************************************************************************)
EXTENDS Integers, Sequences, FiniteSets, SequencesExt, FiniteSetsExt, Functions, TLC

CONSTANTS
  AliasFiles,       (* files: functions from texts to sequences of entries *)
  NeighborFiles,    (* files: functions from names to such sequences; a    *)
                    (* sequence names each concept once                    *)
  Inputs,           (* sequences of texts                                  *)
  NeighborLimit,    (* NEIGHBOR_LIMIT, 500                                 *)
  AllocationJump,   (* N_CANONICALS_ALLOCATION_JUMP, 16384                 *)
  Unset             (* an entry of neighbors_ nobody has written           *)

(* Records and inputs are lists.                                           *)
ASSUME ResolverAssumption ==
  /\ NeighborLimit \in Nat \ {0} /\ AllocationJump \in Nat \ {0}
  /\ \A file \in AliasFiles \cup NeighborFiles : \A key \in DOMAIN file : file[key] \in Seq(ToSet(file[key]))
  /\ \A in \in Inputs : in \in Seq(ToSet(in))

VARIABLES
  aliasFile, neighborFile,
  todo,                (* the keys of the open file not read yet           *)
  ids, names,          (* canonical_id_mapping_, id_canonical_mapping_     *)
  allocated,           (* id_canonical_mapping_allocated_                  *)
  aliases, neighbors,  (* aliases_, neighbors_                             *)
  zeroed,              (* whether malloc gave neighbors_ zeroed memory     *)
  resolving,
  input, output        (* of the last resolve()                            *)

files == <<aliasFile, neighborFile>>
canonicals == <<ids, names, allocated>>
resolverVars == <<files, todo, canonicals, aliases, neighbors, zeroed, resolving, input, output>>

Ids == 0..Len(names) - 1
NoEntries == [t \in {} |-> <<>>]
Keys(file) == DOMAIN file \ {""}

InitResolver ==
  /\ aliasFile \in AliasFiles /\ neighborFile \in NeighborFiles
  /\ todo = Keys(aliasFile)
  /\ ids = NoEntries /\ names = <<>> /\ allocated = AllocationJump
  /\ aliases = NoEntries /\ neighbors = NoEntries /\ zeroed \in BOOLEAN
  /\ resolving = "aliases"
  /\ input = <<>> /\ output = {}

-----------------------------------------------------------------------------
(* The constructor                                                         *)

Extended(f, key, value) == [x \in DOMAIN f \cup {key} |-> IF x \in DOMAIN f THEN f[x] ELSE value]

(* retrieve_canonical_id(name, true): a new name gets the next id; the     *)
(* array of names grows as soon as it is full.                             *)
WithCanonical(m, name) ==
  IF name \in DOMAIN m.ids THEN m
  ELSE [ids       |-> Extended(m.ids, name, Len(m.names)),
        names     |-> Append(m.names, name),
        allocated |-> m.allocated + (IF Len(m.names) + 1 = m.allocated THEN AllocationJump ELSE 0)]

(* Entries with the id of each name, -1 for an unknown one.                *)
WithIds(entries, known) ==
  [n \in DOMAIN entries |->
     [id      |-> IF entries[n].name \in DOMAIN known THEN known[entries[n].name] ELSE -1,
      quality |-> entries[n].quality]]

(* load_aliases, one record.                                               *)
LoadAlias(key) ==
  /\ resolving = "aliases"
  /\ key \in todo /\ todo' = todo \ {key}
  /\ LET known == FoldLeft(WithCanonical, [ids |-> ids, names |-> names, allocated |-> allocated],
                           [n \in DOMAIN aliasFile[key] |-> aliasFile[key][n].name])
     IN  /\ ids' = known.ids /\ names' = known.names /\ allocated' = known.allocated
         /\ aliases' = Extended(aliases, key, WithIds(aliasFile[key], known.ids))
  /\ UNCHANGED <<files, neighbors, zeroed, resolving, input, output>>

AliasesLoaded ==
  /\ resolving = "aliases" /\ todo = {}
  /\ resolving' = "neighbors"
  /\ neighbors' = [id \in Ids |-> Unset]
  /\ todo' = Keys(neighborFile)
  /\ UNCHANGED <<files, canonicals, aliases, zeroed, input, output>>

Cut(entries) == SubSeq(entries, 1, Min({NeighborLimit, Len(entries)}))

(* load_neighbors, one record.  Names that are no canonicals are skipped   *)
(* as keys and kept with id -1 as neighbors.                               *)
LoadNeighbors(key) ==
  /\ resolving = "neighbors"
  /\ key \in todo /\ todo' = todo \ {key}
  /\ IF key \in DOMAIN ids
     THEN neighbors' = [neighbors EXCEPT ![ids[key]] = WithIds(Cut(neighborFile[key]), ids)]
     ELSE UNCHANGED neighbors
  /\ UNCHANGED <<files, canonicals, aliases, zeroed, resolving, input, output>>

NeighborsLoaded ==
  /\ resolving = "neighbors" /\ todo = {}
  /\ resolving' = "ready"
  /\ UNCHANGED <<files, todo, canonicals, aliases, neighbors, zeroed, input, output>>

-----------------------------------------------------------------------------
(* resolve                                                                 *)

(* Every concept of every text of the input, in the order of the input.    *)
Candidates(in) ==
  LET of(at) == IF in[at] \in DOMAIN aliases
                THEN [n \in DOMAIN aliases[in[at]] |->
                        [id |-> aliases[in[at]][n].id, quality |-> aliases[in[at]][n].quality, at |-> at]]
                ELSE <<>>
  IN  FlattenSeq([at \in DOMAIN in |-> of(at)])

(* canonical_id_to_cands[id], and canonical_ids_seen.                      *)
CandidatesOf(in, id) == SelectSeq(Candidates(in), LAMBDA c : c.id = id)
AddSeen(seen, c) == IF c.id \in ToSet(seen) THEN seen ELSE Append(seen, c.id)
Seen(in) == FoldLeft(AddSeen, <<>>, Candidates(in))

SameOriginOfFirst(in, a, b) ==                                 (* mutant *)
  \E p \in ToSet(CandidatesOf(in, a)) : p.at = CandidatesOf(in, b)[1].at

(* Two concepts some text stands for both of.  Pointers are compared.      *)
SameOrigin(in, a, b) ==
  \E p, q \in ToSet(Candidates(in)) : p.id = a /\ q.id = b /\ p.at = q.at

NeighborsOf(id) == IF neighbors[id] = Unset THEN <<>> ELSE neighbors[id]
Overlaps(in, id) ==
  SelectSeq(NeighborsOf(id),
            LAMBDA e : e.id >= 0 /\ CandidatesOf(in, e.id) # <<>> /\ ~SameOrigin(in, e.id, id))

SumOf(s) == FoldLeft(+, 0, s)
Qualities(entries) == [n \in DOMAIN entries |-> entries[n].quality]

(* What a candidate contributes to the bests of its text.                  *)
Rating(in, c) ==
  LET near == Overlaps(in, c.id)
  IN  [id |-> c.id, overlap |-> Len(near),
       score |-> (1 + Len(near)) * 100 - SumOf(Qualities(near)) - c.quality,
       nearest |-> Min({9999999} \cup ToSet(Qualities(near)))]

First(r) == r @@ [second |-> 0, secondOverlap |-> 0]

BetterForgetful(best, r) ==                                    (* mutant *)
  IF best.score < r.score THEN First(r)
  ELSE IF best.second < r.score
       THEN [best EXCEPT !.second = r.score, !.secondOverlap = r.overlap]
       ELSE best

Better(best, r) ==
  IF best.score < r.score THEN r @@ [second |-> best.score, secondOverlap |-> best.overlap]
  ELSE IF best.second < r.score
       THEN [best EXCEPT !.second = r.score, !.secondOverlap = r.overlap]
       ELSE best

(* bests: concept by concept in the order seen, text by text.              *)
Bests(in) ==
  LET ranked == FlattenSeq([n \in DOMAIN Seen(in) |-> CandidatesOf(in, Seen(in)[n])])
      Add(bests, c) ==
        LET text == in[c.at]
            r == Rating(in, c)
        IN  IF text \in DOMAIN bests THEN [bests EXCEPT ![text] = Better(@, r)]
            ELSE Extended(bests, text, First(r))
  IN  FoldLeft(Add, NoEntries, ranked)

(* The thresholds.                                                         *)
Convincing(b, neighborCount) ==
  LET diff == b.score - b.second
  IN  /\ \/ diff > 75
         \/ b.secondOverlap = 0 /\ b.overlap > 0 /\ diff > 50
         \/ b.overlap >= b.secondOverlap /\ b.score > 190 /\ b.secondOverlap < 3
      /\ \/ b.score > 150
         \/ b.nearest < 50
         \/ b.secondOverlap = 0 /\ diff >= 50 /\ neighborCount = NeighborLimit

Resolved(in) ==
  LET bests == Bests(in)
      convincing == {t \in DOMAIN bests : Convincing(bests[t], Len(NeighborsOf(bests[t].id)))}
  IN  {[text |-> t, concept |-> names[bests[t].id + 1], score |-> bests[t].score] : t \in convincing}

(* A concept without a record in the neighbor file has an entry nobody     *)
(* wrote.  Reading it is harmless in zeroed memory; otherwise resolve()    *)
(* follows a stray pointer and the program is over.                        *)
Resolve(in) ==
  /\ resolving = "ready"
  /\ input' = in
  /\ IF ~zeroed /\ \E id \in ToSet(Seen(in)) : neighbors[id] = Unset
     THEN resolving' = "crashed" /\ output' = {}
     ELSE resolving' = resolving /\ output' = Resolved(in)
  /\ UNCHANGED <<files, todo, canonicals, aliases, neighbors, zeroed>>

Crashed == resolving = "crashed" /\ UNCHANGED resolverVars

NextResolver ==
  \/ \E key \in todo : LoadAlias(key) \/ LoadNeighbors(key)
  \/ AliasesLoaded \/ NeighborsLoaded
  \/ \E in \in Inputs : Resolve(in)
  \/ Crashed

SpecResolver == InitResolver /\ [][NextResolver]_resolverVars
-----------------------------------------------------------------------------
(* Reference: the rating of a concept straight from the files              *)

Listed(t) == IF t \in Keys(aliasFile) THEN ToSet(aliasFile[t]) ELSE {}
Claimants(name) == {t \in ToSet(input) : \E e \in Listed(t) : e.name = name}
Support(name) ==
  {e \in ToSet(Cut(IF name \in DOMAIN neighborFile THEN neighborFile[name] ELSE <<>>)) :
     Claimants(e.name) # {} /\ Claimants(e.name) \cap Claimants(name) = {}}
Score(e) ==
  100 * (1 + Cardinality(Support(e.name))) - e.quality
    - MapThenSumSet(LAMBDA s : s.quality, Support(e.name))

(* What the winner of a text gets, and how far ahead it is.                *)
Winner(t) == CHOOSE e \in Listed(t) : \A f \in Listed(t) : Score(e) >= Score(f)
RunnersUp(t) == Listed(t) \ {Winner(t)}
Standing(t) ==
  LET e == Winner(t)
      second == CHOOSE f \in RunnersUp(t) : \A g \in RunnersUp(t) : Score(f) >= Score(g)
  IN  [score |-> Score(e), overlap |-> Cardinality(Support(e.name)),
       nearest |-> Min({9999999} \cup {s.quality : s \in Support(e.name)}),
       second |-> IF RunnersUp(t) = {} THEN 0 ELSE Score(second),
       secondOverlap |-> IF RunnersUp(t) = {} THEN 0 ELSE Cardinality(Support(second.name))]

-----------------------------------------------------------------------------
(* Properties                                                              *)

ResolverTypeOK ==
  /\ DOMAIN aliases \subseteq DOMAIN aliasFile
  /\ \A t \in DOMAIN aliases : \A e \in ToSet(aliases[t]) : e.id \in Ids
  /\ DOMAIN neighbors \in {{}, Ids}
  /\ \A id \in DOMAIN neighbors : neighbors[id] # Unset =>
       Len(neighbors[id]) <= NeighborLimit /\ \A e \in ToSet(neighbors[id]) : e.id \in Ids \cup {-1}
  /\ zeroed \in BOOLEAN /\ resolving \in {"aliases", "neighbors", "ready", "crashed"}

(* The two tables of canonicals are inverse to each other in whatever      *)
(* order the file comes, and there is always room for one name more.       *)
(* "We can use == here, because of the string pool" (line 144): the texts  *)
(* of an input are not pooled, and a text may come twice, at two           *)
(* addresses.  Comparing addresses still answers whether two concepts      *)
(* share a text.                                                           *)
PointersTellOrigins ==
  /\ ResolverTypeOK
  /\ DOMAIN ids = ToSet(names) /\ (\A id \in Ids : ids[names[id + 1]] = id)
  /\ Len(names) < allocated
  /\ resolving = "ready" => \A a, b \in ToSet(Seen(input)) :
       SameOrigin(input, a, b) <=>
         Claimants(names[a + 1]) \cap Claimants(names[b + 1]) # {}

(* A text resolves to the concept with the best score, if it is convincing *)
(* against the second best, whatever the order of the input, of the files  *)
(* and of their entries.  Texts that occur twice compete with themselves,  *)
(* and equal or negative scores fall by the order: these are left out.     *)
Decided(t) ==
  /\ Cardinality({n \in DOMAIN input : input[n] = t}) = 1
  /\ \A e \in Listed(t) : Score(e) > 0 /\ \A f \in Listed(t) \ {e} : Score(e) # Score(f)
BestConceptWins ==
  resolving = "ready" => \A t \in ToSet(input) : Listed(t) # {} /\ Decided(t) =>
    {r \in output : r.text = t} =
      IF Convincing(Standing(t), Len(NeighborsOf(ids[Winner(t).name])))
      THEN {[text |-> t, concept |-> Winner(t).name, score |-> Standing(t).score]}
      ELSE {}
=============================================================================
