---------------------------- MODULE DistanceBuild ----------------------------
(***************************************************************************)
(* How the relationship server gets its distances:                         *)
(* SixtyFourRelationshipHolderImpl::build, which relationship_indexer runs *)
(* before it persists, and calculate_distance_between with                 *)
(* full_sorted_output, which the program distance_between runs             *)
(* (c/relationship_server/relationship_holder.cpp).                        *)
(*                                                                         *)
(* MySQL knows the name of each site; Sphinx is asked for each name which  *)
(* sites link there.  Both are services outside the repository: rows, each *)
(* with an id of its own, and matches, each once, come in an order of      *)
(* theirs, and a query may fail, which ends the program (death).           *)
(***************************************************************************)
EXTENDS Integers, Sequences, FiniteSets, SequencesExt, FiniteSetsExt, Functions

CONSTANTS
  Databases,      (* each: rows, sequence of [id, name]; links, the ids of *)
                  (* the sites that link to each name                      *)
  QueriesPerChunk,   (* 32                                                 *)
  SphinxLimit,    (* SPHINX_LIMIT: matches of a query                      *)
  DistRange,      (* DIST_RANGE, 256                                       *)
  StoreLimit,     (* STORE_THRESHOLD, 249                                  *)
  NoName          (* a NULL in ids_to_urls_                                *)

ASSUME BuildAssumption ==
  /\ DistRange = 256 /\ StoreLimit \in 0..255
  /\ QueriesPerChunk \in Nat \ {0} /\ SphinxLimit \in Nat
  /\ \A d \in Databases :
       /\ d.rows \in Seq([id : Nat \ {0}, name : DOMAIN d.links]) /\ d.rows # <<>>
       /\ \A m, n \in DOMAIN d.rows : d.rows[m].id = d.rows[n].id => m = n
       /\ \A u \in DOMAIN d.links : u # NoName /\ IsFiniteSet(d.links[u])

VARIABLES
  db,             (* what the services know                                *)
  building,       (* where the program is                                  *)
  idsToUrls,      (* ids_to_urls_: from 0 to the largest id                *)
  urlsToIds,      (* urls_to_ids_                                          *)
  chunks,         (* the chunks not yet sent, sequences of names           *)
  inlinks,        (* inlinks_: the ids of each site, itself at the end     *)
  existence,      (* inlinks_existence_hash_: pairs <<from, to>>           *)
  pair,           (* x_, y_                                                *)
  stored          (* relationships_, of the pairs stored                   *)

buildVars == <<db, building, idsToUrls, urlsToIds, chunks, inlinks, existence, pair, stored>>
mappings == <<idsToUrls, urlsToIds>>
links == <<inlinks, existence>>

InitBuild ==
  /\ db \in Databases /\ building = "start"
  /\ idsToUrls = <<>> /\ urlsToIds = <<>> /\ chunks = <<>> /\ inlinks = <<>> /\ existence = {}
  /\ pair = <<0, 0>> /\ stored = <<>>

-----------------------------------------------------------------------------
(* generate_mappings: of two rows of one name the later counts, though     *)
(* both ids keep the name.                                                 *)
GenerateMappings ==
  /\ building = "start"
  /\ LET rows == ToSet(db.rows)
         size == Max({r.id : r \in rows}) + 1
         nameOf(id) == {r.name : r \in {q \in rows : q.id = id}}
         last(name) == Max({n \in DOMAIN db.rows : db.rows[n].name = name})
     IN  /\ idsToUrls' = [id \in 0..size - 1 |-> IF nameOf(id) = {} THEN NoName ELSE CHOOSE u \in nameOf(id) : TRUE]
         /\ urlsToIds' = [u \in {r.name : r \in rows} |-> db.rows[last(u)].id]
         /\ inlinks' = [id \in 0..size - 1 |-> <<>>]
  /\ building' = "mapped"
  /\ UNCHANGED <<db, chunks, existence, pair, stored>>

(* generate_inlink_hash: chunks of 32 names, in the order of a hash table; *)
(* the last, perhaps of fewer, is added whatever it holds.                 *)
Chunked(names) ==
  LET count == Len(names)
      full == IF count = 0 THEN 0 ELSE (count - 1) \div QueriesPerChunk
  IN  [k \in 1..full + 1 |-> SubSeq(names, (k - 1) * QueriesPerChunk + 1, Min({k * QueriesPerChunk, count}))]
GenerateInlinkHash ==
  /\ building = "mapped"
  /\ \E names \in SetToAllKPermutations(DOMAIN urlsToIds) :
       Len(names) = Cardinality(DOMAIN urlsToIds) /\ chunks' = Chunked(names)
  /\ building' = "query"
  /\ UNCHANGED <<db, mappings, links, pair, stored>>

(* sphinx_query_chunks, one chunk.  Sphinx answers the queries of a chunk  *)
(* in their order, and the results are told apart by their place in it.    *)
(* The site itself is put behind its matches.                              *)
Matches(name) ==
  LET all == SetToSeq(db.links[name]) IN SubSeq(all, 1, Min({SphinxLimit, Len(all)}))
RunQueries(chunk) == [i \in DOMAIN chunk |-> Matches(chunk[i])]
SiteOfNextResult(chunk, i) == urlsToIds[chunk[(i % Len(chunk)) + 1]]  (* mutant *)
SiteOfResult(chunk, i) == urlsToIds[chunk[i]]
SphinxQueryChunk ==
  /\ building = "query" /\ chunks # <<>>
  /\ LET chunk == Head(chunks)
         res == RunQueries(chunk)
         resultsOf(id) == {i \in DOMAIN res : SiteOfResult(chunk, i) = id}
     IN  /\ inlinks' = [id \in DOMAIN inlinks |-> IF resultsOf(id) = {} THEN inlinks[id]
                                                ELSE Append(res[Max(resultsOf(id))], id)]
         /\ existence' = existence \cup UNION {ToSet(res[i]) \X {SiteOfResult(chunk, i)} : i \in DOMAIN res}
  /\ chunks' = Tail(chunks)
  /\ building' = IF Len(chunks) = 1 THEN "hashed" ELSE "query"
  /\ UNCHANGED <<db, mappings, pair, stored>>
QueryDies ==
  /\ building = "query"
  /\ building' = "dead"
  /\ UNCHANGED <<db, mappings, chunks, links, pair, stored>>

-----------------------------------------------------------------------------
(* calculate_one_distance                                                  *)

LinksBoth(x, y) ==
  Cardinality({k \in DOMAIN inlinks[x] : inlinks[x][k] = y \/ <<inlinks[x][k], y>> \in existence})

Half == DistRange \div 2
AtLeastOne(d) == IF d = 0 THEN 1 ELSE d
UnsignedChar(d) == d % 256

(* Of a site that nobody links to, only whether it links to the other      *)
(* counts.  Where nothing is stored the result is empty.                   *)
DistanceToLonely(lonely, other) ==
  {AtLeastOne(Half - (Half \div Len(inlinks[other]))) : e \in {<<lonely, other>>} \cap existence}
OneDistance(x, y) ==
  LET to_x == Len(inlinks[x])
      to_y == Len(inlinks[y])
      both == LinksBoth(x, y)
      found == IF to_x = 0 \/ to_y = 0 THEN {}
               ELSE IF to_x = 1 THEN DistanceToLonely(x, y)
               ELSE IF to_y = 1 THEN DistanceToLonely(y, x)
               ELSE IF both = 0 THEN {}
               ELSE {AtLeastOne(DistRange - ((both * Half) \div to_x) - ((both * Half) \div to_y))}
  IN  {UnsignedChar(d) : d \in {e \in found : e <= StoreLimit}}
Stored(x, y) ==
  LET d == OneDistance(x, y)
  IN  [k \in DOMAIN stored \cup {<<x, y>> : e \in d} |-> IF k = <<x, y>> /\ d # {} THEN CHOOSE e \in d : TRUE ELSE stored[k]]

(* build: every x before every larger y.                                   *)
LargestId == Cardinality(DOMAIN idsToUrls) - 1
StartCalculations ==
  /\ building = "hashed"
  /\ building' = IF LargestId = 0 THEN "built" ELSE "calculate"
  /\ pair' = <<0, 1>>
  /\ UNCHANGED <<db, mappings, chunks, links, stored>>
CalculateOneDistance ==
  /\ building = "calculate"
  /\ stored' = Stored(pair[1], pair[2])
  /\ pair' = IF pair[2] < LargestId THEN <<pair[1], pair[2] + 1>> ELSE <<pair[1] + 1, pair[1] + 2>>
  /\ building' = IF pair[1] + 1 = LargestId THEN "built" ELSE "calculate"
  /\ UNCHANGED <<db, mappings, chunks, links>>

(* calculate_distance_between two names, in the order given.               *)
CalculateDistanceBetween(site, other) ==
  /\ building = "hashed"
  /\ IF {site, other} \subseteq DOMAIN urlsToIds
     THEN /\ pair' = <<urlsToIds[site], urlsToIds[other]>>
          /\ stored' = Stored(urlsToIds[site], urlsToIds[other])
          /\ building' = "between"
     ELSE building' = "dead" /\ UNCHANGED <<pair, stored>>
  /\ UNCHANGED <<db, mappings, chunks, links>>

NextBuild ==
  \/ GenerateMappings \/ GenerateInlinkHash \/ SphinxQueryChunk \/ QueryDies
  \/ StartCalculations \/ CalculateOneDistance
  \/ \E site, other \in UNION {DOMAIN d.links : d \in Databases} : CalculateDistanceBetween(site, other)

(* full_sorted_output: the pairs by their ids, each with both names.       *)
FullSortedOutput ==
  [n \in 1..Cardinality(DOMAIN stored) |->
     LET key == CHOOSE k \in DOMAIN stored :
                  Cardinality({j \in DOMAIN stored : j[1] < k[1] \/ (j[1] = k[1] /\ j[2] < k[2])}) = n - 1
     IN  <<idsToUrls[key[1]], idsToUrls[key[2]], stored[key]>>]

-----------------------------------------------------------------------------
(* Properties                                                              *)

(* The distance of two sites as its comment has it, 256 times              *)
(* 1 - (both / to_x + both / to_y) / 2, where the sites that link to a site *)
(* include itself, rounded as the code rounds and at least 1; none when    *)
(* nothing links to both, and none above the threshold.                    *)
LinkingTo(id) == {id} \cup db.links[idsToUrls[id]]
Measured(x, y) ==
  LET both == Cardinality(LinkingTo(x) \cap LinkingTo(y))
      share(s) == (both * 128) \div Cardinality(LinkingTo(s))
      d == Max({1, 256 - share(x) - share(y)})
  IN  IF both = 0 \/ d > StoreLimit THEN {} ELSE {d}
Plain(id) ==
  LET name == idsToUrls[id]
  IN  name # NoName /\ urlsToIds[name] = id /\ id \notin db.links[name] /\ Cardinality(db.links[name]) <= SphinxLimit

(* build stores for each two sites, in whatever chunks and order their     *)
(* links were read, each result given to the site it was asked for, the    *)
(* last of a short chunk too, what their links measure, whichever of the   *)
(* two comes first, and nothing for an id without a site; so does          *)
(* calculate_distance_between for its two.  It holds of sites that do not  *)
(* link to themselves, do not share their name and have no more links than *)
(* a query returns.  What is printed names both.                           *)
BuildMeasuresLinks ==
  building \in {"built", "between"} =>
    /\ \A x, y \in DOMAIN idsToUrls :
         LET kept == {stored[k] : k \in DOMAIN stored \cap {<<x, y>>}}
         IN  /\ x < y /\ building = "built" /\ Plain(x) /\ Plain(y) => kept = Measured(x, y)
             /\ pair = <<x, y>> /\ x # y /\ building = "between" /\ Plain(x) /\ Plain(y) => kept = Measured(x, y)
    /\ \A n \in DOMAIN FullSortedOutput : NoName \notin ToSet(SubSeq(FullSortedOutput[n], 1, 2))
=============================================================================
