# Small World Graph in TLA+

Small World Graph answers "how are these two things connected?" over a graph
extracted from Wikipedia and other sources. The repository holds the graph
server, a server of distances between sites, a service that resolves texts to
concepts, and the programs that turn a Wikipedia dump into their input files.
This directory holds TLA+ models of those parts whose correctness depends on
state, order or concurrency, what TLC checks of them, and what TLAPS proves.

Run anything from this directory:

    tlc -workers 2 -config ShortestChain.cfg MCShortestChain
    tlapm BucketQueue_proofs.tla

`PROJECT.json` lists the runs, the lines of source each definition stands for,
the hazards, the findings and the theorems. A definition marked *mutant* is a
mistake that could have been made in the definition behind it; no
specification uses it. `PROJECT.json` pairs every property with a mutant that
violates it.

## 1. The system

| part | state it keeps | operations | talks to |
|---|---|---|---|
| **SparseGraph** `c/graph/sparse_graph` | pages by title and by alias, edges with a byte of weight, two bucket queues per search | `load`, `clear`, `shortest_chain`, `edges` | the HTTP controller and the console call it |
| **Relationship holder** `c/relationship_server/relationship_holder.cpp` | pairs -> distance, site -> array of close sites, a file | `store`, `destroy`, `persist`, `load`, `rotate`, `clear`, `build`, lookups | a TCP server, an indexer, a console; MySQL and Sphinx for `build` |
| **Relationship client** `c/relationship_client` | a socket per request | `distances`, `sites_close_to` | the server, by length-prefixed messages |
| **Canonicalizer** `c/disambig` | two blocking queues, a `ConceptResolver` shared read-only | receive, resolve, reply | Mongrel2 over ZeroMQ; variants with one process and with forked processes |
| **ConceptResolver** `c/disambig/concept_resolver.cpp` | ids of concepts, concepts of a text, neighbors of a concept | constructor, `resolve` | the canonicalizers call it |
| **Page-parse pipeline** `c/wikipedia/page_parse_*` | the server's queue; each client's batch, socket and SIGINT count | `enqueue`, `dequeue`, import | three kinds of process over Thrift |
| **Image bouncer** `c/wikipedia/wikipedia_image_bouncer.cpp` | two queues, two flags, two counters, S3 | download, upload, report | threads of one process |
| **Image resizing** `c/wikipedia/image_*` | the server's queue | `enqueue`, `dequeue`, resize | as the page-parse pipeline, with other rules for retries |
| **Parsers** `c/wikipedia/wikipedia_sequential_parser.cpp`, `wiki_parser.cpp` | a stack of open constructs, the lists of the sections found | events of Ragel scanners; the JSON outputter | the dequeuers, the page manager, the frequency counter |
| **Wikipedia pages** `c/wikipedia/wikipedia_page_impl.cpp` | pages, titles, redirects, links, in hash tables | load a dump, a cabinet or an index; write an index or a subgraph; `neighbors`, `distance_between` | the indexer, the subgraph generator |
| **Index readers** `c/wikipedia/wikipedia_graph`, `wikipedia_neighbor_set`, `wikipedia_tuple_map` | tables of titles and ids | `load`, `clear`, `page_chain`, `distances`, `tuples_from_snippet` | a Thrift server, the validator, the frequency counter |
| **Frequency counter** `c/wikipedia/concept_frequency_counter.cpp` | counts, the concepts seen in the window | `frequency_count`, `SIGINT` | the page_parse queue |
| **Graph extraction** `meguro/wikipedia/wpt_graph_sequence.sh`, `meguro/graph` | the files between the scripts | map, reduce | takes the parsers' trees; writes the graph of SparseGraph and the files of the ConceptResolver |
| **Other scripts** `meguro`, `ruby` | none between records | map, reduce, merge | run by hand |

### What is hard here

* *Interleaving.* `ThreadSafeQueue` unlocks before it broadcasts. The bouncer's
  threads end on an empty queue and an unlocked flag. Dequeuers, enqueuers and
  time-outs meet on a server that serves one connection at a time.
* *Failure.* Thrift calls fail before or after they took effect; `SIGINT` comes
  once or twice; `pthread_create` fails and the program goes on.
* *Text nobody has checked.* The parsers pop contexts without looking what they
  are, and take any sequence of tokens for an article.
* *Two copies of one fact.* The relationship holder keeps pairs and arrays; the
  bucket queue caches its lowest bucket, its size and each path's bucket; the
  bidirectional search keeps a best meeting beside two queues.
* *Limits.* 766 buckets, the capacity of a queue, the cut of a neighbor list,
  counts and distances in a byte.
* *Order of a hash table, or of threads.* `rotate`, `load`, the resolver and the
  reduces of the extraction see records in any order, and their result should
  not depend on it.
* *Names.* A page is known by its title, by redirects to it, by redirects to
  those, and by texts that others mean too; every script has to follow them alike.

What makes each part correct is stated as the properties of its module
(section 3). `PROJECT.json` lists every hazard at its line, also the ones no
property covers yet.

## 2. Modules

    BoundedFifo <-- ThreadSafeQueue <-- CanonicalizerM2     (two queues)
                        ^                   ^
            ThreadSafeQueue_proofs <-- CanonicalizerM2_proofs
    MinQueue    <-- BucketQueue     <-- ShortestChain       (two queues)
                        ^                   ^
            BucketQueue_proofs <------- ShortestChain_proofs
    WikipediaMap <-- GraphSequence                          (maps, then reduces)
    WikiPreprocessor <-- SequentialParser <-- SequentialTreeJson <-- ArticleGrammar
                                                    WikiParser <-- ArticleParsers
    WikiParser <-- WikipediaPages
    WikipediaIndex <-- WikipediaGraph, WikipediaNeighborSet, WikipediaTupleMap
                                                              ^-- IndexReaders
    PageParseQueue <-- PageParseQueue_proofs
    SequentialParser <-- SequentialParser_proofs
    RelationshipHolder, DistanceBuild, RelationshipClient <-- RelationshipServer_proofs
    ImageBouncer, ImageDownloadQueue, FrequencyCounter, SparseGraphLoad,
    ConceptResolver, WikipediaGraph <-- Counting_proofs

`A <-- B`: B refines the abstract specification A, instantiates or extends A.
The `MC*` modules give the constants that a `.cfg` cannot express. Some of them
hold several programs that share no memory: an initial state belongs to one of
them, and only that one takes steps. A run of TLC then explores each of them
alone; `NoBuild`, `NoClient` and so on are the states of a program that is not
the one explored.

| module | models | state and actions |
|---|---|---|
| `BoundedFifo` | what a blocking queue promises | a sequence; Insert when not full, Remove when not empty |
| `ThreadSafeQueue` | `c/disambig/thread_safe_queue.cpp` | `data`, the mutex, where each thread is; one action for each stretch between lock, wait, unlock and broadcast |
| `CanonicalizerM2` | `c/disambig/canonicalizer_m2.cpp` | two instances of `ThreadSafeQueue`, the request each thread holds, which threads started |
| `MinQueue` | what a priority queue promises | a partial map from page to distance |
| `BucketQueue` | class `BucketQueue` | `buckets_` as sequences, the path of each page, `min_bucket_`, `size_`; `insert`, `decrease_key`, `delete_min` |
| `ShortestChain` | `SparseGraph::shortest_chain`, `path_to_json` | two instances of `BucketQueue`, the scanned sets, predecessors and successors, sigma; one step per page taken and per edge relaxed |
| `SparseGraphLoad` | `SparseGraph::load`, `clear`, `build_shadow_page` | the pages in the order they are built, their edges, the alias lists; one step per record, in any order |
| `PageParseQueue` | `page_parse_queue_server`, `_enqueuer`, `_dequeuer` | the queue, the line of connections, each client's phase, batch and signals |
| `FrequencyCounter` | `concept_frequency_counter.cpp` | the chunk, the word the window begins at, the concepts seen in it, the counts, the file; one step per word |
| `RelationshipHolder` | `SixtyFourRelationshipHolderImpl` | the two tables, the file, and the bytes `remove_close_sites` copies |
| `DistanceBuild` | `build` and `calculate_distance_between` | the mappings of ids and names, chunks of queries, inlinks, the pair being computed, the distances stored |
| `RelationshipClient` | `relationship_client.cpp` | the connection, what is still to be sent, the buffer read into, descriptors; one step per `send` and `recv` |
| `ImageBouncer` | `wikipedia_image_bouncer.cpp` | the queues, flags and counters, one program counter per thread |
| `ImageDownloadQueue` | `image_download_queue_server`, `image_resizer_producer`, `_worker` | the producer's batch, the server's queue, each worker's chunk and transport; histories that account for units |
| `ConceptResolver` | class `ConceptResolver` | the tables of ids, aliases and neighbors, read record by record; `resolve` as operators |
| `WikipediaMap` | `graph_from_wpt_phase1.js` | no state: `MapPage` is what one page makes the map emit |
| `GraphSequence` | `wpt_graph_sequence.sh`, the scripts it runs, `alias_to_canonicals.js`, `concept_to_neighbors.js` | the files of the sequence; one action per mapped record where the order can matter, one per script elsewhere |
| `WikiPreprocessor` | `wiki_preprocess` | no state: comments are cut out, names of the site put in |
| `SequentialParser` | `wikipedia_sequential_parser.cpp` | the stack of contexts, the sections with the list that owns each, what is freed; one action per handler |
| `SequentialTreeJson` | `sequential_tree_json_outputter.cpp` | no state: the JSON of a tree |
| `ArticleGrammar` | what well-formed markup means | no state: articles with the JSON they stand for; the reference for the parser |
| `WikiParser` | `wiki_parse`, `wikitext_to_plaintext` | recursive functions over the tokens of an article, handler by handler |
| `ArticleParsers` | both parsers on one article | the result of `WikiParser` beside the tree of `SequentialParser` |
| `WikipediaPages` | `WikipediaPage::Manager` | the pages, titles, redirects and links, the files; one action for each loader, in any order of the hash tables |
| `WikipediaIndex` | the files of an index | a record per line |
| `WikipediaGraph` | `wikipedia_graph.cpp` | the tables of pages and links; `page_chain` with its queue, a step per path taken |
| `WikipediaNeighborSet` | `wikipedia_neighbor_set_impl.cpp`, its server, the validator | holders by name; `load`, `distances`, `clear` |
| `WikipediaTupleMap` | `wikipedia_tuple_map_impl.cpp` | tuples and canonicals; `load`, `tuples_from_snippet`, `clear` |
| `IndexReaders` | the three readers on one index | their states side by side |

Abstractions worth knowing:

* A request, page, image, text or concept is a value; its content is left out
  where nothing looks at it (JSON, wiki text, image bytes).
* Weights, distances and thresholds are the real numbers of the code. In
  `RelationshipHolder` array elements are 32-bit integers cut into bytes where
  the code mixes up bytes and elements.
* `ShortestChain` takes graphs as the graph files hold them: an edge is listed
  with both of its pages, at a distance of its own on either side (a rule of the
  extraction has a `distance` and a `reverse_distance`), and a page without a
  record lists none. `GraphSequence` checks that the files are of this kind
  (`EdgesHaveTwoEnds`).
* `WikipediaMap` keeps of a text where sentences and lines end, whether a sentence
  is overlong and whether a paragraph begins like a list; of an infobox the links
  a rule reads. `Lower` and `NameOf` are tables. The keys of a JSON object, which
  come in the order of their insertion, are a set, in an arbitrary but fixed order.
* The page-parse and bouncer programs link a queue
  library from outside the repository, whose `dequeue` throws on an empty queue;
  it is modelled from its use.
* An assertion of `sparse_hash_map` that stops the program is the state
  `aborted`; a read of memory nobody wrote is a choice (`HeapByte` in
  `RelationshipHolder`, `zeroed` in `ConceptResolver`).
* A text is a sequence of lexemes: a mark of the wiki's syntax, a blank, a line
  end, or a word. A pointer into a text is the index of a lexeme; a pointer that
  is NULL is 0. The Ragel scanners match the longest: where marks stand next to each
  other, `Cut` joins their signs (`Spelling`) and cuts the run again from the left
  into the longest tokens, so that `]` and `]]` become `]]` and `]`. The two scanners
  have marks of their own.
* A file format is what its reader makes of it: a line is a record.
* A hash table that is walked over is a set, taken in any order by the actions.
* Limits of the code that are far above any small instance are constants:
  `MaxEdges`, `NeighborLimit`, `SizeRange`, `CountLimit`, `LookAhead`. The
  configurations make them small, so that each is met.

## 3. What the runs check

**queue** (`ThreadSafeQueue.cfg`; four threads, two values, capacity two).
`MutualExclusion`; `NoLostWakeup`: nobody sleeps on a condition that holds
unless a broadcast is on its way, although the mutex is released first;
`ImplementsFifo`: the queue refines `BoundedFifo`. Two threads on either side
are the least for a broadcast to wake one thread too many. The most general
client may put all threads to sleep, so deadlock is not checked.

**m2** (`CanonicalizerM2.cfg`; four requests, queues of two, two workers of which
any may fail to start, one spurious wake-up). `EachRequestInOnePlace`: none is
lost or answered twice, and a burst stops at the socket: the server never holds
more than its queues and threads have room for; `SingleWorkerKeepsOrder`;
`EveryRequestAnswered`: the bounded queues never lock the three stages against
each other. Four requests are one more than the server can take when no worker
starts. When requests stop coming main blocks for ever, so deadlock is not checked.

**bucket_queue** (`BucketQueue.cfg`; four pages, four buckets; 24 cabinets of three
records and four lists of names to search from). `CachesAgree`: each path is in
the bucket of its distance, `size_` is the number queued and `min_bucket_` is the
lowest bucket in use; and `ImplementsMinQueue`. Four pages let a list lose an
element between two others. `LoadKeepsGraph`: in whatever order the records come,
the graph is the cabinet's: a page per title or end of an edge, the one its own
record fills; of each page the edges of its record, up to `MaxEdges`; under each
alias the pages whose records mention it, as often as they do; a shadow page reaches
all pages its names stand for, the first of them no farther than the next as long as
their number times 10 fits a byte. The cabinets name an end without a record, an alias twice, and
reach both limits. After `clear` the alias lists point to freed pages.

**chain** (`ShortestChain.cfg`; every graph over four pages with weights 1 and 3,
where one edge may weigh differently either way, and those where one page has no
record and is reached by edges of weight 1, and the graph `Detour`, in which sigma prunes the shorter way to a page; four
pairs of ends among which overlapping and empty ones, link limits 0 and 8,
six buckets). `ScannedIsFinal`: the distance of a scanned page is never below the
shortest one, in both searches, and it is the shortest unless that is beyond sigma, or
another page scanned at no greater distance has used up its links; the reference is
rounds of Bellman and Ford's relaxation over all edges. Both exceptions are needed.
Once a meeting is found, a page behind a pruned way is scanned with what another way
gave it; that happens only with edges that weigh differently either way, as in
`Detour`. And a page keeps the fewest miles, not the fewest links: reached by a long
chain of light edges it has no link left for its neighbors, which another page reaches
later at a greater distance. So with few links a shortest way can be missed, but not one
that is shorter than the distance of every such page. A limit of 0 links, which makes 2
with those of the shadow pages, is used up on four pages, a limit of 8 is not; with 1
link the same properties hold (the run then takes twice as long). `PathIsWalk`: what the controller sends is a walk from one set to the other;
`LinkLimitBounds`; `SearchEnds`. `LinkLimitBounds` bounds the chain, and says when
no distance leaves the buckets: with `(max_links + 1) * 255` of them. The code has
3 * 255, and its callers ask for 6 and 8 links; beyond the last bucket the code
has no check, and the model stops there (`overrun`). Whether a real graph has such
long light-weighted chains is a matter of its data.

**chain_promise** (`ShortestChainPromise.cfg`; every graph over four pages whose
edges weigh the same either way, so that the length of a chain has one meaning)
*finds a violation*: the header promises the shortest chain, and `ChainIsShortest`
fails. The reverse step computes the length of a meeting with the reverse distance
of the page (sparse_graph.cpp:547) instead of the forward one, so that sigma is too
large, and the next page that both searches have scanned ends the search. In a
trace of TLC the sets are {1, 2} and {3}, the edges 2-3 of weight 3, 2-4 of weight 1 and
3-4 of weight 3: the answer is 2-4-3 of length 4, although 2-3 has 3. With the forward
distance in `ReverseEdge` the same run finds no violation. `FindsAChain`, which no run
checks, fails on these graphs as well: the test that ends the search with the best
meeting is made on a page of the reverse queue only (line 495), so that with two
sources, one of them without an edge, and one edge to the target both queues run dry
and no chain is returned.

**page_parse** (`PageParseQueue.cfg`; four pages, batches and chunks of two, a
queue of three, two dequeuers, one failure, one time-out, two signals, at most
three of these in a behaviour).
`AtMostOnceInDumpOrder`; `BoundedLoss`: only time-outs and second SIGINTs lose
pages of the queue, a chunk each, and only failed or killed calls of the enqueuer
lose pages on their way there, a batch each: after a connection error it prints
that it sleeps before a retry, and drops the batch. `PipelineDrains`: unless
every dequeuer leaves, the enqueuer gets through the dump and what was accepted
is imported. A queue of one batch and a half makes the enqueuer wait for room.
Processes may all leave, so deadlock is not checked.

**holder** (`RelationshipServer.cfg`). *The store*: three sites, a distance on
either side of `CLOSE_THRESHOLD`, two `destroy` or one computed distance,
and one `load` or `rotate` (`StoreBound`: with `destroy` and a computed distance in
one behaviour the run takes three times as long; the theorem `ArraysMirrorPairs`
speaks of them too). `CloseSitesMirror`: the arrays say what the pairs say, each
site once; `DistancesAgree`. The first holds as long as none of three things has
happened, which the model records in `damage`: a removal that hit an element
behind the first, a load on top of filled arrays, a distance computed with the
sites in the wrong order. Three sites are the least for an array to have a
second element. `store` links a pair at any distance, `load` and `rotate` only up
to the threshold. *The indexer*: every way three sites with a gap in their ids
can link to each other, and two ids of one name; two names per query, two
matches at most. `BuildMeasuresLinks`: what is stored, and what
`calculate_distance_between` prints, is the measure of the links themselves: the results
of a chunk of queries go to their sites by their place in it, and the last chunk may be
short. That is for sites that do not link to themselves (`Plain`): those count twice among the links
of a pair, and the distance may wrap in its byte. *The client*: three calls, two
descriptors, parts of a message sent and read, broken connections.
`ClientGetsWholeAnswer`: a call that no fault disturbs returns the server's whole answer
to the request it sends, a disturbed one never a part of it as if it were whole. The
answer is the one for the ids of the call if the request carries them (`Carried`);
`distances` of a vector of several ids sends one of them and what was on the heap
(`HeapWords`), and returns the whole answer to that. Programs may stop in an assertion or exit, so
deadlock is not checked.

**holder_destroy** (`RelationshipHolderDestroy.cfg`) *finds a violation*:
`store` and `destroy` alone leave an array with a site that has no distance,
which `full_sorted_output` reports as an error. `remove_close_sites` passes a
number of elements where `memcpy` takes bytes.

**bouncer** (`ImageBouncer.cfg`). *The bouncer*: three images of which some are in
S3, two download threads, room for one upload. `EachImageOnce`: no image is
fetched twice, and images are lost in one way only: the upload thread asks
whether the downloads are complete only after it has found its queue empty; an
image that arrives in between is downloaded, counted as a success and never
uploaded. `CountsAddUp`; `BouncerEnds`. *The resizing*: four images, batches and
chunks of two, two workers, two faults: a call that fails before or after it was
served, or the server stops; workers are interrupted once or twice, also in the middle of
a call the server has already served. `UnitsAccounted`: what the server
has taken is in its queue, with a worker, resized, or lost by an answer that failed,
an interrupted worker or a stop of the server, a chunk for each of the first two; an
image is taken twice only if a batch was sent again. This pipeline
delivers at least once on the way in and at most once on the way out, where the
page-parse pipeline delivers at most once.

**resolver** (`ConceptResolver.cfg`). *The resolver*: six alias files, 18 neighbor
files of up to three entries cut at two, six inputs. `PointersTellOrigins`: the
tables of ids stay inverse and in their allocation, and comparing addresses of
texts that are not pooled still answers whether two concepts come from one text;
`BestConceptWins`: what `resolve` returns is what a rating straight from the files
says, in whatever order the files are read. Texts that occur twice and equal or
negative scores are left out: there the code depends on the order, or a text
competes with itself, and nothing says what it should do. *The readers*: every
graph of eleven possible links between four pages, and 96 indexes whose names
collide. `ChainIsCheapest`: `page_chain` finds the cheapest chain, unless
it gave up a path for its length, although a page never gets a second distance and
paths of pages already visited go back to the queue;
`ReadersAgree`: the neighbor set and the tuple map read a name, a redirect too, as the
same title, stop words and overrides apart, the graph reads titles as they do, and what
the neighbor set has of a page are its own records, all of them as long as their number
fits a byte; `SnippetWindows`: two tuples of
a snippet share no word, unless one is of four words and the other of three, whose
window does not ask, and no words that all tuples leave name one.
*The counter*: tuples of one to three words that overlap and begin inside each
other, two dumps, a signal at any moment. `ConceptsCountOnce`: a concept counts
once in each group of overlapping tuples; where a tuple ends before one that began
earlier it may count again; the file holds what was counted before the signal.

**parser** (`SequentialParser.cfg`). *The parsers*: every text of up to three lexemes,
of up to four or five over small alphabets, most of them broken, and about
1000 well-formed articles. The scanners cut each of them anew, into the longest tokens. `ContextsNest`: whatever the text, the handlers find the
contexts they pop nested as they assume; `SectionsOwnedOnce`: no section is in two
lists, freed twice, or freed while a list holds it, and a list holds sections of
its own kind only; `ParsesWellFormed`: the JSON of a well-formed article is the one
its markup means. An article whose signs are not cut as they were written is left out
(`CutAsWritten`; six of 1026: an image that ends right behind an external link); `ParsersAgree`: on these `WikiParser` finds the links, images and
text that the tree has. *The pages*: dumps of four to six pages with redirects in
chains and circles and titles that differ in case, and cabinets. `LinksFollowRedirects`: a
link leads where titles and redirects say, in whatever order these are resolved;
`IndexKeepsGraph`: an index or a subgraph loads to the links it was written from;
`DistancesAgree`: the ways to count the neighbors of two pages agree. Programs stop
when they are done, so deadlock is not checked.

**graph_sequence** (`GraphSequence.cfg`; three or four pages out of 21, every order of
the maps, with and without a dictionary of distances). `GraphIsWhatPagesSay`
compares the final graph with a reading of the whole dump at once: an entry for
each article, an edge for all that is said under any of its titles, one
descriptor for each category at the least distance. `EdgesHaveTwoEnds`: both
articles of an edge list it; the exceptions are titles without an article and
redirects that loop, for which `phase1_to_canonicalized_graph_format.js` makes
edges to a page named `|`. `RedirectsFindArticles`: a text finds every article it
names, once, nearest first. Four titles give redirects of three hops, loops of
one and two, and a text with two meanings. The reference shares `MapPage` with the
model: the properties are about the scripts after the map, and about what the map
tells each of the two ends.

### Fairness

Only weak fairness, per thread or process: a thread that can run keeps running.
No strong fairness is needed, since every mutex is handed on by an owner that
lets go of it finitely often. Nothing is assumed of the environment: requests,
failures, time-outs, spurious wake-ups and signals need not happen. In
`ShortestChain` there is one thread, and `WF(Next)` says that it runs. The bounds
on pages and requests (`NumPages`, `NumRequests`) make streams finite; liveness is
about each item that did arrive.

## 4. What is proved

| theorem | module | statement |
|---|---|---|
| `TypeCorrect`, `MutualExclusionHolds`, `NoLostWakeupHolds` | `ThreadSafeQueue_proofs` | `Spec => []...` for any threads, values and capacity |
| `QueueImplementsFifo` | `ThreadSafeQueue_proofs` | `Spec => BoundedFifo!Spec` |
| `OneWorkerAnswersInOrder` | `CanonicalizerM2_proofs` | `Spec => []SingleWorkerKeepsOrder` for any requests, workers, capacity and failed threads |
| `ServerLosesNoWakeup`, `TypeCorrect` | `CanonicalizerM2_proofs` | `Spec => [](Req!NoLostWakeup /\ Res!NoLostWakeup)`, `Spec => []TypeOK` |
| `TypeCorrect`, `CachesAlwaysAgree` (from `PathsStayInTheirBuckets`, `SizeCounts`, `MinBucketNeverTooHigh`) | `BucketQueue_proofs` | `Spec => []...` for any pages and number of buckets |
| `QueueImplementsMinQueue` | `BucketQueue_proofs` | the bucket queue refines `MinQueue` |
| `PagesAtMostOnceInOrder` | `PageParseQueue_proofs` | `Spec => []AtMostOnceInDumpOrder` for any dump, dequeuers, sizes and faults |
| `LossIsBounded` | `PageParseQueue_proofs` | `Spec => []BoundedLoss` for the same |
| `RequestsStayInOnePlace` | `CanonicalizerM2_proofs` | `Spec => []EachRequestInOnePlace` for any requests, workers, capacity and failed threads |
| `ScannedPagesAreFinal` | `ShortestChain_proofs` | `Spec => []ScannedIsFinal` for any finite graph, ends, limits and number of buckets |
| `AnswersAreWalks`, `LimitKeepsBounds` | `ShortestChain_proofs` | `Spec => []PathIsWalk`, `Spec => []LinkLimitBounds` for the same |
| `ArraysMirrorPairs` | `RelationshipServer_proofs` | `Spec => []CloseSitesMirror` for any sites, distances and heap bytes |
| `LookupsAgreeAlways` | `RelationshipServer_proofs` | `Spec => []DistancesAgree` for the same |
| `DistancesMeasureLinks` | `RelationshipServer_proofs` | `[]BuildMeasuresLinks` of the build, for any sites, names, links, chunks and limits |
| `CallsGetWholeAnswers` | `RelationshipServer_proofs` | `[]ClientGetsWholeAnswer` of the client, for any calls, descriptors and cuts of the streams |
| `ImagesMoveOnce`, `CountsAreExact` | `Counting_proofs` | `Spec => []EachImageOnce`, `Spec => []CountsAddUp` of the bouncer, for any threads, tuples and room |
| `UnitsAreAccounted` | `Counting_proofs` | `[]UnitsAccounted` of the resizing, for any sources, workers, sizes and faults |
| `ConceptsStayCountedOnce` | `Counting_proofs` | `[]ConceptsCountOnce` of the frequency counter, for any tuples, pages, window, lost calls and signals |
| `LoadStaysFaithful` | `Counting_proofs` | `[]LoadKeepsGraph` of the loading, for any cabinets, order of records, limit of edges and names asked for |
| `PointersAlwaysTell` | `Counting_proofs` | `SpecResolver => []PointersTellOrigins` for any files, order of records, inputs and limits |
| `ChainsStayCheapest` | `Counting_proofs` | `[]ChainIsCheapest` of `page_chain`, for every index, pairs of titles and limit |
| `HandlersPopWhatTheyAssume` | `SequentialParser_proofs` | `Spec => []ContextsNest` for every article, broken ones included |
| `SectionsStayOwned` | `SequentialParser_proofs` | `Spec => []SectionsOwnedOnce` for the same |

*ThreadSafeQueue.* The type invariant and mutual exclusion are inductive together; a
thread has the mutex exactly when it is at `crit`. `NoLostWakeup` needs both: a thread
goes to sleep only with the mutex, when its condition is false, and the only steps that
make the condition true leave a broadcast pending. Refinement: a push is Insert, a pop
is Remove, everything else stutters.

*CanonicalizerM2.* `SingleWorkerKeepsOrder` compares the two ends of the pipeline and
says nothing of what is between them. `M2Inv` does: `Line` joins what was replied, the
hand of the response thread, `__res_queue`, the hand of the one worker, `__req_queue`
and the hand of main, and while at most one worker runs it is exactly the sequence of
arrivals (`InLine`). Each step that moves a request takes it from the front of one place
to the end of the one before; the lemmas `JoinedArrive` to `JoinedReplied` say that the
joined sequence stays the same. `HandsFit` is needed so that no hand is overwritten, and
`StartFirst` because a worker that starts late must find the pipeline empty.
`ServerLosesNoWakeup` and `TypeCorrect` are by composition: `StepsOfReqQueue` and
`StepsOfResQueue` show that every step of the server is a step of the most general
client of `ThreadSafeQueue` or leaves the queue alone, so that the theorems about one
queue apply to both. Assumption (`M2Assumption`): a finite set of workers, a capacity
that is positive, and names that differ.

`EachRequestInOnePlace` compares two places at a time and bounds what is in the server.
`PlacesInv` names every place a request can be in: no queue and no two threads hold one
twice (`Once`), two places share none (`Disjoint`), requests are numbered as they arrive
(`Numbered`), what arrived is somewhere (`Somewhere`), so the number of requests in the
server is the sum of the lengths of its places (`Lengths`): at most the two capacities,
from the type invariant of `ThreadSafeQueue`, and one for each busy thread. The tighter
bound for a server none of whose workers started needs `NobodyWorks`: nothing gets
behind them. It holds for any number of workers, which reorder requests: places are sets
here, not the line that `M2Inv` joins.

*BucketQueue.* The invariant `IndInv` has a part about places and one about the count.
Places (`QueueInv`): the type invariant; every queued path is in the list of its
distance, once, and lists hold nothing else (`Linked`, `Tidy`); every bucket below
`min_bucket_` is empty (`LowerAreEmpty`); if the bucket at `min_bucket_` is empty, all
are, and it rests on the last (`RestsOnLast`). None of the checked properties is
inductive alone: that `min_bucket_` is the lowest needs the lists to be right, and that
`decrease_key` keeps them needs each path to be in the list of the old distance.
`CountInv` ties `size_` to the cardinality of the linked pages and needs `QueueInv` to
know that `delete_min` unlinks exactly one. The lemmas say what placing, removing and
popping do to one function of buckets, for constants, and are cited by each action's
step. Assumption (`QueueAssumption`): the number of buckets and the links are natural
numbers, and `None` is neither a page nor a number. Pages need not be finitely many: the
lists are.

*PageParseQueue.* `PipeInv` follows a page from the enqueuer's batch through the line of
connections, the call being served and the queue to a dequeuer. `Along`: what is further
on its way comes earlier in the dump, so that the places are disjoint, and a step that
moves pages from one to the next keeps the order (`InOrder`). That is not inductive
alone: the enqueuer keeps its batch while it is sent, and sends it again when the queue
was full. `OneCall` says that of all its connections, abandoned ones included, at most
one can still be answered, and that it brings the batch the enqueuer holds;
`BatchIsNext` that a batch which is not on its way is behind everything the server has.
`Apart` keeps dequeuers disjoint. Lemmas `AppendOrder`, `ConcatOrder`, `SplitOrder` and
`HeadTailOrder` say what the operators on sequences do to order; `DequeuerMoves` and
`EnqueuerMoves` what a client's step does when the server's places stay. Assumption
(`PipelineAssumption`): sizes are positive, and the enqueuer is not a dequeuer.

`LossIsBounded` counts what fell out of those places, so `PipeInv` alone says nothing of
it. A call that a dequeuer gave up, or was killed in, is a debt (`Owed`): nothing is
lost until the server serves it and hands a chunk to nobody. `DequeuersInv` bounds the
losses by a chunk for each time-out and kill minus the debts that are still open
(`Spent`); a step that loses a chunk settles a debt. It needs to know that a dequeuer
waits for one call at most (`OneCallOf`) and has no more than a chunk. `EnqueuerInv`
says for the way in that what was neither accepted nor dropped, a batch each time, is
still in the enqueuer's batch; `Signalled` that a client with two signals has left.
Further assumption (`NothingAssumption`): the mark of an empty hand is no connection and
no answer.

*ShortestChain.* Both searches satisfy the invariant of `BucketQueue`, by composition
with `BucketQueue_proofs`. `ChainInv` adds for each search what Dijkstra's argument
needs: a scanned page is no farther than a waiting one, the edges of one with links left
(`Unspent`) were relaxed up to the one at hand, and its distance is the shortest where
sigma and the spent pages leave it alone. `NoShortcut` is the heart: a shorter way to the
page taken would leave the scanned pages by an edge whose end waits, nearer. If it is
shorter than the distance of every spent page, all the pages on it have links left, since
the part of a way is no longer than the whole (`Clear`). The reference is defined by
rounds, so this is an induction over rounds. `LimitSpares`: of a page with links left
only sigma prunes an edge, the length of a meeting the search has found. `FewScanned`: a
label has no more links than there are pages, so that the reference has rounds enough.
The theorem is for every number of pages and every limit: with 6 or 8 links and
any graph it speaks of all the pages nearer than the nearest spent one. `WalkInv` is about
answers, for every link limit: every known page but the start was reached by an edge of
a scanned page with one link fewer (`ForwardWalks`, `ReverseWalks`), the shadow pages
lead to the ends (`ShadowsLead`), the meeting is known to both searches
(`WhereTheyMeet`), and the trace of predecessors, a recursive function whose existence
is proved by the number of links, ends at the start (`TraceLeadsBack`). `TwoTraces`
joins the two halves, of which one runs against its edges. `Fits`: with enough buckets
for the limit no distance leaves them. TLC checked `WalkInv` on the run's states before
it was proved. Assumptions (`ChainAssumption`, `GraphAssumption`): finitely many pages
and limits, weights that are natural numbers, edges that end at pages of the graph, and
marks that are none of these.

*RelationshipHolder.* `HolderInv`: the tables hold distances of pairs (`Stored`), each
bound holds (`Counted`), a site has an array of numbers or none (`Arrays`); unless a
removal hit an element behind the first, no array lists a site twice (`Faithful`);
unless anything is in `damage`, the arrays say what the pairs say (`Mirror`). What
`remove_close_sites` copies is computed byte by byte, for any bytes on the heap: for the
first element it is the tail of the array. `load`, `rotate` and `destroy` rebuild or
unlink by a fold over pairs in whatever order: it extends the arrays by exactly the
close pairs. `DistancesAgree` needs that `distances` visits every pair of its sorted ids
once, and that a sorting permutation exists, which is shown by ranks. Assumption
(`HolderAssumption`): ids and distances fit their bytes, the threshold is below the
largest byte.

*DistanceBuild.* `BuildMeasuresLinks` speaks of the end only. `BuildInv` says what each
phase leaves to the next: the two tables of `generate_mappings` name each other's
entries (`Mapped`); a site has either no links yet or all that its query returns, and
all of them once no chunk asks for its name, whichever order the names were dealt in
(`LinksRead`, `ChunksAreNames`, for which `ChunksDeal` shows that the chunks hold every
name), each result being the one of its own query; and a pair of sites has its distance exactly when the two nested loops have
`Passed` it, the order of the pairs being lexicographic (`StoredSoFar`). Behind the loops
the keys of the store are linked sites (`KeysAreLinked`), so that `full_sorted_output`
never reads a name that is NULL; that each of its lines has a pair of the store is an
induction over ranks (`EveryRank`). The other half is arithmetic of sets. The code counts
along an array that ends with the site itself, and the property compares two sets:
`PlainIsReadWhole` says that a plain site's array is the set of all that link to it, once
each, `BothAreCounted` that the loop then counts an intersection, and
`OneDistanceMeasures` that the quotients stay between 1 and `DIST_RANGE`, where the byte
does not wrap. Assumption (`BuildAssumption`): `DIST_RANGE` is 256, a chunk has a place,
each name has finitely many links, a row has an id of its own, and there is a site; no site has the id 0, the deleted
and the empty key of the program's tables.

*RelationshipClient.* The bytes between client and server are two streams, each cut in
two: what is past the cut and what is still to come are together the framed request, or
answer (`Streams`, `Conversation`). `Contents` says that an undisturbed call reads the answer to one of the
requests the call may send (`Payloads`, `Requested`) to its end. What a request carries is
numbers, and unless it is of several ids in a vector, the ids (`PayloadCarriesIds`): the
answer then depends on their set only, so that the duplicates the client drops make no
difference; `Descriptors` counts what is left open. Assumption (`ClientAssumption`): the
ids, the store and the heap hold numbers.

*ImageBouncer.* `BouncerInv` turns the places of an image into sets (waiting, being
fetched, arrived, on its way to S3, failed, uploaded), disjoint (`Apart`) and together
all of `__image_name_set` (`Everywhere`); no queue holds one twice (`Once`). `Counting`
ties each counter to such sets and says that the thread with its mutex has read the
current value; without that the two steps of an increment would not add one. `Outcome`
ties the counter a thread is at to what became of its image. `Control` has the one way
to lose an image: once the upload thread is past its empty queue, what is in the queue
arrived late. Assumption (`BouncerAssumption`): there is a download thread, room for an
upload, and the mark of an empty hand is no image.

*ImageDownloadQueue.* `Accounts` is an equation for each image between what the server
accepted and what is in its queue, with workers, resized, or dropped. `Chunks` and
`Losses` bound what was dropped, `Sending` what a repeated batch can add. The sums are
folds over sets in an order nobody fixes, so `AnyOrder` and `SumsAgree` show that the
order makes no difference; occurrences in a sequence are counted by prefixes, and a
chunk splits the queue (`ChunkSplits`). TLC checked `ResizeInv` on the run before it was
proved. Assumption (`ResizeAssumption`): finitely many names and workers, positive
sizes, and a source that lists a file once, as a bucket does.

*FrequencyCounter.* The property says how often a concept is counted on whole pages;
`CounterInv` says it of a page up to the word at hand (`OnPage`), where the groups that
have begun and the words that mention the concept are between the bounds. The program
knows a group only by the end of the last tuple found (`Window`) and by what it
remembers (`Recalls`): all that is remembered was found in the group of the word before,
and unless a tuple ended before an earlier one (`BackIn`), all that was found there is
remembered, since the last end is then the furthest. So a word behind that end begins a
group and no other does (`WithinAGroup`), two words have one beginning exactly if no
group starts between them (`SameBeginning`), and a concept that counts is in a group
that has not counted it (`CountsNewGroups`). `FileOK` is `OnPage` at the time of the
signal, kept because counts only grow. Assumption (`CounterAssumption`): pages and their
texts are sequences, a call asks for a page at least, and bounds are natural numbers;
the tuples may be any function.

*SparseGraphLoad.* `LoadInv` is the property for the records read so far (`TablesOK`): a
page per title read and end named, each once; what a page's edges lead to is what its
record says (`LeadTo`), nothing if it has not been read; and what an alias lists are
pages of records read, each as often as the record mentions it (`ListsPages`,
`PlacesIn`). Pages keep their places when more are found (`Longer`), so what was said of
the old edges and lists stays true (`LeadsStill`, `PlacesMove`), and a record adds its
own: `FirstOf` its edges, to a page that had none before (`EdgesKept`), and its page to
the ends of the lists it names (`AliasTable`). The code's loops over a record are folds;
`FoldByExists` and `FoldBySteps` turn a fold into a sequence of steps, by induction on
the number of elements, and `Flattening` does the same for the pages of a shadow page's
names. Assumption (`LoadAssumption`): the names and edges of a record and the names
asked for are sequences, a page has room for an edge, and a byte for more than 10.

*ConceptResolver.* `PointersTellOrigins` compares what `resolve` works with, the entries
it loaded and positions in the input, with the alias file and names. `ResolverInv` joins
them: `id_canonical_mapping_` and `canonical_id_mapping_` are inverse (`Inverses`), the
entries of a text that has been read are those of its record, with the ids that have
their names (`Means`), and the texts still to be read are the others. Names keep their
ids when more are found (`OneName`, `NamesKept`), so old entries keep their meaning
(`MeansStill`). An id has one name (`OneId`): hence a text of the input claims a name in
the file exactly if it has a candidate with its id (`ClaimantsAre`), and two candidates
at one position are two meanings of one text (`OriginsAre`), however often that text
occurs. `CandidatesAre` and `SeenAre` find what the loops over the input collect.
Assumption (`ResolverAssumption`): records and inputs are sequences, the limit of
neighbors and the step of the allocation are positive.

*WikipediaGraph.* A page weighs the number of links to it, whichever page it is reached
from. Hence a page keeps the distance it is first given: pages are visited in the order
of their distances, so a later one cannot give less (`KnownCostsLess`). `GraphInv` says
that every link is at both of its ends (`BothEnds`), that a page with a distance has that
of a visited page and its own weight, and that all the pages a visited page is linked
with have one (`Explored`); that every page which may be continued is visited or in the
queue (`Outstanding`). When the search ends, what was not visited is no cheaper than the
target (`Settled`), unless a path was given up. The reference relaxes all pages at once,
as often as there are pages: its costs never fall under what `Settled` allows
(`NoCheaper`, by induction over the rounds; it needs both ends of a link, since the
search follows links either way). The chain that is traced back costs the distance of
the target and has one link for each that was counted on the way (`ChainCosts`).
Assumptions: files are sequences, ids of records belong to pages (`IndexAssumption`), and
six times the number of links is less than `INT_MAX` (`ChainAssumption`): beyond it, sums
of the code's `int` distances could overflow.

*SequentialParser.* `ContextsNest` says that the contexts under the top are those that
the handlers pop. `StackInv` says of the whole stack that every context rests on one
that may hold it (`Nested`: a `VALUE` on a `PARAMETER`, that on a `TEMPLATE` or an
`IMAGE`; a `TABLE_CELL` on a row on a `TABLE`), that it is as long as its frames, and
that the root stays until the end of the scan. The contents of the heap do not matter. A
stack changes in two ways, by taking contexts off (`Below`) or putting one on; each
helper of the handlers has a lemma that says which, each handler one step. Nothing is
assumed of the articles: they need not be short nor well-formed.

`SectionsOwnedOnce` counts entries and holders and says nothing of why a section that a
handler appends is in no list yet. `OwnInv` does. The heap is a forest (`Forest`): an
entry of a list and a held section have one place each, are of a kind their owner may
have, and are newer than their owner; only the link inside a redirect, which owns
nothing, may be older. Nothing that is freed hangs below what is not
(`Whole`). Of the contexts it says that the section each builds is a root of the forest,
newer than every section and list that the contexts below it know (`Ordered`): so once
its context is popped no other context refers to it, and the handler may append it
(`Loose`). The exception is a `PARAMETER`, whose `key_value` is in the list of the
template below it from the start (`Linked`). Since owners are older than what they own,
the recursion of `Owned` ends (`OwningEnds`); it is what can be reached from a section
(`OwnedIsReached`), so `FreeSection` of a root keeps `Whole` (`LooseIsFreed`). Each
helper has a lemma that says how it changes the forest, each handler one step
(`HandlersOwn`). Once the tree is freed the contexts hold nothing, and only the shape of
the forest is left to keep.

Only model-checked remain: `EdgesHaveTwoEnds` and the other two of `GraphSequence`,
`BestConceptWins`, `ReadersAgree` and `SnippetWindows`, and the three
of `WikipediaPages`. Most of them compare a fold or a recursive function over all data with
a reference of another shape, which would need an induction for each. `ParsesWellFormed` and `ParsersAgree` compare recursive operators,
which the prover cannot use. Liveness (`EveryRequestAnswered`, `PipelineDrains`,
`SearchEnds`, `BouncerEnds`), `ENABLED` and fairness are out of its reach.

## 5. What the code loses

Facts met while modelling that no property contradicts, since nothing in the
repository says otherwise; the models behave as the code does.

*Sequential parser.* The text of a `<ref>` is lost, or runs on, since `text_stop`
is still NULL when it is read; an article that ends inside an internal link
repeats its text; an unclosed construct swallows the rest; the redirect flag is
never reset. `]]` closes a template through its parameter or value, `}}` an image
through its parameter; `|}` in a caption is ignored. An external link right before the `]]` of an image,
`[[Image:f|[http://u]]]`, takes the `]]` into its address, and the image never ends.
Only three things are errors:
`[[Image:x|a=b}}`, `<nowiki></source>`, and an empty article. The text of a table
cell before a link is lost; `!` counts only for the first cell of a row. A parameter
without a name has a NULL key, and duplicate keys overwrite each other.

*WikiParser.* Inside an ignored region `}}` closes the region, so that links behind
a template in a `<ref>` or table count as links of the text. `[[b|]]` is lost from the
plain text. A colon makes `wiki_parse` drop a link even behind the `|`, but not
`wikitext_to_plaintext`. A stray `-->` makes it ignore everything up to the next
`<!--`. In `[[Image:f|[http://u]]]` the first `]]` ends the image and the `]` behind it
stays in the text; `|}}` in a table ends it and leaves a `}`. `{{SITENAME}}` is a template; `<source>` and `<gallery>` are words.

*Wikipedia pages.* `neighbors` depends on the order of the inlinks, since the boost
of a neighbor that links back overwrites what was counted; `distance_between` counts
the link back too; two pages without inlinks divide zero by zero; merged counts wrap
in a byte; `clear` leaves titles in `redirects_` that are freed; `load_from_index`
leaves the next id at 1; a subgraph holds no redirects.

*Index readers.* `page_chain` only prints, its out parameters stay empty, and from a
page to itself there is no chain; a redirect names an id that the graph looks up as a
title; `clear` of the tuple map leaves a table of freed strings; behind the 255th
neighbor the array starts again. `wikipedia_graph.cpp:131` allocates records of 12
bytes and reads records of 16.

*SparseGraph.* The weight of an edge is the first descriptor's; one without
descriptors weighs 0, and `path_to_json` follows a NULL pointer for it. The distance of
a shadow page wraps behind the 26th page a name stands for. `clear` leaves the alias
lists and the highest id. The graph files of the extraction write aliases as objects,
`load` takes them for strings.

*Relationship server.* `load` on filled arrays and `rotate` followed by `destroy`
(an assertion of `sparse_hash_map`) are in the model. Of two ids with one name the
earlier has no links. In `calculate_distance_between` a second call sets the empty key
of a table again, which asserts. A warning of searchd ends the indexer.

*RelationshipClient.* `distances` sends the last id and then what the heap held; the id
0 is the empty key of its table and aborts; an interrupted `select` counts as a
time-out; `sites_close_to` and `distances` never close their socket, so that a program
ends when the descriptors run out; the status of a reply is ignored.

*Image resizing.* After an exception the transport is not closed, and some errors leave
it open: every further `open` then fails. The `put` is commented out, so that the
destination never changes and the next scan finds the same images. A last batch is sent
even when it is empty. `-p` of the worker takes no argument and crashes.

*Frequency counter.* The text is not terminated, so the last phrase loses a letter or
gains some; a queue found empty ends the program without a file; what is counted after
the signal is written nowhere.

*ConceptResolver.* `neighbors_` is not initialised: a concept without a record in the
neighbor file has an entry of whatever the heap held (`zeroed`).

## 6. Plan

Done: the core (queues, search, pipelines, stores), the extraction, the parsers, the
pages, the readers, the services. What is left, in order:

1. The extraction's snippets and entity notes, and `merge_graphs.rb`, whose renaming of
   conflicting names depends on the order of the records.
2. The composition of the sequential parser with `PageParseQueue`: a page that fails to
   parse on a dequeuer.

Algorithms without concurrency share a run that enumerates their inputs, and
invariants that only hold together are conjuncts of one property.

## 7. Not modelled

Floating-point formulas (the power and logarithm of a distance between pages are kept
as their arguments), text recognisers generated by Ragel, formatting, HTTP and
Thrift encodings, MySQL and Sphinx, Tokyo Cabinet files; generated and vendored code
(`thrift/`, `m2pp*`, `md5.c`, `bsd_queue.h`). The network part of the relationship
server (`relationship_server.cpp`, `relationship_glue.cpp`) is not in the repository.
`canonicalizer_m2_single` and `canonicalizer_m2_fork` have no shared state to
interleave. Threads of the bouncer that fail to start: the program then joins an
uninitialised `pthread_t`. The unlocked variables behind progress displays.
`radixheap.cpp` is used by its own benchmark only; doubling its bucket limits for
500000 keys overflows an `int`, after which nodes lie in overlapping buckets. Programs
that only call one operation after the other (indexer, outputter, consoles,
importer, benchmarks) have no module of their own; their operations do. Components
without a model are listed with status `not_modelled` in `PROJECT.json`.
