---------------------------- MODULE WikipediaIndex ----------------------------
(***************************************************************************)
(* The files of an index, as WikipediaPage::Manager writes them and three  *)
(* programs read them, each in a way of its own: WikipediaGraph,           *)
(* WikipediaNeighborSet and WikipediaTupleMap.  A line or a record is a    *)
(* TLA+ record, a title a sequence of words and separators.  Lines are     *)
(* shorter than the 4096 bytes of a buffer, and an id of a record belongs  *)
(* to some line of the page file: a larger one is read past the table.     *)
(***************************************************************************)
EXTENDS Naturals, Sequences, SequencesExt, FiniteSetsExt, Functions, TLC

CONSTANT Indexes    (* the indexes                                         *)

VARIABLE index      (* the files of one of them                            *)

ASSUME IndexAssumption ==
  \A f \in Indexes :
    /\ \A file \in {f.pages, f.redirects, f.outlinks, f.distances} : file \in Seq(ToSet(file))
    /\ \A n \in DOMAIN f.pages : f.pages[n].id > 0
    /\ \A r \in ToSet(f.redirects) : \E n \in DOMAIN f.pages : f.pages[n].id = r.id
    /\ \A r \in ToSet(f.outlinks) \cup ToSet(f.distances) :
         \A id \in {r.first, r.second} : \E n \in DOMAIN f.pages : f.pages[n].id = id

(* The tables the loaders build: the line of each id, the line of each     *)
(* title; of two lines for one key the later counts.                       *)
PageTable(shown) ==
  [id \in {index.pages[n].id : n \in shown} |-> Max({n \in shown : index.pages[n].id = id})]
TitleTable(shown) ==
  [title \in {index.pages[n].title : n \in shown} |-> Max({n \in shown : index.pages[n].title = title})]
Lines == DOMAIN index.pages
Named(f, name, value) == [x \in DOMAIN f \cup {name} |-> IF x = name THEN value ELSE f[x]]
=============================================================================
