---------------------------- MODULE MCBucketQueue ----------------------------
(* The queue: four pages, so that a list can lose an element between two    *)
(* others, and distances up to the last bucket.                             *)
(* The load: three records, with ends that have a record and one that has   *)
(* none, a page that names an alias twice or shares it with another, more   *)
(* edges than MaxEdges, weights and shadow distances beyond ByteRange.      *)
EXTENDS BucketQueue, SparseGraphLoad, TLC

MCLinks == {1}

To(end, weights) == [end |-> end, weights |-> weights]
RecordOf(common_name, names, edges) == [common_name |-> common_name, aliases |-> names, edges |-> edges]
MCCabinets ==
  {"A" :> RecordOf(<<"x">>, first, <<To("B", <<3, 1>>), To("E", <<>>), To("C", <<20>>)>>)
     @@ "B" :> RecordOf(common, <<"x", "y">>, second)
     @@ "C" :> RecordOf(<<>>, <<"z">>, third) :
     first \in {<<>>, <<"x", "y">>}, common \in {<<>>, <<"z">>},
     second \in {<<To("A", <<3>>)>>, <<To("B", <<1>>), To("C", <<2>>)>>},
     third \in {<<>>, <<To("E", <<5>>), To("A", <<1>>)>>}}
MCShadowAsks == {<<>>, <<"x">>, <<"y", "x">>, <<"z", "none">>}

(* A program only works the queue, or only loads a graph.                   *)
NoLoad ==
  /\ cabinet = <<>> /\ unread = {} /\ loading = "none" /\ titles = <<>> /\ edgesOf = <<>>
  /\ aliases_ = <<>> /\ shadow = <<>> /\ askedFor = <<>>
InitPrograms == Init /\ (NoLoad \/ InitLoad)
NextPrograms ==
  IF loading = "none" THEN Next /\ UNCHANGED loadVars ELSE NextLoad /\ UNCHANGED vars
SpecPrograms == InitPrograms /\ [][NextPrograms]_<<vars, loadVars>>
=============================================================================
