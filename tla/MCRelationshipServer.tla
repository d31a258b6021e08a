------------------------ MODULE MCRelationshipServer ------------------------
(* Three programs of the relationship server that share no memory: the     *)
(* store of distances of MCRelationshipHolder; the indexer, on every way   *)
(* three sites with a gap in their ids can link to each other, and on a    *)
(* name that two ids share; and a client that calls three times, with two  *)
(* descriptors to spend, for known, unknown and repeated ids and for the   *)
(* id 0.                                                                   *)
EXTENDS MCRelationshipHolder, DistanceBuild, RelationshipClient, TLC

Row(id, name) == [id |-> id, name |-> name]
SiteNames == {"u", "v", "w"}
Shared == [rows |-> <<Row(1, "u"), Row(2, "v"), Row(3, "u")>>, links |-> [u \in SiteNames |-> {1, 2}]]
MCDatabases ==
  {Shared} \cup {[rows |-> <<Row(1, "u"), Row(2, "v"), Row(4, "w")>>, links |-> l] :
                   l \in [SiteNames -> SUBSET {1, 2, 4}]}

ClientCall(op, ids) == [op |-> op, ids |-> ids]
MCClientCalls ==
  {ClientCall("sites_close_to", <<1>>), ClientCall("sites_close_to", <<3>>),
   ClientCall("distances", <<1, 2>>), ClientCall("distances", <<2, 2>>), ClientCall("distances", <<2, 1, 7>>),
   ClientCall("distances_raw", <<2, 1, 2>>), ClientCall("distances_raw", <<1>>),
   ClientCall("distances_raw", <<1, 0>>), ClientCall("distances_raw", <<1, 3>>)}
MCNearSites == 1 :> <<2, 7>> @@ 2 :> <<1, 7>>
MCPairDistances == <<<<1, 2, 5>>, <<2, 7, 9>>>>

NoHolder ==
  /\ relationships = NoRelationships /\ closeSites = NoCloseSites /\ file = None
  /\ deletable = FALSE /\ aborted = TRUE /\ destroys = 0 /\ loads = 0 /\ builds = 0 /\ damage = {}
NoBuild ==
  /\ db = Shared /\ building = "none" /\ idsToUrls = <<>> /\ urlsToIds = <<>> /\ chunks = <<>>
  /\ inlinks = <<>> /\ existence = {} /\ pair = <<0, 0>> /\ stored = <<>>
NoClient ==
  /\ call = [op |-> "none", ids |-> <<>>] /\ calls = 0 /\ client = "none" /\ fds = 0 /\ connection = "none"
  /\ toSend = <<>> /\ request = <<>> /\ reply = <<>> /\ buffer = <<>> /\ results = <<>> /\ disturbed = FALSE

InitPrograms ==
  \/ Init /\ NoBuild /\ NoClient
  \/ NoHolder /\ InitBuild /\ NoClient
  \/ NoHolder /\ NoBuild /\ InitClient
(* Bound of the store: no behaviour has both a destroy and a computed      *)
(* distance, and so every one has two destroys at most, or one distance.   *)
StoreBound == destroys + 2 * builds <= 2
NextPrograms ==
  IF building # "none" THEN NextBuild /\ UNCHANGED <<vars, clientVars>>
  ELSE IF client # "none" THEN NextClient /\ UNCHANGED <<vars, buildVars>>
  ELSE Next /\ StoreBound' /\ UNCHANGED <<buildVars, clientVars>>
SpecPrograms == InitPrograms /\ [][NextPrograms]_<<vars, buildVars, clientVars>>
=============================================================================
