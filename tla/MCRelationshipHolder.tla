------------------------ MODULE MCRelationshipHolder ------------------------
(* Three sites, so that an array can lose its second element; one distance *)
(* on either side of CLOSE_THRESHOLD.                                      *)
EXTENDS RelationshipHolder

ThreeSites == {1, 2, 3}
MCDistance == {160, 161}
OneByte == {0}
TwoBytes == {0, 1}
=============================================================================
