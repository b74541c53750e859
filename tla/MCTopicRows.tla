---------------------------- MODULE MCTopicRows ----------------------------
(***************************************************************************)
(* The topics and inputs of TopicExamples: what the loader lets pass, and  *)
(* kept relations that list a way twice among them.                        *)
(***************************************************************************)
EXTENDS TopicExamples

ASSUME InputsAsAssumed == DistinctElements /\ MembersAreWays /\ RelationsFirst
ASSUME TopicsAsAssumed == TopicsAreLoaded /\ ClonesNameNoRelation
ASSUME SidesAsAssumed == InputsTagged /\ TopicsWriteKeys /\ SidesAreUnnested

=============================================================================
