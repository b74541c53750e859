------------------------------ MODULE MCFanOut ------------------------------
(***************************************************************************)
(* Ways that fan out into a row for each parent: a kept relation that names *)
(* a way twice, as a route that passes a street in both directions does,   *)
(* and a way of two relations in a topic that does without the id column.  *)
(***************************************************************************)
EXTENDS TopicExamples

FannedOut == {FanOutTopic}
RoundTrips ==
  {<<El("relation", 5, t, <<1, 2, 1>>), Way(1, w), Way(2, Empty)>> :
     t \in RelTags, w \in {Empty, One(HW, "a")}}

WithoutIds == {NoIds}
TwoRoutes ==
  {<<El("relation", 5, t, <<1, 2>>), El("relation", 6, t, <<2>>), Way(1, w), Way(2, Empty)>> :
     t \in RelTags, w \in {Empty, One(HW, "a")}}
=============================================================================
