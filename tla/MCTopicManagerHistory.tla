------------------------ MODULE MCTopicManagerHistory ------------------------
(* Instances of TopicManagerHistory for TLC: the history of recorded        *)
(* attestations is bounded by the sets of subnets and slots.                *)
EXTENDS TopicManagerHistory

TrackingLists == {{}, {1}, {1, 4}}
=============================================================================
