------------------------- MODULE MCTopicSubscriptions -------------------------
(* Instances of TopicSubscriptions for TLC: three subnets of the 64.        *)
EXTENDS TopicSubscriptions

MCSubnetLists == SUBSET {1, 2, 3}
=============================================================================
