--------------------------- MODULE MCSubnetTracking ---------------------------
(* Instances of SubnetTracking for TLC.                                     *)
EXTENDS SubnetTracking

\* None, one, another one, and more than MaxSubnets.
FollowLists == {{}, {1}, {2}, {1, 2}}
=============================================================================
