--------------------------- MODULE MCConnectBeacons ---------------------------
(* Instances of ConnectBeacons for TLC.                                     *)
EXTENDS ConnectBeacons, TLC

BeaconNodes == Permutations(Nodes)
=============================================================================
