-------------------------- MODULE MCConfigOverrides --------------------------
(* Instances of ConfigOverrides for TLC.  128 stands for 2^32.              *)
EXTENDS ConfigOverrides

FileCheck(e, m, n) ==
    [present |-> TRUE, enabled |-> e, maxSubnets |-> m,
     numbers |-> [x \in Numbers |-> n]]

MCFileChecks == {NoCheck} \cup {FileCheck(e, m, n) : e \in BOOLEAN, m \in {0, 5}, n \in {0, 7}}

MCDefaults == [n \in Numbers |-> 2]

MCValues == {NotSet, Bad, 0, 3}

MCFlagValues == {NotSet, 0, 4, 65, 128}
=============================================================================
