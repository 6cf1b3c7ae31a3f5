-------------------------- MODULE TopicSubscriptions --------------------------
(***************************************************************************)
(* Which topics a beacon connection subscribes to (ShouldSubscribe,          *)
(* GetEnabledTopics and ExcludeTopic of pkg/ethereum/topic_manager.go,       *)
(* CreateBeacon of beacon_factory.go, createTopicManager of                  *)
(* pkg/application/beacons.go), from the creation of its topic manager on.    *)
(*                                                                         *)
(* The topics are chosen once, when the connection is created; the subnets   *)
(* the node advertises go on changing.  A restart creates a second           *)
(* connection, with its own topic manager, without single_attestation.       *)
(***************************************************************************)
EXTENDS Integers, FiniteSets

CONSTANTS
    AllTopics,      \* defaultAllTopics
    OptInTopics,    \* optInTopics
    Attestation,    \* TopicSingleAttestation
    SubnetLists,    \* lists of subnets the node may advertise
    Limits          \* values of AttestationSubnetConfig.MaxSubnets

ASSUME TopicsAssumption ==
    /\ OptInTopics \subseteq AllTopics
    /\ Attestation \in OptInTopics

ASSUME SubnetsAssumption ==
    /\ UNION SubnetLists \subseteq Nat
    /\ \A subnets \in SubnetLists : IsFiniteSet(subnets)
    /\ Limits \subseteq Nat

NoSubnet == -1
NoCondition == -1     \* conditions has no entry for single_attestation

VARIABLES
    enabled,        \* AttestationSubnetConfig.Enabled
    maxSubnets,     \* AttestationSubnetConfig.MaxSubnets
    attnets,        \* what the node advertises
    excludeTopics,  \* the excludedTopics argument of createBeaconInstance
    pc,             \* where the creation of the connection is
    condition,      \* the nodeSubnetCount its condition captured, or NoCondition
    excludedTopics, \* of the topic manager
    advertised,     \* of the topic manager
    selected,       \* of the topic manager
    subscription,   \* BeaconSubscription.Topics of the connection
    refreshed,      \* the advertised subnets were set since the creation
    restarted       \* the connection comes from a restart

configVars == <<enabled, maxSubnets>>
subnetVars == <<advertised, selected>>
vars == <<configVars, attnets, excludeTopics, pc, condition, excludedTopics,
          subnetVars, subscription, refreshed, restarted>>

Subnets == UNION SubnetLists

TypeOK ==
    /\ enabled \in BOOLEAN
    /\ maxSubnets \in Limits
    /\ attnets \in SubnetLists
    /\ excludeTopics \in SUBSET AllTopics
    /\ pc \in {"topicManager", "identity", "exclude", "subscribe", "running"}
    /\ condition \in Nat \cup {NoCondition}
    /\ excludedTopics \in SUBSET AllTopics
    /\ advertised \in SubnetLists \cup {{}}
    /\ selected \in Subnets \cup {NoSubnet}
    /\ subscription \in SUBSET AllTopics
    /\ refreshed \in BOOLEAN
    /\ restarted \in BOOLEAN

Init ==
    /\ enabled \in BOOLEAN
    /\ maxSubnets \in Limits
    /\ attnets \in SubnetLists
    /\ excludeTopics = {}
    /\ pc = "topicManager"
    /\ condition = NoCondition
    /\ excludedTopics = {}
    /\ advertised = {}
    /\ selected = NoSubnet
    /\ subscription = {}
    /\ refreshed = FALSE
    /\ restarted = FALSE

\* External: the node joins and leaves subnets.
NodeChangesSubnets ==
    /\ attnets' \in SubnetLists \ {attnets}
    /\ UNCHANGED <<configVars, excludeTopics, pc, condition, excludedTopics,
                   subnetVars, subscription, refreshed, restarted>>

-----------------------------------------------------------------------------
(* createTopicManager.                                                     *)

NewTopicManager ==
    /\ pc = "topicManager"
    /\ pc' = IF enabled THEN "identity" ELSE "exclude"
    /\ condition' = NoCondition
    /\ excludedTopics' = {}
    /\ advertised' = {}
    /\ selected' = NoSubnet
    /\ refreshed' = FALSE
    /\ UNCHANGED <<configVars, attnets, excludeTopics, subscription, restarted>>

\* Mutant: the random index is taken for the subnet.
Selectable_Index(subnets) ==
    IF subnets # {} /\ maxSubnets > 0 /\ Cardinality(subnets) <= maxSubnets
    THEN 0 .. (Cardinality(subnets) - 1) ELSE {NoSubnet}

\* Mutant: the number of subnets must be below the limit.
Selectable_Strict(subnets) ==
    IF subnets # {} /\ maxSubnets > 0 /\ Cardinality(subnets) < maxSubnets
    THEN subnets ELSE {NoSubnet}

Selectable(subnets) ==
    IF subnets # {} /\ maxSubnets > 0 /\ Cardinality(subnets) <= maxSubnets
    THEN subnets ELSE {NoSubnet}

SetAdvertisedSubnets(subnets) ==
    /\ advertised' = subnets
    /\ selected' \in Selectable(subnets)

\* The identity request is answered: the condition captures the number of subnets.
IdentityFetched ==
    /\ pc = "identity"
    /\ pc' = "exclude"
    /\ condition' = Cardinality(attnets)
    /\ SetAdvertisedSubnets(attnets)
    /\ UNCHANGED <<configVars, attnets, excludeTopics, excludedTopics, subscription,
                   refreshed, restarted>>

IdentityFails ==
    /\ pc = "identity"
    /\ pc' = "exclude"
    /\ UNCHANGED <<configVars, attnets, excludeTopics, condition, excludedTopics,
                   subnetVars, subscription, refreshed, restarted>>

-----------------------------------------------------------------------------
(* CreateBeacon.                                                           *)

\* Mutant: the topics are not excluded.
ExcludeTopics_Forgotten ==
    /\ pc = "exclude"
    /\ pc' = "subscribe"
    /\ UNCHANGED <<configVars, attnets, excludeTopics, condition, excludedTopics,
                   subnetVars, subscription, refreshed, restarted>>

ExcludeTopics ==
    /\ pc = "exclude"
    /\ pc' = "subscribe"
    /\ excludedTopics' = excludedTopics \cup excludeTopics
    /\ UNCHANGED <<configVars, attnets, excludeTopics, condition, subnetVars,
                   subscription, refreshed, restarted>>

\* Only single_attestation ever has a condition.
ShouldSubscribe(topic) ==
    IF topic = Attestation /\ condition # NoCondition
    THEN condition <= maxSubnets
    ELSE topic \notin OptInTopics

GetEnabledTopics == {topic \in AllTopics \ excludedTopics : ShouldSubscribe(topic)}

Subscribe ==
    /\ pc = "subscribe"
    /\ pc' = "running"
    /\ subscription' = GetEnabledTopics
    /\ UNCHANGED <<configVars, attnets, excludeTopics, condition, excludedTopics,
                   subnetVars, refreshed, restarted>>

-----------------------------------------------------------------------------
(* The connection.                                                         *)

\* The refresh or a health callback hands over the node's subnets.
RefreshSubnets ==
    /\ pc = "running"
    /\ enabled
    /\ SetAdvertisedSubnets(attnets)
    /\ refreshed' = TRUE
    /\ UNCHANGED <<configVars, attnets, excludeTopics, pc, condition, excludedTopics,
                   subscription, restarted>>

\* RestartWithoutSingleAttestation creates the second connection.
Restart ==
    /\ pc = "running"
    /\ Attestation \in subscription
    /\ pc' = "topicManager"
    /\ excludeTopics' = {Attestation}
    /\ subscription' = {}
    /\ restarted' = TRUE
    /\ UNCHANGED <<configVars, attnets, condition, excludedTopics, subnetVars, refreshed>>

Next ==
    \/ NodeChangesSubnets
    \/ NewTopicManager
    \/ IdentityFetched
    \/ IdentityFails
    \/ ExcludeTopics
    \/ Subscribe
    \/ RefreshSubnets
    \/ Restart

Spec == Init /\ [][Next]_vars

-----------------------------------------------------------------------------
(* Properties.                                                             *)

\* An opt-in topic is subscribed to only when the check is enabled, the node
\* answered with no more subnets than the limit, and the connection does not come
\* from a restart, however few subnets the node advertises then.  An identity
\* request that fails, or a topic nobody registered a condition for, does not let
\* it in.
OptInTopicsNeedConsent ==
    \A topic \in subscription \cap OptInTopics :
        topic = Attestation /\ enabled /\ condition \in 0 .. maxSubnets /\ ~restarted

\* The two limits agree at every number of subnets but zero: until the subnets
\* change, one of the node's subnets is selected exactly when attestations are
\* subscribed to and the node answered with some subnet.  A node without subnets is
\* within every limit of the condition, and there is nothing to select: attestations
\* are received and none is forwarded.
SubscriptionMatchesSelection ==
    pc = "running" /\ ~refreshed /\ ~restarted =>
        /\ selected # NoSubnet <=> (Attestation \in subscription /\ condition # 0)
        /\ condition = 0 => Attestation \in subscription
=============================================================================
