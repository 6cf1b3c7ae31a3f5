----------------------- MODULE TopicSubscriptionsProofs -----------------------
(***************************************************************************)
(* Theorems about TopicSubscriptions, for any topics, opt-in topics, lists   *)
(* of subnets and limits.                                                  *)
(***************************************************************************)
EXTENDS TopicSubscriptions, FiniteSetTheorems, TLAPS

\* A condition is only ever made with the check enabled.
ConditionNeedsCheck ==
    /\ pc = "identity" => enabled
    /\ condition # NoCondition => enabled

\* A restart hands its exclusion to the new topic manager before that is asked.
RestartExcludes ==
    /\ excludeTopics = IF restarted THEN {Attestation} ELSE {}
    /\ pc \in {"subscribe", "running"} => excludeTopics \subseteq excludedTopics
    /\ ~restarted => excludedTopics = {}

\* What was subscribed to is what would be subscribed to now.
SubscribedOnce == subscription = IF pc = "running" THEN GetEnabledTopics ELSE {}

\* Condition and selection come from one answer of the node, until a refresh.
SameAnswer ==
    /\ pc = "identity" => condition = NoCondition /\ advertised = {} /\ selected = NoSubnet
    /\ ~refreshed =>
         IF condition = NoCondition
         THEN advertised = {} /\ selected = NoSubnet
         ELSE condition = Cardinality(advertised) /\ selected \in Selectable(advertised)

Inv == TypeOK /\ ConditionNeedsCheck /\ RestartExcludes /\ SubscribedOnce /\ SameAnswer

-----------------------------------------------------------------------------
\* A list of subnets is finite, and so is the empty one.
LEMMA ListsFinite ==
    ASSUME NEW subnets \in SubnetLists \cup {{}}
    PROVE  IsFiniteSet(subnets) /\ Cardinality(subnets) \in Nat
  BY SubnetsAssumption, FS_EmptySet, FS_CardinalityType

\* A selection is one of the subnets it is made from, or none.
LEMMA SelectableType ==
    ASSUME NEW subnets \in SubnetLists
    PROVE  Selectable(subnets) \subseteq Subnets \cup {NoSubnet}
  BY DEF Selectable, Subnets

\* It holds at first, and every step keeps it.
LEMMA InitInv == Init => Inv
  BY TopicsAssumption DEF Init, Inv, TypeOK, ConditionNeedsCheck, RestartExcludes, SubscribedOnce, SameAnswer,
         NoCondition, NoSubnet

\* A restart and a refresh each change one side of SameAnswer only.
LEMMA NextInv == Inv /\ [Next]_vars => Inv'
  <1> SUFFICES ASSUME Inv, [Next]_vars PROVE Inv'
    OBVIOUS
  <1> USE DEF Inv
  <1>1. CASE NodeChangesSubnets
    BY <1>1 DEF NodeChangesSubnets, TypeOK, ConditionNeedsCheck, RestartExcludes, SubscribedOnce,
                SameAnswer, GetEnabledTopics, ShouldSubscribe, Selectable, configVars, subnetVars
  <1>2. CASE NewTopicManager
    BY <1>2 DEF NewTopicManager, TypeOK, ConditionNeedsCheck, RestartExcludes, SubscribedOnce,
                SameAnswer, NoCondition, NoSubnet, configVars, subnetVars
  <1>3. CASE IdentityFetched
    <2>1. Cardinality(attnets) \in Nat /\ selected' \in Subnets \cup {NoSubnet}
      BY <1>3, ListsFinite, SelectableType DEF IdentityFetched, SetAdvertisedSubnets, TypeOK
    <2>2. TypeOK' /\ ConditionNeedsCheck' /\ RestartExcludes' /\ SubscribedOnce'
      BY <1>3, <2>1 DEF IdentityFetched, SetAdvertisedSubnets, TypeOK, ConditionNeedsCheck,
                        RestartExcludes, SubscribedOnce, configVars
    <2>3. SameAnswer'
      BY <1>3, <2>1 DEF IdentityFetched, SetAdvertisedSubnets, SameAnswer, Selectable, NoCondition,
                        configVars
    <2> QED
      BY <2>2, <2>3
  <1>4. CASE IdentityFails
    BY <1>4 DEF IdentityFails, TypeOK, ConditionNeedsCheck, RestartExcludes, SubscribedOnce,
                SameAnswer, Selectable, configVars, subnetVars
  <1>5. CASE ExcludeTopics
    BY <1>5 DEF ExcludeTopics, TypeOK, ConditionNeedsCheck, RestartExcludes, SubscribedOnce,
                SameAnswer, Selectable, configVars, subnetVars
  <1>6. CASE Subscribe
    <2>1. GetEnabledTopics \subseteq AllTopics /\ GetEnabledTopics' = GetEnabledTopics
      BY <1>6 DEF Subscribe, GetEnabledTopics, ShouldSubscribe, configVars
    <2> QED
      BY <1>6, <2>1 DEF Subscribe, TypeOK, ConditionNeedsCheck, RestartExcludes, SubscribedOnce,
                        SameAnswer, Selectable, configVars, subnetVars
  <1>7. CASE RefreshSubnets
    <2>1. selected' \in Subnets \cup {NoSubnet}
      BY <1>7, SelectableType DEF RefreshSubnets, SetAdvertisedSubnets, TypeOK
    <2>2. GetEnabledTopics' = GetEnabledTopics
      BY <1>7 DEF RefreshSubnets, GetEnabledTopics, ShouldSubscribe, configVars
    <2> QED
      BY <1>7, <2>1, <2>2 DEF RefreshSubnets, SetAdvertisedSubnets, TypeOK, ConditionNeedsCheck,
                              RestartExcludes, SubscribedOnce, SameAnswer, configVars
  <1>8. CASE Restart
    BY <1>8, TopicsAssumption
       DEF Restart, TypeOK, ConditionNeedsCheck, RestartExcludes, SubscribedOnce, SameAnswer,
           Selectable, configVars, subnetVars
  <1>9. CASE UNCHANGED vars
    BY <1>9 DEF vars, TypeOK, ConditionNeedsCheck, RestartExcludes, SubscribedOnce, SameAnswer,
                GetEnabledTopics, ShouldSubscribe, Selectable, configVars, subnetVars
  <1> QED
    BY <1>1, <1>2, <1>3, <1>4, <1>5, <1>6, <1>7, <1>8, <1>9 DEF Next

\* The invariant holds in every reachable state.
LEMMA Invariant == Spec => []Inv
  BY InitInv, NextInv, PTL DEF Spec

-----------------------------------------------------------------------------
\* The creation of a connection keeps its types.
THEOREM TypeCorrect == Spec => []TypeOK
  BY Invariant, PTL DEF Inv

\* ShouldSubscribe and ExcludeTopic let no opt-in topic in that nobody consented
\* to, neither at the start nor on a restart.
THEOREM ConsentNeeded == Spec => []OptInTopicsNeedConsent
  <1>1. Inv => OptInTopicsNeedConsent
    <2> SUFFICES ASSUME Inv, NEW topic \in subscription \cap OptInTopics
                 PROVE  topic = Attestation /\ enabled /\ condition \in 0 .. maxSubnets /\ ~restarted
      BY DEF OptInTopicsNeedConsent
    <2>1. pc = "running" /\ topic \in AllTopics \ excludedTopics /\ ShouldSubscribe(topic)
      BY DEF Inv, SubscribedOnce, GetEnabledTopics
    <2>2. topic = Attestation /\ condition # NoCondition /\ condition <= maxSubnets
      BY <2>1 DEF ShouldSubscribe
    <2>3. enabled /\ condition \in 0 .. maxSubnets
      BY <2>2, SubnetsAssumption DEF Inv, ConditionNeedsCheck, TypeOK
    <2>4. ~restarted
      BY <2>1, <2>2 DEF Inv, RestartExcludes
    <2> QED
      BY <2>2, <2>3, <2>4
  <1> QED
    BY <1>1, Invariant, PTL

\* The condition on the topic and the selection of a subnet agree on the limit for
\* every number of subnets but zero, where the topic is subscribed to with no subnet
\* selected.
THEOREM LimitsAgree == Spec => []SubscriptionMatchesSelection
  <1>1. Inv => SubscriptionMatchesSelection
    <2> SUFFICES ASSUME Inv, pc = "running", ~refreshed, ~restarted
                 PROVE  /\ selected # NoSubnet <=> (Attestation \in subscription /\ condition # 0)
                        /\ condition = 0 => Attestation \in subscription
      BY DEF SubscriptionMatchesSelection
    <2>1. Attestation \in subscription <=> condition # NoCondition /\ condition <= maxSubnets
      BY TopicsAssumption
         DEF Inv, SubscribedOnce, RestartExcludes, GetEnabledTopics, ShouldSubscribe
    <2>2. maxSubnets \in Nat
      BY SubnetsAssumption DEF Inv, TypeOK
    <2>3. CASE condition = NoCondition
      <3>1. selected = NoSubnet
        BY <2>3 DEF Inv, SameAnswer
      <3> QED
        BY <2>1, <2>3, <3>1 DEF NoCondition
    <2>4. CASE condition # NoCondition
      <3>1. condition = Cardinality(advertised) /\ selected \in Selectable(advertised)
        BY <2>4 DEF Inv, SameAnswer
      <3>2. /\ Cardinality(advertised) \in Nat
            /\ Cardinality(advertised) = 0 <=> advertised = {}
        BY ListsFinite, FS_EmptySet DEF Inv, TypeOK
      <3>3. NoSubnet \notin advertised
        BY SubnetsAssumption DEF Inv, TypeOK, NoSubnet
      <3> QED
        BY <2>1, <2>2, <2>4, <3>1, <3>2, <3>3 DEF Selectable
    <2> QED
      BY <2>3, <2>4
  <1> QED
    BY <1>1, Invariant, PTL

\* A restart takes the topic away for good: the topic manager it makes, whose exclusion
\* and condition are its own, never lets the connection restart a second time, however
\* the node's answer or the identity request comes out.  This is the assumption under
\* which Lifecycle gives the wrapper of a restart no attestations.
THEOREM RestartsOnce == Spec => [][Restart => ~restarted]_vars
  <1>1. OptInTopicsNeedConsent /\ [Next]_vars => [Restart => ~restarted]_vars
    BY TopicsAssumption DEF OptInTopicsNeedConsent, Restart
  <1> QED
    BY <1>1, ConsentNeeded, PTL DEF Spec
=============================================================================
