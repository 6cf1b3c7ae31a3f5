---------------------------- MODULE SubnetTracking ----------------------------
(***************************************************************************)
(* The topic manager inside its BeaconWrapper (pkg/ethereum/beacon.go): the *)
(* node whose attestation subnets change, the identity requests that read   *)
(* them, the health callbacks and the refresh goroutine that hand them to   *)
(* the topic manager, and the wrapper's start and stop.                    *)
(*                                                                         *)
(* An identity request is answered at one moment and its answer is used at  *)
(* a later one, so every user of it has a fetch step and an apply step.     *)
(* The beacon node, its health checks and its events are external: they     *)
(* come in any order the callbacks registered here allow.                  *)
(***************************************************************************)
EXTENDS TopicManager

CONSTANT Checks     \* health checks that may succeed at the same time

VARIABLES
    attnets,          \* the subnets the node advertises in its metadata
    startStage,       \* where BeaconWrapper.Start is
    stopStage,        \* where BeaconWrapper.Stop is
    isHealthy,        \* BeaconWrapper.isHealthy
    checkPC,          \* where each HealthCheckSucceeded callback is
    checkFetched,     \* newSubnets of each callback
    subscribed        \* the condition on single_attestation held at creation

wrapperVars == <<attnets, startStage, stopStage, isHealthy, checkPC, checkFetched,
                 subscribed>>
svars == <<vars, wrapperVars>>

\* The refresh goroutine of the wrapper is the only one.
Refresher == CHOOSE r \in Refreshers : TRUE

\* createTopicManager: the identity is asked once.  When the request fails, the
\* opt-in topic has no condition and the advertised subnets stay unknown.
CreateTopicManager ==
    \/ /\ AttestationEnabled
       /\ advertisedSubnets = attnets
       /\ selectedSubnet \in Selectable(attnets)
       /\ subscribed = (Cardinality(attnets) <= MaxSubnets)
    \/ /\ advertisedSubnets = {}
       /\ selectedSubnet = NoSubnet
       /\ subscribed = FALSE

SInit ==
    /\ attnets \in SubnetLists
    /\ CreateTopicManager
    /\ seenSubnets = {}
    /\ trackingStartSlot = 0
    /\ mismatchCount = 0
    /\ sinceMismatch = CooldownPeriod
    /\ reconnectClosed = FALSE
    /\ onceDone = FALSE
    /\ refreshCancel = NoRefresher
    /\ refreshPC = [r \in Refreshers |-> "unborn"]
    /\ refreshCancelled = [r \in Refreshers |-> FALSE]
    /\ fetchedSubnets = [r \in Refreshers |-> {}]
    /\ startStage = "connecting"
    /\ stopStage = "none"
    /\ isHealthy = FALSE
    /\ checkPC = [c \in Checks |-> "idle"]
    /\ checkFetched = [c \in Checks |-> {}]

\* External: the node joins and leaves subnets.
NodeChangesSubnets ==
    /\ attnets' \in SubnetLists \ {attnets}
    /\ UNCHANGED <<vars, startStage, stopStage, isHealthy, checkPC, checkFetched, subscribed>>

-----------------------------------------------------------------------------
(* Start and stop of the wrapper.  Stop may be called while Start blocks.   *)

\* OnReady runs setupEventSubscriptions while BeaconNode.Start still blocks.
SetupEventSubscriptions ==
    /\ startStage = "connecting"
    /\ startStage' = "ready"
    /\ isHealthy' = TRUE
    /\ UNCHANGED <<vars, attnets, stopStage, checkPC, checkFetched, subscribed>>

\* BeaconNode.Start has returned; Start begins the refresh when enabled.
FinishStart ==
    /\ startStage = "ready"
    /\ startStage' = "done"
    /\ IF AttestationEnabled THEN StartSubnetRefresh(Refresher) ELSE UNCHANGED vars
    /\ UNCHANGED <<attnets, stopStage, isHealthy, checkPC, checkFetched, subscribed>>

StopMarkUnhealthy ==
    /\ stopStage = "none"
    /\ stopStage' = "marked"
    /\ isHealthy' = FALSE
    /\ UNCHANGED <<vars, attnets, startStage, checkPC, checkFetched, subscribed>>

\* Mutant: Stop leaves the refresh running.
StopRefresh_Forgotten ==
    /\ stopStage = "marked"
    /\ stopStage' = "unrefreshed"
    /\ UNCHANGED vars
    /\ UNCHANGED <<attnets, startStage, isHealthy, checkPC, checkFetched, subscribed>>

StopRefresh ==
    /\ stopStage = "marked"
    /\ stopStage' = "unrefreshed"
    /\ IF refreshCancel # NoRefresher THEN StopSubnetRefresh ELSE UNCHANGED vars
    /\ UNCHANGED <<attnets, startStage, isHealthy, checkPC, checkFetched, subscribed>>

\* BeaconNode.Stop: no callback starts from here on.
StopBeaconNode ==
    /\ stopStage = "unrefreshed"
    /\ stopStage' = "done"
    /\ UNCHANGED <<vars, attnets, startStage, isHealthy, checkPC, checkFetched, subscribed>>

-----------------------------------------------------------------------------
(* Callbacks.                                                              *)

CallbacksRun == startStage # "connecting" /\ stopStage # "done"

OnHealthCheckFailed ==
    /\ CallbacksRun
    /\ isHealthy' = FALSE
    /\ UNCHANGED <<vars, attnets, startStage, stopStage, checkPC, checkFetched, subscribed>>

\* The compare-and-swap from unhealthy to healthy, then the identity request.
OnHealthCheckSucceeded(c) ==
    /\ CallbacksRun
    /\ checkPC[c] = "idle"
    /\ ~isHealthy
    /\ isHealthy' = TRUE
    /\ checkPC' = [checkPC EXCEPT ![c] = IF AttestationEnabled THEN "fetch" ELSE "idle"]
    /\ UNCHANGED <<vars, attnets, startStage, stopStage, checkFetched, subscribed>>

CheckFetchOk(c) ==
    /\ checkPC[c] = "fetch"
    /\ checkPC' = [checkPC EXCEPT ![c] = "apply"]
    /\ checkFetched' = [checkFetched EXCEPT ![c] = attnets]
    /\ UNCHANGED <<vars, attnets, startStage, stopStage, isHealthy, subscribed>>

CheckFetchFails(c) ==
    /\ checkPC[c] = "fetch"
    /\ checkPC' = [checkPC EXCEPT ![c] = "idle"]
    /\ UNCHANGED <<vars, attnets, startStage, stopStage, isHealthy, checkFetched, subscribed>>

CheckApply(c) ==
    /\ checkPC[c] = "apply"
    /\ checkPC' = [checkPC EXCEPT ![c] = "idle"]
    /\ SetAdvertisedSubnets(checkFetched[c])
    /\ UNCHANGED <<attnets, startStage, stopStage, isHealthy, checkFetched, subscribed>>

-----------------------------------------------------------------------------
(* The refresh goroutine and its fetcher.                                  *)

\* GetAttnets gives nil for a node without subnets, as for a failed request:
\* ParseAttnetsBitmask returns the nil slice it never appended to.
FetchAnswered(r) ==
    IF attnets # {} THEN FetchOk(r, attnets) ELSE FetchNil(r)

RefreshFetches(r) ==
    /\ FetchAnswered(r)
    /\ UNCHANGED wrapperVars

RefreshFetchFails(r) ==
    /\ FetchNil(r)
    /\ UNCHANGED wrapperVars

RefreshTicks(r) == RefreshTick(r) /\ UNCHANGED wrapperVars

RefreshExits(r) == RefreshExit(r) /\ UNCHANGED wrapperVars

\* The context given to Start, from which the refresh has its own, is done.
ContextDone(r) == ParentCancelled(r) /\ UNCHANGED wrapperVars

\* Mutant: only a change of the number of subnets is noticed.
RefreshApplies_ByLength(r) ==
    /\ IF Cardinality(fetchedSubnets[r]) = Cardinality(advertisedSubnets)
       THEN /\ refreshPC' = [refreshPC EXCEPT ![r] = "select"]
            /\ UNCHANGED <<subnetVars, trackingVars, refreshCancel, refreshCancelled, fetchedSubnets>>
       ELSE RefreshApply(r)
    /\ refreshPC[r] = "apply"
    /\ UNCHANGED <<attnets, startStage, stopStage, isHealthy, checkPC, checkFetched, subscribed>>

RefreshApplies(r) ==
    /\ RefreshApply(r)
    /\ UNCHANGED <<attnets, startStage, stopStage, isHealthy, checkPC, checkFetched, subscribed>>

-----------------------------------------------------------------------------
\* RecordSeenSubnet, from the handler of a single_attestation.  The channel is not
\* rearmed here, so there is one signal and time does not matter.
RecordSeenSubnet(subnet, slot) ==
    /\ CallbacksRun
    /\ subscribed
    /\ RecordAttestation(subnet, slot)
    /\ UNCHANGED wrapperVars

SNext ==
    \/ NodeChangesSubnets
    \/ SetupEventSubscriptions
    \/ FinishStart
    \/ StopMarkUnhealthy
    \/ StopRefresh
    \/ StopBeaconNode
    \/ OnHealthCheckFailed
    \/ \E c \in Checks : \/ OnHealthCheckSucceeded(c)
                         \/ CheckFetchOk(c)
                         \/ CheckFetchFails(c)
                         \/ CheckApply(c)
    \/ \E r \in Refreshers : \/ RefreshTicks(r)
                             \/ RefreshExits(r)
                             \/ ContextDone(r)
                             \/ RefreshFetches(r)
                             \/ RefreshFetchFails(r)
                             \/ RefreshApplies(r)
    \/ \E subnet \in Subnets, slot \in Slots : RecordSeenSubnet(subnet, slot)

SSpec == SInit /\ [][SNext]_svars

\* Goroutines keep running and the ticker keeps firing; the node answers an
\* identity request again and again, though not every time.
SFairness ==
    /\ \A r \in Refreshers : /\ WF_svars(RefreshTicks(r))
                             /\ WF_svars(RefreshFetches(r) \/ RefreshFetchFails(r))
                             /\ SF_svars(RefreshFetches(r))
                             /\ WF_svars(RefreshApplies(r))
                             /\ SF_svars(RefreshExits(r))
    /\ \A c \in Checks : /\ WF_svars(CheckFetchOk(c) \/ CheckFetchFails(c))
                         /\ WF_svars(CheckApply(c))

SFairSpec == SSpec /\ SFairness

-----------------------------------------------------------------------------
(* Properties.                                                             *)

Running == startStage = "done" /\ stopStage = "none"

ContextLives == \A r \in Refreshers : ~refreshCancelled[r]

\* Once a running wrapper's node settles on a list of subnets and the wrapper is
\* not stopped nor its context done, the topic manager ends up with that list for good, in spite of
\* late answers to earlier requests; for lists that are not empty.
FollowsSubnets ==
    \A S \in SubnetLists \ {{}} :
        <>[](attnets = S /\ Running /\ ContextLives) => <>[](advertisedSubnets = S)

\* The same for a node that has left all its subnets.
FollowsNoSubnets ==
    <>[](attnets = {} /\ Running /\ ContextLives) => <>[](advertisedSubnets = {})

Quiet ==
    /\ \A r \in Refreshers : refreshPC[r] \in {"unborn", "exited"}
    /\ \A c \in Checks : checkPC[c] = "idle"

\* A wrapper that is stopped after it has started comes to rest: its refresh
\* goroutine returns and its health callbacks end, wherever the stop found them.
StoppedWrapperQuiesces ==
    [](Running => [](stopStage = "done" => <>Quiet))
=============================================================================
