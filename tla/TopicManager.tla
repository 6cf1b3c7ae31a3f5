---------------------------- MODULE TopicManager ----------------------------
(***************************************************************************)
(* The attestation-subnet tracker of pkg/ethereum/topic_manager.go.        *)
(*                                                                         *)
(* One topicManager belongs to one beacon connection.  Event handlers      *)
(* record the subnet of every single_attestation they receive; when, in a  *)
(* window of slots, more than HighWaterMark subnets outside the advertised *)
(* ones are seen, the manager closes reconnectChan and the application     *)
(* restarts the connection.  A background goroutine refreshes the          *)
(* advertised subnets from the node.                                       *)
(*                                                                         *)
(* Every method runs under tm.mu and is one action.  The refresh goroutine *)
(* holds no lock while it fetches, so its select, its fetch and its update *)
(* are three actions.                                                      *)
(*                                                                         *)
(* Data abstraction: the lists of subnets are ascending and free of        *)
(* repetitions (ParseAttnetsBitmask), so a list is the set of its members. *)
(* Wall-clock time is kept as sinceMismatch, the time since                *)
(* lastMismatchTime, up to CooldownPeriod (nothing tells longer times      *)
(* apart).  mismatchCount is kept up to MismatchThreshold, the only value  *)
(* it is compared with.                                                    *)
(***************************************************************************)
EXTENDS Integers, FiniteSets

CONSTANTS
    Subnets,              \* attestation subnet ids
    SubnetLists,          \* the lists a node may advertise
    Slots,                \* slots of recorded attestations
    AttestationEnabled,   \* TopicConfig.AttestationEnabled
    MaxSubnets,           \* TopicConfig.AttestationMaxSubnets
    DetectionWindow,      \* TopicConfig.MismatchDetectionWindow
    MismatchThreshold,    \* TopicConfig.MismatchThreshold
    CooldownPeriod,       \* TopicConfig.MismatchCooldown
    HighWaterMark,        \* TopicConfig.SubnetHighWaterMark
    Refreshers,           \* one id per call of StartSubnetRefresh (a bound)
    NoRefresher           \* refreshCancel is nil

ASSUME SubnetsAssumption ==
    /\ Subnets \subseteq Nat
    /\ SubnetLists \subseteq SUBSET Subnets
    /\ Slots \subseteq Nat

\* The configuration is not validated at run time: any integers may come.
ASSUME ConfigAssumption ==
    /\ AttestationEnabled \in BOOLEAN
    /\ MaxSubnets \in Int
    /\ DetectionWindow \in Int
    /\ MismatchThreshold \in Int
    /\ HighWaterMark \in Int
    /\ CooldownPeriod \in Nat

ASSUME RefreshersAssumption == NoRefresher \notin Refreshers

VARIABLES
    advertisedSubnets,    \* the subnets the node advertises
    selectedSubnet,       \* the one subnet whose attestations are forwarded
    seenSubnets,          \* subnets seen in the current window
    trackingStartSlot,    \* first slot of the window, 0 when there is none
    mismatchCount,        \* mismatching attestations in the window
    sinceMismatch,        \* time since the last signal
    reconnectClosed,      \* reconnectChan is closed
    onceDone,             \* reconnectOnce has run
    refreshCancel,        \* the goroutine tm.refreshCancel cancels
    refreshPC,            \* where each refresh goroutine is
    refreshCancelled,     \* its context is done
    fetchedSubnets        \* newSubnets of each goroutine

trackingVars == <<seenSubnets, trackingStartSlot, mismatchCount,
                  sinceMismatch, reconnectClosed, onceDone>>
subnetVars   == <<advertisedSubnets, selectedSubnet>>
refreshVars  == <<refreshCancel, refreshPC, refreshCancelled, fetchedSubnets>>
vars         == <<subnetVars, trackingVars, refreshVars>>

NoSubnet == -1

TypeOK ==
    /\ advertisedSubnets \in SUBSET Subnets
    /\ selectedSubnet \in Subnets \cup {NoSubnet}
    /\ seenSubnets \in SUBSET Subnets
    /\ trackingStartSlot \in Nat
    /\ mismatchCount \in Nat
    /\ sinceMismatch \in 0 .. CooldownPeriod
    /\ reconnectClosed \in BOOLEAN
    /\ onceDone \in BOOLEAN
    /\ refreshCancel \in Refreshers \cup {NoRefresher}
    /\ refreshPC \in [Refreshers -> {"unborn", "select", "fetch", "apply", "exited"}]
    /\ refreshCancelled \in [Refreshers -> BOOLEAN]
    /\ fetchedSubnets \in [Refreshers -> SUBSET Subnets]

\* lastMismatchTime is the zero time, so the first signal finds no cooldown.
Init ==
    /\ advertisedSubnets = {}
    /\ selectedSubnet = NoSubnet
    /\ seenSubnets = {}
    /\ trackingStartSlot = 0
    /\ mismatchCount = 0
    /\ sinceMismatch = CooldownPeriod
    /\ reconnectClosed = FALSE
    /\ onceDone = FALSE
    /\ refreshCancel = NoRefresher
    /\ refreshPC = [r \in Refreshers |-> "unborn"]
    /\ refreshCancelled = [r \in Refreshers |-> FALSE]
    /\ fetchedSubnets = [r \in Refreshers |-> {}]

-----------------------------------------------------------------------------
(* Advertised and selected subnets.                                        *)

\* Mutant: the random index is taken for the subnet.
Selectable_Index(subnets) ==
    IF subnets # {} /\ MaxSubnets > 0 /\ Cardinality(subnets) <= MaxSubnets
    THEN 0 .. (Cardinality(subnets) - 1)
    ELSE {NoSubnet}

\* The subnets one of which is selected at random: all of them when their
\* number is within the limit, none otherwise.
Selectable(subnets) ==
    IF subnets # {} /\ MaxSubnets > 0 /\ Cardinality(subnets) <= MaxSubnets
    THEN subnets
    ELSE {NoSubnet}

\* Mutant: the selection survives a change of the advertised subnets.
UpdateSubnets_KeepsSelection(subnets) ==
    /\ advertisedSubnets' = subnets
    /\ selectedSubnet' \in IF selectedSubnet = NoSubnet
                          THEN Selectable(subnets) ELSE {selectedSubnet}

UpdateSubnets(subnets) ==
    /\ advertisedSubnets' = subnets
    /\ selectedSubnet' \in Selectable(subnets)

SetAdvertisedSubnets(subnets) ==
    /\ UpdateSubnets(subnets)
    /\ UNCHANGED <<trackingVars, refreshVars>>

IsActiveSubnet(subnet) == selectedSubnet >= 0 /\ selectedSubnet = subnet

-----------------------------------------------------------------------------
(* Mismatch tracking.                                                      *)

checkForMismatch(seen) ==
    /\ advertisedSubnets # {}
    /\ Cardinality(seen \ advertisedSubnets) > HighWaterMark

\* The window's first slot when `slot' is recorded.  Slot 0 stands for "none".
WindowStart(slot) == IF trackingStartSlot = 0 THEN slot ELSE trackingStartSlot

\* Mutant: the window is one slot too long.
WindowOver_OffByOne(slot) == slot - WindowStart(slot) > DetectionWindow

\* int(slot - start) of two uint64: a slot before the window gives a negative
\* number, which never ends the window.
WindowOver(slot) == slot - WindowStart(slot) >= DetectionWindow

\* Mutant: a window counts once, however many of its attestations mismatch.
NextCount_OncePerWindow(count) == IF count = 0 THEN 1 ELSE count

NextCount(count) == IF count < MismatchThreshold THEN count + 1 ELSE count

\* time.Since(lastMismatchTime) >= cooldownPeriod.
CooldownElapsed == sinceMismatch >= CooldownPeriod

\* Once.Do: only the first call since the Once was made closes the channel.
signalReconnection ==
    IF onceDone THEN UNCHANGED <<reconnectClosed, onceDone>>
    ELSE reconnectClosed' = TRUE /\ onceDone' = TRUE

RecordAttestation(subnet, slot) ==
    /\ AttestationEnabled
    /\ ~reconnectClosed
    /\ LET seen     == (IF WindowOver(slot) THEN {} ELSE seenSubnets) \cup {subnet}
           count    == IF WindowOver(slot) THEN 0 ELSE mismatchCount
           newCount == IF checkForMismatch(seen) THEN NextCount(count) ELSE count
           signal   == /\ checkForMismatch(seen)
                       /\ newCount >= MismatchThreshold
                       /\ CooldownElapsed
       IN  /\ seenSubnets' = seen
           /\ trackingStartSlot' = IF WindowOver(slot) THEN slot ELSE WindowStart(slot)
           /\ mismatchCount' = newCount
           /\ IF signal
              THEN sinceMismatch' = 0 /\ signalReconnection
              ELSE UNCHANGED <<sinceMismatch, reconnectClosed, onceDone>>
    /\ UNCHANGED <<subnetVars, refreshVars>>

\* Mutant: the time of the last signal is forgotten too.
ResetAfterReconnection_ForgetsTime ==
    /\ mismatchCount' = 0
    /\ seenSubnets' = {}
    /\ trackingStartSlot' = 0
    /\ reconnectClosed' = FALSE
    /\ onceDone' = FALSE
    /\ sinceMismatch' = CooldownPeriod
    /\ UNCHANGED <<subnetVars, refreshVars>>

ResetAfterReconnection ==
    /\ mismatchCount' = 0
    /\ seenSubnets' = {}
    /\ trackingStartSlot' = 0
    /\ reconnectClosed' = FALSE
    /\ onceDone' = FALSE
    /\ UNCHANGED <<sinceMismatch, subnetVars, refreshVars>>

\* Time passes.
Tick ==
    /\ sinceMismatch < CooldownPeriod
    /\ sinceMismatch' = sinceMismatch + 1
    /\ UNCHANGED <<seenSubnets, trackingStartSlot, mismatchCount,
                   reconnectClosed, onceDone, subnetVars, refreshVars>>

-----------------------------------------------------------------------------
(* The refresh goroutine.                                                  *)

\* Mutant: the previous goroutine is not cancelled.
AfterCancel_Leaks == refreshCancelled

\* The contexts that are done once tm.refreshCancel, if any, is called.
AfterCancel == [r \in Refreshers |-> refreshCancelled[r] \/ r = refreshCancel]

StartSubnetRefresh(r) ==
    /\ refreshPC[r] = "unborn"
    /\ refreshCancelled' = AfterCancel
    /\ refreshCancel' = r
    /\ refreshPC' = [refreshPC EXCEPT ![r] = "select"]
    /\ UNCHANGED <<fetchedSubnets, subnetVars, trackingVars>>

StopSubnetRefresh ==
    /\ refreshCancel # NoRefresher
    /\ refreshCancelled' = AfterCancel
    /\ refreshCancel' = NoRefresher
    /\ UNCHANGED <<refreshPC, fetchedSubnets, subnetVars, trackingVars>>

\* The context given to StartSubnetRefresh is cancelled by its owner.
ParentCancelled(r) ==
    /\ refreshPC[r] \notin {"unborn", "exited"}
    /\ ~refreshCancelled[r]
    /\ refreshCancelled' = [refreshCancelled EXCEPT ![r] = TRUE]
    /\ UNCHANGED <<refreshCancel, refreshPC, fetchedSubnets, subnetVars, trackingVars>>

\* The two cases of the goroutine's select.  When the ticker has fired and the
\* context is done, Go takes either.
RefreshTick(r) ==
    /\ refreshPC[r] = "select"
    /\ refreshPC' = [refreshPC EXCEPT ![r] = "fetch"]
    /\ UNCHANGED <<refreshCancel, refreshCancelled, fetchedSubnets, subnetVars, trackingVars>>

RefreshExit(r) ==
    /\ refreshPC[r] = "select"
    /\ refreshCancelled[r]
    /\ refreshPC' = [refreshPC EXCEPT ![r] = "exited"]
    /\ UNCHANGED <<refreshCancel, refreshCancelled, fetchedSubnets, subnetVars, trackingVars>>

\* nodeIdentityFetcher() returns a list, or nil when the request fails.
FetchOk(r, subnets) ==
    /\ refreshPC[r] = "fetch"
    /\ refreshPC' = [refreshPC EXCEPT ![r] = "apply"]
    /\ fetchedSubnets' = [fetchedSubnets EXCEPT ![r] = subnets]
    /\ UNCHANGED <<refreshCancel, refreshCancelled, subnetVars, trackingVars>>

FetchNil(r) ==
    /\ refreshPC[r] = "fetch"
    /\ refreshPC' = [refreshPC EXCEPT ![r] = "select"]
    /\ UNCHANGED <<refreshCancel, refreshCancelled, fetchedSubnets, subnetVars, trackingVars>>

\* The update, under tm.mu.  The context is not looked at again.
RefreshApply(r) ==
    /\ refreshPC[r] = "apply"
    /\ refreshPC' = [refreshPC EXCEPT ![r] = "select"]
    /\ IF fetchedSubnets[r] # advertisedSubnets
       THEN UpdateSubnets(fetchedSubnets[r])
       ELSE UNCHANGED subnetVars
    /\ UNCHANGED <<refreshCancel, refreshCancelled, fetchedSubnets, trackingVars>>

-----------------------------------------------------------------------------
RefreshStep(r) ==
    \/ RefreshTick(r)
    \/ RefreshExit(r)
    \/ \E subnets \in SubnetLists : FetchOk(r, subnets)
    \/ FetchNil(r)
    \/ RefreshApply(r)

Next ==
    \/ \E subnets \in SubnetLists : SetAdvertisedSubnets(subnets)
    \/ \E subnet \in Subnets, slot \in Slots : RecordAttestation(subnet, slot)
    \/ ResetAfterReconnection
    \/ Tick
    \/ \E r \in Refreshers : StartSubnetRefresh(r)
    \/ StopSubnetRefresh
    \/ \E r \in Refreshers : ParentCancelled(r)
    \/ \E r \in Refreshers : RefreshStep(r)

Spec == Init /\ [][Next]_vars

-----------------------------------------------------------------------------
(* Properties.                                                             *)

\* Attestations are forwarded for a subnet only while the node advertises it
\* and advertises no more than the limit, whichever of SetAdvertisedSubnets and
\* the refresh goroutines wrote last; and one is selected whenever that holds.
SelectionMatchesAdvertised ==
    selectedSubnet \in Selectable(advertisedSubnets)

\* reconnectChan is closed exactly when reconnectOnce has run: a signal is never
\* swallowed by a spent Once on an open channel.
OnceMatchesChannel == reconnectClosed = onceDone

\* The channel handed out by NeedsReconnection behaves as ReconnectSignal says:
\* one signal until it is rearmed, and a cooldown between any two signals even
\* when ResetAfterReconnection rearms it in between.
Signal == INSTANCE ReconnectSignal WITH fired <- reconnectClosed, quiet <- sinceMismatch

ImplementsReconnectSignal == Signal!Spec

\* Every refresh goroutine whose context is not done is the one StopSubnetRefresh
\* would cancel: restarting the refresh leaks no goroutine.
NoLeakedRefresher ==
    \A r \in Refreshers :
        refreshPC[r] # "unborn" /\ ~refreshCancelled[r] => r = refreshCancel
=============================================================================
