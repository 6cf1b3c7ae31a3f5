-------------------------- MODULE TopicManagerProofs --------------------------
(***************************************************************************)
(* Theorems about TopicManager, for every value of its constants; about the  *)
(* signals it gives, judged by TopicManagerHistory; and about the wrapper    *)
(* around it in SubnetTracking, whose steps are steps of the topic manager,  *)
(* so that all of the former hold there too.                                *)
(***************************************************************************)
EXTENDS TopicManagerHistory, SubnetTracking, FiniteSetTheorems, TLAPS

USE SubnetsAssumption, ConfigAssumption, RefreshersAssumption

\* The candidates for the selection are subnets, or the "no subnet" mark.
LEMMA SelectableType ==
    ASSUME NEW subnets \in SUBSET Subnets
    PROVE  Selectable(subnets) \subseteq Subnets \cup {NoSubnet}
  BY DEF Selectable

\* Both writers of the selection keep its type.
LEMMA UpdateSubnetsType ==
    ASSUME NEW subnets \in SUBSET Subnets, UpdateSubnets(subnets)
    PROVE  /\ advertisedSubnets' \in SUBSET Subnets
           /\ selectedSubnet' \in Subnets \cup {NoSubnet}
  BY SelectableType DEF UpdateSubnets

-----------------------------------------------------------------------------
(* Type correctness.                                                       *)

\* Recording an attestation keeps every variable in its type.
LEMMA RecordType ==
    ASSUME TypeOK, NEW subnet \in Subnets, NEW slot \in Slots,
           RecordAttestation(subnet, slot)
    PROVE  TypeOK'
  <1>1. slot \in Nat
    OBVIOUS
  <1>2. WindowStart(slot) \in Nat
    BY <1>1 DEF WindowStart, TypeOK
  <1>3. trackingStartSlot' \in Nat
    BY <1>1, <1>2 DEF RecordAttestation
  <1>4. seenSubnets' \in SUBSET Subnets
    BY DEF RecordAttestation, TypeOK
  <1>5. mismatchCount' \in Nat
    <2>1. ASSUME NEW n \in Nat PROVE NextCount(n) \in Nat
      BY DEF NextCount
    <2> QED BY <2>1 DEF RecordAttestation, TypeOK
  <1>6. /\ sinceMismatch' \in 0 .. CooldownPeriod
        /\ reconnectClosed' \in BOOLEAN
        /\ onceDone' \in BOOLEAN
    <2>1. \/ sinceMismatch' = 0 /\ signalReconnection
          \/ UNCHANGED <<sinceMismatch, reconnectClosed, onceDone>>
      BY Zenon DEF RecordAttestation
    <2>2. sinceMismatch' \in 0 .. CooldownPeriod
      BY <2>1 DEF TypeOK
    <2>3. reconnectClosed' \in BOOLEAN /\ onceDone' \in BOOLEAN
      BY Zenon, <2>1 DEF signalReconnection, TypeOK
    <2> QED BY <2>2, <2>3
  <1> QED
    BY <1>3, <1>4, <1>5, <1>6 DEF RecordAttestation, TypeOK, subnetVars, refreshVars

\* Every step of a refresh goroutine keeps every variable in its type.
LEMMA RefreshStepType ==
    ASSUME TypeOK, NEW r \in Refreshers, RefreshStep(r)
    PROVE  TypeOK'
  <1>1. CASE RefreshTick(r)
    BY <1>1 DEF RefreshTick, TypeOK, subnetVars, trackingVars
  <1>2. CASE RefreshExit(r)
    BY <1>2 DEF RefreshExit, TypeOK, subnetVars, trackingVars
  <1>3. ASSUME NEW subnets \in SubnetLists, FetchOk(r, subnets) PROVE TypeOK'
    BY <1>3 DEF FetchOk, TypeOK, subnetVars, trackingVars
  <1>4. CASE FetchNil(r)
    BY <1>4 DEF FetchNil, TypeOK, subnetVars, trackingVars
  <1>5. CASE RefreshApply(r)
    <2>1. /\ advertisedSubnets' \in SUBSET Subnets
          /\ selectedSubnet' \in Subnets \cup {NoSubnet}
      BY <1>5, UpdateSubnetsType DEF RefreshApply, TypeOK, subnetVars
    <2> QED BY <1>5, <2>1 DEF RefreshApply, TypeOK, trackingVars
  <1> QED BY <1>1, <1>2, <1>3, <1>4, <1>5 DEF RefreshStep

\* Every operation of the topic manager keeps its types.
LEMMA NextType ==
    ASSUME TypeOK, [Next]_vars
    PROVE  TypeOK'
  <1>1. ASSUME NEW subnets \in SubnetLists, SetAdvertisedSubnets(subnets) PROVE TypeOK'
    <2>1. /\ advertisedSubnets' \in SUBSET Subnets
          /\ selectedSubnet' \in Subnets \cup {NoSubnet}
      BY <1>1, UpdateSubnetsType DEF SetAdvertisedSubnets
    <2> QED BY <1>1, <2>1 DEF SetAdvertisedSubnets, TypeOK, trackingVars, refreshVars
  <1>2. ASSUME NEW subnet \in Subnets, NEW slot \in Slots,
               RecordAttestation(subnet, slot)
        PROVE  TypeOK'
    BY <1>2, RecordType
  <1>3. CASE ResetAfterReconnection
    BY <1>3 DEF ResetAfterReconnection, TypeOK, subnetVars, refreshVars
  <1>4. CASE Tick
    BY <1>4 DEF Tick, TypeOK, subnetVars, refreshVars
  <1>5. ASSUME NEW r \in Refreshers, StartSubnetRefresh(r) PROVE TypeOK'
    BY <1>5 DEF StartSubnetRefresh, AfterCancel, TypeOK, subnetVars, trackingVars
  <1>6. CASE StopSubnetRefresh
    BY <1>6 DEF StopSubnetRefresh, AfterCancel, TypeOK, subnetVars, trackingVars
  <1>7. ASSUME NEW r \in Refreshers, ParentCancelled(r) PROVE TypeOK'
    BY <1>7 DEF ParentCancelled, TypeOK, subnetVars, trackingVars
  <1>8. ASSUME NEW r \in Refreshers, RefreshStep(r) PROVE TypeOK'
    BY <1>8, RefreshStepType
  <1>9. CASE UNCHANGED vars
    BY <1>9 DEF vars, TypeOK, subnetVars, trackingVars, refreshVars
  <1> QED BY <1>1, <1>2, <1>3, <1>4, <1>5, <1>6, <1>7, <1>8, <1>9 DEF Next

\* Type correctness: every reachable state of the tracker has the types its
\* fields have in the code.
THEOREM TypeCorrect == Spec => []TypeOK
  <1>1. Init => TypeOK
    <2> SUFFICES ASSUME Init PROVE TypeOK
      OBVIOUS
    <2>1. sinceMismatch \in 0 .. CooldownPeriod
      BY DEF Init
    <2>2. /\ refreshPC \in [Refreshers -> {"unborn", "select", "fetch", "apply", "exited"}]
          /\ refreshCancelled \in [Refreshers -> BOOLEAN]
          /\ fetchedSubnets \in [Refreshers -> SUBSET Subnets]
      BY DEF Init
    <2> QED BY <2>1, <2>2 DEF Init, TypeOK
  <1>2. TypeOK /\ [Next]_vars => TypeOK'
    BY NextType
  <1> QED BY <1>1, <1>2, PTL DEF Spec

-----------------------------------------------------------------------------
(* Selection.                                                              *)

\* Only SetAdvertisedSubnets and RefreshApply touch the advertised subnets and
\* the selection, and both do it through UpdateSubnets.
LEMMA SubnetWriters ==
    ASSUME [Next]_vars
    PROVE  UNCHANGED subnetVars \/ \E subnets : UpdateSubnets(subnets)
  <1>1. ASSUME NEW r \in Refreshers, RefreshStep(r)
        PROVE  UNCHANGED subnetVars \/ \E subnets : UpdateSubnets(subnets)
    BY <1>1 DEF RefreshStep, RefreshTick, RefreshExit, FetchOk, FetchNil, RefreshApply
  <1> QED
    BY <1>1 DEF Next, vars, SetAdvertisedSubnets, RecordAttestation,
                ResetAfterReconnection, Tick, StartSubnetRefresh,
                StopSubnetRefresh, ParentCancelled

\* The advertised subnets and the selection are written together, or not at all.
LEMMA NextSelection ==
    ASSUME SelectionMatchesAdvertised, [Next]_vars
    PROVE  SelectionMatchesAdvertised'
  <1>1. CASE UNCHANGED subnetVars
    BY <1>1 DEF subnetVars, SelectionMatchesAdvertised, Selectable
  <1>2. ASSUME NEW subnets, UpdateSubnets(subnets) PROVE SelectionMatchesAdvertised'
    BY <1>2 DEF UpdateSubnets, SelectionMatchesAdvertised, Selectable
  <1> QED BY <1>1, <1>2, SubnetWriters

\* Whichever of SetAdvertisedSubnets and the refresh goroutines wrote last, the
\* selected subnet is one the node advertises within the limit, and there is one
\* whenever the limit allows it.  The invariant is inductive as it stands.
THEOREM SelectionSafe == Spec => []SelectionMatchesAdvertised
  <1>1. Init => SelectionMatchesAdvertised
    BY DEF Init, SelectionMatchesAdvertised, Selectable
  <1>2. SelectionMatchesAdvertised /\ [Next]_vars => SelectionMatchesAdvertised'
    BY NextSelection
  <1> QED BY <1>1, <1>2, PTL DEF Spec

-----------------------------------------------------------------------------
(* The reconnection signal.                                                *)

\* What a recorded attestation does to the signal: nothing, or it closes an open
\* channel after the cooldown has elapsed.
LEMMA RecordSignals ==
    ASSUME TypeOK, OnceMatchesChannel, NEW subnet, NEW slot,
           RecordAttestation(subnet, slot)
    PROVE  \/ UNCHANGED <<sinceMismatch, reconnectClosed, onceDone>>
           \/ /\ ~reconnectClosed
              /\ sinceMismatch = CooldownPeriod
              /\ sinceMismatch' = 0
              /\ reconnectClosed' = TRUE
              /\ onceDone' = TRUE
  <1>1. \/ UNCHANGED <<sinceMismatch, reconnectClosed, onceDone>>
        \/ CooldownElapsed /\ sinceMismatch' = 0 /\ signalReconnection
    BY Zenon DEF RecordAttestation
  <1>2. ~reconnectClosed /\ ~onceDone
    BY Zenon DEF RecordAttestation, OnceMatchesChannel
  <1>3. CooldownElapsed => sinceMismatch = CooldownPeriod
    BY DEF CooldownElapsed, TypeOK
  <1> QED BY Zenon, <1>1, <1>2, <1>3 DEF signalReconnection

\* The once and the channel are spent together and renewed together.
LEMMA NextOnce ==
    ASSUME TypeOK, OnceMatchesChannel, [Next]_vars
    PROVE  OnceMatchesChannel'
  <1>1. ASSUME NEW subnet, NEW slot, RecordAttestation(subnet, slot)
        PROVE  OnceMatchesChannel'
    <2>1. \/ reconnectClosed' = reconnectClosed /\ onceDone' = onceDone
          \/ reconnectClosed' = TRUE /\ onceDone' = TRUE
      BY <1>1, RecordSignals
    <2> QED BY <2>1 DEF OnceMatchesChannel
  <1>2. CASE ResetAfterReconnection
    BY <1>2 DEF ResetAfterReconnection, OnceMatchesChannel
  <1>3. CASE reconnectClosed' = reconnectClosed /\ onceDone' = onceDone
    BY <1>3 DEF OnceMatchesChannel
  <1>4. \/ \E subnet, slot : RecordAttestation(subnet, slot)
        \/ ResetAfterReconnection
        \/ reconnectClosed' = reconnectClosed /\ onceDone' = onceDone
    BY DEF Next, vars, trackingVars, SetAdvertisedSubnets, Tick,
           StartSubnetRefresh, StopSubnetRefresh, ParentCancelled, RefreshStep,
           RefreshTick, RefreshExit, FetchOk, FetchNil, RefreshApply
  <1> QED BY <1>1, <1>2, <1>3, <1>4

\* The Once is spent exactly when the channel it guards is closed, so a signal
\* is neither lost on an open channel nor sent twice on a closed one.
THEOREM OnceSafe == Spec => []OnceMatchesChannel
  <1>1. Init => OnceMatchesChannel
    BY DEF Init, OnceMatchesChannel
  <1>2. TypeOK /\ OnceMatchesChannel /\ [Next]_vars => OnceMatchesChannel'
    BY NextOnce
  <1> QED BY <1>1, <1>2, TypeCorrect, PTL DEF Spec

\* A step of the topic manager is a step of the abstract signal, or none.
LEMMA NextSignal ==
    ASSUME TypeOK, OnceMatchesChannel, [Next]_vars
    PROVE  [Signal!Next]_<<reconnectClosed, sinceMismatch>>
  <1>1. ASSUME NEW subnet, NEW slot, RecordAttestation(subnet, slot)
        PROVE  \/ Signal!Fire
               \/ UNCHANGED <<reconnectClosed, sinceMismatch>>
    BY <1>1, RecordSignals, Zenon DEF Signal!Fire
  <1>2. CASE ResetAfterReconnection
    <2>1. CASE reconnectClosed = TRUE
      BY <1>2, <2>1 DEF ResetAfterReconnection, Signal!Rearm, Signal!Next
    <2>2. CASE reconnectClosed = FALSE
      BY <1>2, <2>2 DEF ResetAfterReconnection
    <2> QED BY <2>1, <2>2 DEF TypeOK
  <1>3. CASE Tick
    BY <1>3 DEF Tick, Signal!Tick, Signal!Next
  <1>4. \/ \E subnet, slot : RecordAttestation(subnet, slot)
        \/ ResetAfterReconnection
        \/ Tick
        \/ UNCHANGED <<reconnectClosed, sinceMismatch>>
    BY DEF Next, vars, trackingVars, SetAdvertisedSubnets,
           StartSubnetRefresh, StopSubnetRefresh, ParentCancelled, RefreshStep,
           RefreshTick, RefreshExit, FetchOk, FetchNil, RefreshApply
  <1> QED BY <1>1, <1>2, <1>3, <1>4 DEF Signal!Next

\* The tracker implements the abstract signal: each of its steps fires it, rearms
\* it, lets time pass or leaves it alone.  OnceMatchesChannel is what makes the
\* call of signalReconnection close the channel.
THEOREM SignalRefinement == Spec => ImplementsReconnectSignal
  <1>1. Init => Signal!Init
    BY DEF Init, Signal!Init
  <1>2. TypeOK /\ OnceMatchesChannel /\ [Next]_vars => [Signal!Next]_<<reconnectClosed, sinceMismatch>>
    BY NextSignal
  <1> QED BY <1>1, <1>2, TypeCorrect, OnceSafe, PTL
          DEF Spec, ImplementsReconnectSignal, Signal!Spec

-----------------------------------------------------------------------------
(* Refresh goroutines.                                                     *)

\* Starting a refresh cancels the one whose cancel function was held.
LEMMA NextNoLeak ==
    ASSUME TypeOK, NoLeakedRefresher, [Next]_vars
    PROVE  NoLeakedRefresher'
  <1>1. ASSUME NEW r \in Refreshers, StartSubnetRefresh(r) PROVE NoLeakedRefresher'
    BY <1>1 DEF StartSubnetRefresh, AfterCancel, TypeOK, NoLeakedRefresher
  <1>2. CASE StopSubnetRefresh
    BY <1>2 DEF StopSubnetRefresh, AfterCancel, TypeOK, NoLeakedRefresher
  <1>3. ASSUME NEW r \in Refreshers, ParentCancelled(r) PROVE NoLeakedRefresher'
    BY <1>3 DEF ParentCancelled, TypeOK, NoLeakedRefresher
  <1>4. ASSUME NEW r \in Refreshers, RefreshStep(r) PROVE NoLeakedRefresher'
    <2>1. /\ UNCHANGED <<refreshCancel, refreshCancelled>>
          /\ refreshPC[r] # "unborn"
          /\ \A q \in Refreshers \ {r} : refreshPC'[q] = refreshPC[q]
      BY <1>4 DEF RefreshStep, RefreshTick, RefreshExit, FetchOk, FetchNil,
                  RefreshApply, TypeOK
    <2> QED BY <2>1 DEF NoLeakedRefresher
  <1>5. CASE UNCHANGED <<refreshCancel, refreshPC, refreshCancelled>>
    BY <1>5 DEF NoLeakedRefresher
  <1>6. \/ \E r \in Refreshers : \/ StartSubnetRefresh(r)
                                 \/ ParentCancelled(r)
                                 \/ RefreshStep(r)
        \/ StopSubnetRefresh
        \/ UNCHANGED <<refreshCancel, refreshPC, refreshCancelled>>
    BY DEF Next, vars, refreshVars, SetAdvertisedSubnets, RecordAttestation,
           ResetAfterReconnection, Tick
  <1> QED BY <1>1, <1>2, <1>3, <1>4, <1>5, <1>6

\* Whatever the order of starts, stops and cancellations, the only refresh
\* goroutine with a live context is the one StopSubnetRefresh cancels.
THEOREM NoLeak == Spec => []NoLeakedRefresher
  <1>1. Init => NoLeakedRefresher
    BY DEF Init, NoLeakedRefresher
  <1>2. TypeOK /\ NoLeakedRefresher /\ [Next]_vars => NoLeakedRefresher'
    BY NextNoLeak
  <1> QED BY <1>1, <1>2, TypeCorrect, PTL DEF Spec

-----------------------------------------------------------------------------
(* The signals: justified by what was recorded, and brought by it.          *)

HistoryType ==
    /\ lastSlot \in [Subnets -> Int]
    /\ latestSlot \in Int
    /\ inOrder \in BOOLEAN
    /\ slotMismatches \in Nat

\* The window of the latest slot is the present one: a window once begun holds the
\* latest slot, and none has begun only while nothing but slot 0 was recorded.
WindowHoldsLatest ==
    /\ \A s \in Subnets : lastSlot[s] <= latestSlot
    /\ IF trackingStartSlot = 0
       THEN latestSlot <= 0
       ELSE /\ trackingStartSlot <= latestSlot
            /\ latestSlot - trackingStartSlot < DetectionWindow

\* The bookkeeping has everything that the latest slot shows.
LatestSlotCounted ==
    /\ slotMismatches <= mismatchCount
    /\ \A s \in Subnets : lastSlot[s] = latestSlot /\ latestSlot # -1 => s \in seenSubnets

\* It has nothing from before the window, as long as the slots come in order and
\* none of them is the slot that stands for "none".
NothingOlder ==
    0 \notin Slots =>
        /\ trackingStartSlot = 0 => seenSubnets = {}
        /\ inOrder => \A s \in seenSubnets : lastSlot[s] >= trackingStartSlot

HistoryInv == HistoryType /\ WindowHoldsLatest /\ LatestSlotCounted /\ NothingOlder

\* The history variables only watch: without them it is the topic manager.
LEMMA HistoryIsSpec == HSpec => Spec
  <1>1. HInit => Init
    BY DEF HInit
  <1>2. [HNext]_hvars => [Next]_vars
    BY DEF HNext, HSetAdvertised, HRecord, HReset, HTick, Next, hvars
  <1> QED
    BY <1>1, <1>2, PTL DEF HSpec, Spec

\* Nothing has been recorded.
LEMMA HistoryInit == HInit => HistoryInv
  BY DEF HInit, Init, NothingRecorded, HistoryInv, HistoryType, WindowHoldsLatest,
         LatestSlotCounted, NothingOlder

\* Where the window lies after an attestation is recorded.
LEMMA RecordWindow ==
    ASSUME TypeOK, HistoryInv, NEW subnet \in Subnets, NEW slot \in Slots, HRecord(subnet, slot)
    PROVE  /\ slot \in Nat
           /\ HistoryType'
           /\ WindowHoldsLatest'
           /\ slot >= latestSlot => latestSlot' = slot
           /\ slot <= latestSlot => ~WindowOver(slot)
           /\ lastSlot'[subnet] >= slot
           /\ \A s \in Subnets \ {subnet} : lastSlot'[s] = lastSlot[s]
  <1>1. slot \in Nat
    BY SubnetsAssumption
  <1>2. /\ lastSlot' = [lastSlot EXCEPT ![subnet] = Later(lastSlot[subnet], slot)]
        /\ latestSlot' = Later(latestSlot, slot)
        /\ trackingStartSlot' = IF WindowOver(slot) THEN slot ELSE WindowStart(slot)
    BY DEF HRecord, RecordAttestation, HistoryInv, HistoryType
  <1>3. HistoryType'
    <2>1. lastSlot' \in [Subnets -> Int] /\ latestSlot' \in Int /\ inOrder' \in BOOLEAN
      BY <1>1, <1>2 DEF Later, HRecord, HistoryInv, HistoryType
    <2>2. slotMismatches' \in Nat
      BY DEF HRecord, HistoryInv, HistoryType
    <2> QED
      BY <2>1, <2>2 DEF HistoryType
  <1>4. slot <= latestSlot => ~WindowOver(slot)
    BY <1>1, WindowAssumption DEF WindowOver, WindowStart, TypeOK, HistoryInv, HistoryType, WindowHoldsLatest
  <1>5. /\ slot >= latestSlot => latestSlot' = slot
        /\ slot < latestSlot => latestSlot' = latestSlot
        /\ lastSlot'[subnet] >= slot
        /\ \A s \in Subnets \ {subnet} : lastSlot'[s] = lastSlot[s]
        /\ \A s \in Subnets : lastSlot'[s] <= latestSlot'
    BY <1>1, <1>2 DEF Later, HistoryInv, HistoryType, WindowHoldsLatest
  <1>6. IF trackingStartSlot' = 0
        THEN latestSlot' <= 0
        ELSE /\ trackingStartSlot' <= latestSlot'
             /\ latestSlot' - trackingStartSlot' < DetectionWindow
    <2>1. CASE slot >= latestSlot
      BY <1>1, <1>2, <1>5, <2>1, WindowAssumption
         DEF WindowOver, WindowStart, TypeOK, HistoryInv, HistoryType, WindowHoldsLatest
    <2>2. CASE slot < latestSlot
      BY <1>1, <1>2, <1>4, <1>5, <2>2, WindowAssumption
         DEF WindowStart, TypeOK, HistoryInv, HistoryType, WindowHoldsLatest
    <2> QED
      BY <1>1, <2>1, <2>2 DEF HistoryInv, HistoryType
  <1> QED
    BY <1>1, <1>3, <1>4, <1>5, <1>6 DEF WindowHoldsLatest

\* What seenSubnets and mismatchCount become.
LEMMA RecordCounts ==
    ASSUME TypeOK, NEW subnet \in Subnets, NEW slot \in Slots, HRecord(subnet, slot)
    PROVE  /\ seenSubnets' = (IF WindowOver(slot) THEN {} ELSE seenSubnets) \cup {subnet}
           /\ advertisedSubnets' = advertisedSubnets
           /\ mismatchCount' = LET count == IF WindowOver(slot) THEN 0 ELSE mismatchCount
                               IN  IF checkForMismatch(seenSubnets') THEN NextCount(count) ELSE count
           /\ mismatchCount' \in Nat
  BY DEF HRecord, RecordAttestation, subnetVars, NextCount, TypeOK

\* A mismatch that the latest slot shows is one to checkForMismatch.
LEMMA ShownIsChecked ==
    ASSUME TypeOK, TypeOK', HistoryInv, NEW subnet \in Subnets, NEW slot \in Slots,
           HRecord(subnet, slot), slot = latestSlot'
    PROVE  /\ \A s \in Subnets : lastSlot'[s] = slot => s \in seenSubnets'
           /\ ShownBySlot(slot, lastSlot') => checkForMismatch(seenSubnets')
  <1>1. \A s \in Subnets : lastSlot'[s] = slot => s \in seenSubnets'
    <2> SUFFICES ASSUME NEW s \in Subnets, lastSlot'[s] = slot, s # subnet
                 PROVE  s \in seenSubnets'
      BY RecordCounts
    <2>1. lastSlot[s] = slot /\ lastSlot[s] <= latestSlot
      BY RecordWindow DEF HistoryInv, WindowHoldsLatest
    <2>2. slot \in Nat /\ latestSlot \in Int
      BY RecordWindow DEF HistoryInv, HistoryType
    <2>3. slot = latestSlot /\ latestSlot # -1
      BY <2>1, <2>2, RecordWindow DEF HRecord, Later
    <2>4. s \in seenSubnets /\ ~WindowOver(slot)
      BY <2>1, <2>2, <2>3, RecordWindow DEF HistoryInv, LatestSlotCounted
    <2> QED
      BY <2>4, RecordCounts
  <1>2. ASSUME ShownBySlot(slot, lastSlot')
        PROVE  checkForMismatch(seenSubnets')
    <2> DEFINE Shown == {s \in Subnets \ advertisedSubnets : lastSlot'[s] = slot}
    <2>1. Shown \subseteq seenSubnets' \ advertisedSubnets
      BY <1>1
    <2>2. IsFiniteSet(seenSubnets' \ advertisedSubnets)
      BY WindowAssumption, FS_Subset DEF TypeOK
    <2>3. Cardinality(Shown) <= Cardinality(seenSubnets' \ advertisedSubnets)
      BY <2>1, <2>2, FS_Subset
    <2>4. Cardinality(Shown) \in Nat /\ Cardinality(seenSubnets' \ advertisedSubnets) \in Nat
      BY <2>1, <2>2, FS_Subset, FS_CardinalityType
    <2>5. advertisedSubnets # {} /\ Cardinality(Shown) > HighWaterMark
      BY <1>2 DEF ShownBySlot
    <2> HIDE DEF Shown
    <2> QED
      BY <2>3, <2>4, <2>5, ConfigAssumption DEF checkForMismatch
  <1> QED
    BY <1>1, <1>2

\* Recording an attestation keeps the history in step with the window.
LEMMA HistoryRecord ==
    ASSUME TypeOK, TypeOK', HistoryInv, NEW subnet \in Subnets, NEW slot \in Slots,
           HRecord(subnet, slot)
    PROVE  HistoryInv'
  <1>1. slot \in Nat /\ HistoryType' /\ WindowHoldsLatest'
    BY RecordWindow
  <1>2. LatestSlotCounted'
    <2>1. CASE slot >= latestSlot
      <3>1. slot = latestSlot'
        BY <2>1, RecordWindow
      <3>2. \A s \in Subnets : lastSlot'[s] = latestSlot' => s \in seenSubnets'
        BY <3>1, ShownIsChecked
      <3>3. slotMismatches' <= mismatchCount'
        <4> DEFINE before == IF slot > latestSlot THEN 0 ELSE slotMismatches
                   count == IF WindowOver(slot) THEN 0 ELSE mismatchCount
        <4>1. before \in Nat /\ count \in Nat /\ before <= count
          BY <2>1, RecordWindow DEF HistoryInv, HistoryType, LatestSlotCounted, TypeOK
        <4>2. mismatchCount' = IF checkForMismatch(seenSubnets') THEN NextCount(count) ELSE count
          BY RecordCounts
        <4>3. slotMismatches' = IF ShownBySlot(slot, lastSlot') /\ before < MismatchThreshold
                                THEN before + 1 ELSE before
          BY <2>1 DEF HRecord
        <4>4. ShownBySlot(slot, lastSlot') => checkForMismatch(seenSubnets')
          BY <3>1, ShownIsChecked
        <4> HIDE DEF before, count
        <4> QED
          BY <4>1, <4>2, <4>3, <4>4, ConfigAssumption DEF NextCount
      <3> QED
        BY <3>2, <3>3 DEF LatestSlotCounted
    <2>2. CASE slot < latestSlot
      <3>1. ~WindowOver(slot) /\ latestSlot' = latestSlot
        <4>1. slot <= latestSlot /\ latestSlot > slot
          BY <1>1, <2>2 DEF HistoryInv, HistoryType
        <4>2. ~WindowOver(slot)
          BY <4>1, RecordWindow
        <4>3. latestSlot' = latestSlot
          BY <4>1 DEF HRecord, Later
        <4> QED
          BY <4>2, <4>3
      <3>2. slotMismatches' = slotMismatches
        BY <1>1, <2>2 DEF HRecord, HistoryInv, HistoryType
      <3>3. mismatchCount' >= mismatchCount
        BY <3>1, RecordCounts, ConfigAssumption DEF NextCount, TypeOK
      <3>4. \A s \in Subnets : lastSlot'[s] = latestSlot' /\ latestSlot' # -1 => s \in seenSubnets'
        BY <3>1, RecordCounts, RecordWindow DEF HistoryInv, LatestSlotCounted
      <3> QED
        BY <1>1, <3>2, <3>3, <3>4 DEF LatestSlotCounted, HistoryInv, HistoryType, TypeOK
    <2> QED
      BY <1>1, <2>1, <2>2 DEF HistoryInv, HistoryType
  <1>3. NothingOlder'
    <2> SUFFICES ASSUME 0 \notin Slots
                 PROVE  /\ trackingStartSlot' = 0 => seenSubnets' = {}
                        /\ inOrder' => \A s \in seenSubnets' : lastSlot'[s] >= trackingStartSlot'
      BY DEF NothingOlder
    <2>1. trackingStartSlot' = (IF WindowOver(slot) THEN slot ELSE WindowStart(slot)) /\ slot # 0
      BY DEF HRecord, RecordAttestation
    <2>2. trackingStartSlot' # 0
      BY <1>1, <2>1 DEF WindowStart, TypeOK
    <2>3. ASSUME inOrder', NEW s \in seenSubnets'
          PROVE  lastSlot'[s] >= trackingStartSlot'
      <3>1. inOrder /\ slot >= latestSlot
        BY <2>3 DEF HRecord
      <3>2. trackingStartSlot' <= slot
        BY <1>1, <2>1, <3>1 DEF WindowStart, TypeOK, HistoryInv, HistoryType, WindowHoldsLatest
      <3>3. CASE s = subnet
        BY <1>1, <3>2, <3>3, RecordWindow DEF HistoryType, TypeOK
      <3>4. CASE s # subnet
        <4>1. s \in seenSubnets /\ ~WindowOver(slot) /\ s \in Subnets
          BY <2>3, <3>4, RecordCounts DEF TypeOK
        <4>2. trackingStartSlot # 0 /\ trackingStartSlot' = trackingStartSlot
          BY <2>1, <4>1 DEF HistoryInv, NothingOlder, WindowStart
        <4>3. lastSlot'[s] = lastSlot[s] /\ lastSlot[s] >= trackingStartSlot
          BY <3>1, <3>4, <4>1, RecordWindow DEF HistoryInv, NothingOlder
        <4> QED
          BY <4>2, <4>3
      <3> QED
        BY <3>3, <3>4
    <2> QED
      BY <2>2, <2>3
  <1> QED
    BY <1>1, <1>2, <1>3 DEF HistoryInv

\* The other operations record nothing, or start afresh.
LEMMA HistoryNext ==
    ASSUME TypeOK, TypeOK', HistoryInv, [HNext]_hvars
    PROVE  HistoryInv'
  <1>1. CASE HReset
    BY <1>1 DEF HReset, ResetAfterReconnection, NothingRecorded, HistoryInv, HistoryType,
                WindowHoldsLatest, LatestSlotCounted, NothingOlder
  <1>2. CASE HTick \/ HSetAdvertised \/ UNCHANGED hvars
    <2>1. UNCHANGED <<historyVars, seenSubnets, trackingStartSlot, mismatchCount>>
      BY <1>2 DEF HTick, Tick, HSetAdvertised, SetAdvertisedSubnets, hvars, vars, trackingVars
    <2> QED
      BY <2>1 DEF historyVars, HistoryInv, HistoryType, WindowHoldsLatest, LatestSlotCounted, NothingOlder
  <1> QED
    BY <1>1, <1>2, HistoryRecord DEF HNext

\* The window and its history agree in every state of every run.
LEMMA HistoryHolds == HSpec => [](TypeOK /\ OnceMatchesChannel /\ HistoryInv)
  <1>1. TypeOK /\ TypeOK' /\ HistoryInv /\ [HNext]_hvars => HistoryInv'
    BY HistoryNext
  <1> QED
    BY <1>1, HistoryInit, HistoryIsSpec, TypeCorrect, OnceSafe, PTL DEF HSpec

-----------------------------------------------------------------------------
\* RecordAttestation misses no mismatch: when the attestations of the latest slot
\* alone show one often enough it signals, whatever older ones have joined the
\* window and wherever the windows began.
THEOREM Detection == HSpec => MismatchDetected
  <1>1. TypeOK /\ TypeOK' /\ OnceMatchesChannel /\ HistoryInv /\ HistoryInv' =>
          \A subnet \in Subnets, slot \in Slots :
             /\ HRecord(subnet, slot)
             /\ slot = latestSlot'
             /\ ShownBySlot(slot, lastSlot')
             /\ slotMismatches' >= MismatchThreshold
             /\ CooldownElapsed
             => reconnectClosed'
    <2> SUFFICES ASSUME TypeOK, TypeOK', OnceMatchesChannel, HistoryInv, HistoryInv',
                        NEW subnet \in Subnets, NEW slot \in Slots,
                        HRecord(subnet, slot), slot = latestSlot', ShownBySlot(slot, lastSlot'),
                        slotMismatches' >= MismatchThreshold, CooldownElapsed
                 PROVE  reconnectClosed'
      OBVIOUS
    <2>1. checkForMismatch(seenSubnets')
      BY ShownIsChecked
    <2>2. mismatchCount' >= MismatchThreshold
      BY ConfigAssumption DEF HistoryInv, HistoryType, LatestSlotCounted, TypeOK
    <2>3. onceDone = FALSE
      BY DEF HRecord, RecordAttestation, OnceMatchesChannel
    <2> QED
      BY <2>1, <2>2, <2>3 DEF HRecord, RecordAttestation, signalReconnection
  <1> QED
    BY <1>1, HistoryHolds, PTL DEF MismatchDetected

\* A signal is never given on less than the configured evidence, when slots come in
\* order and slot 0, which stands for "no window", is not among them.
THEOREM Evident ==
    ASSUME 0 \notin Slots
    PROVE  HSpec => InOrderEvidence
  <1>1. TypeOK /\ TypeOK' /\ HistoryInv /\ HistoryInv' /\ [HNext]_hvars =>
          (Signals /\ inOrder' => Cardinality(Evidence(latestSlot')) > HighWaterMark)
    <2> SUFFICES ASSUME TypeOK, TypeOK', HistoryInv, HistoryInv', [HNext]_hvars, Signals, inOrder'
                 PROVE  Cardinality(Evidence(latestSlot')) > HighWaterMark
      OBVIOUS
    <2>1. PICK subnet \in Subnets, slot \in Slots : HRecord(subnet, slot)
      BY DEF Signals, HNext, hvars, vars, trackingVars, HSetAdvertised, SetAdvertisedSubnets,
             HReset, ResetAfterReconnection, HTick, Tick
    <2>2. advertisedSubnets' = advertisedSubnets /\ checkForMismatch(seenSubnets')
      BY <2>1, RecordCounts DEF Signals, HRecord, RecordAttestation
    <2>3. seenSubnets' \ advertisedSubnets \subseteq Evidence(latestSlot')
      <3> SUFFICES ASSUME NEW s \in seenSubnets' \ advertisedSubnets
                   PROVE  s \in Evidence(latestSlot')
        OBVIOUS
      <3>1. s \in Subnets /\ lastSlot'[s] >= trackingStartSlot' /\ trackingStartSlot' # 0
        BY DEF TypeOK, HistoryInv, NothingOlder
      <3>2. latestSlot' - trackingStartSlot' < DetectionWindow /\ trackingStartSlot' \in Nat
        BY <3>1 DEF HistoryInv, WindowHoldsLatest, TypeOK
      <3>3. lastSlot'[s] \in Int /\ latestSlot' \in Int
        BY <3>1 DEF HistoryInv, HistoryType
      <3>4. lastSlot'[s] >= 1
        BY <3>1, <3>2, <3>3
      <3>5. lastSlot'[s] > latestSlot' - DetectionWindow
        <4>1. \A l, t, d, k \in Int : l - t < d /\ k >= t => k > l - d
          OBVIOUS
        <4>2. trackingStartSlot' \in Int /\ DetectionWindow \in Int
          BY <3>2, WindowAssumption
        <4> QED
          BY <3>1, <3>2, <3>3, <4>1, <4>2, Zenon
      <3> QED
        BY <3>1, <3>4, <3>5 DEF Evidence
    <2>4. IsFiniteSet(Evidence(latestSlot'))
      BY WindowAssumption, FS_Subset DEF Evidence
    <2>5. Cardinality(seenSubnets' \ advertisedSubnets) <= Cardinality(Evidence(latestSlot'))
      BY <2>3, <2>4, FS_Subset
    <2>6. /\ Cardinality(Evidence(latestSlot')) \in Nat
          /\ Cardinality(seenSubnets' \ advertisedSubnets) \in Nat
      BY <2>3, <2>4, FS_Subset, FS_CardinalityType
    <2> QED
      BY <2>2, <2>5, <2>6, ConfigAssumption DEF checkForMismatch
  <1> QED
    BY <1>1, HistoryHolds, PTL DEF InOrderEvidence, HSpec

-----------------------------------------------------------------------------
(* The topic manager inside its wrapper.  SInit has the selection made by the   *)
(* constructor, which Init has not, so what carries the theorems over is that   *)
(* the invariants hold there and that every step is one of the topic manager.  *)

\* A health callback hands on a list that the node has advertised.
WrapperInv ==
    /\ attnets \in SubnetLists
    /\ checkPC \in [Checks -> {"idle", "fetch", "apply"}]
    /\ checkFetched \in [Checks -> SubnetLists \cup {{}}]
    /\ \A c \in Checks : checkPC[c] = "apply" => checkFetched[c] \in SubnetLists

\* Every step of the wrapper hands on lists the node has advertised.
LEMMA WrapperNext ==
    ASSUME WrapperInv, [SNext]_svars
    PROVE  WrapperInv'
  <1>1. CASE NodeChangesSubnets
    BY <1>1 DEF NodeChangesSubnets, WrapperInv
  <1>2. ASSUME NEW c \in Checks, \/ OnHealthCheckSucceeded(c) \/ CheckFetchOk(c)
                                 \/ CheckFetchFails(c) \/ CheckApply(c)
        PROVE  WrapperInv'
    BY <1>2 DEF OnHealthCheckSucceeded, CheckFetchOk, CheckFetchFails, CheckApply, WrapperInv
  <1>3. CASE UNCHANGED <<attnets, checkPC, checkFetched>>
    BY <1>3 DEF WrapperInv
  <1>4. \/ NodeChangesSubnets
        \/ \E c \in Checks : \/ OnHealthCheckSucceeded(c) \/ CheckFetchOk(c)
                             \/ CheckFetchFails(c) \/ CheckApply(c)
        \/ UNCHANGED <<attnets, checkPC, checkFetched>>
    BY DEF SNext, svars, wrapperVars, SetupEventSubscriptions, FinishStart, StopMarkUnhealthy, StopRefresh,
       StopBeaconNode, OnHealthCheckFailed, RefreshTicks, RefreshExits, RefreshFetches, RefreshFetchFails,
       RefreshApplies, ContextDone, RecordSeenSubnet
  <1> QED
    BY <1>1, <1>2, <1>3, <1>4

\* Every step of the wrapper is a step of the topic manager or leaves it alone.
LEMMA WrapperStep ==
    ASSUME Refreshers # {}, WrapperInv, [SNext]_svars
    PROVE  [Next]_vars
  <1>1. Refresher \in Refreshers
    BY DEF Refresher
  <1>2. CASE FinishStart \/ StopRefresh
    BY <1>1, <1>2 DEF FinishStart, StopRefresh, Next
  <1>3. ASSUME NEW c \in Checks, \/ OnHealthCheckSucceeded(c) \/ CheckFetchOk(c)
                                 \/ CheckFetchFails(c) \/ CheckApply(c)
        PROVE  [Next]_vars
    BY <1>3 DEF OnHealthCheckSucceeded, CheckFetchOk, CheckFetchFails, CheckApply, WrapperInv, Next
  <1>4. ASSUME NEW r \in Refreshers, \/ RefreshTicks(r) \/ RefreshExits(r) \/ RefreshFetches(r)
                                     \/ RefreshFetchFails(r) \/ RefreshApplies(r)
        PROVE  [Next]_vars
    <2>1. RefreshStep(r)
      BY <1>4 DEF RefreshTicks, RefreshExits, RefreshFetches, FetchAnswered, RefreshFetchFails,
         RefreshApplies, RefreshStep, WrapperInv
    <2> QED
      BY <2>1 DEF Next
  <1>5. ASSUME NEW subnet \in Subnets, NEW slot \in Slots, RecordSeenSubnet(subnet, slot)
        PROVE  [Next]_vars
    BY <1>5 DEF RecordSeenSubnet, Next
  <1>6. CASE UNCHANGED vars
    BY <1>6
  <1>7. \/ FinishStart \/ StopRefresh
        \/ \E c \in Checks : \/ OnHealthCheckSucceeded(c) \/ CheckFetchOk(c)
                             \/ CheckFetchFails(c) \/ CheckApply(c)
        \/ \E r \in Refreshers : \/ RefreshTicks(r) \/ RefreshExits(r) \/ RefreshFetches(r)
                                 \/ RefreshFetchFails(r) \/ RefreshApplies(r) \/ ContextDone(r)
        \/ \E subnet \in Subnets, slot \in Slots : RecordSeenSubnet(subnet, slot)
        \/ UNCHANGED vars
    BY DEF SNext, svars, NodeChangesSubnets, SetupEventSubscriptions, StopMarkUnhealthy, StopBeaconNode,
       OnHealthCheckFailed
  <1>8. ASSUME NEW r \in Refreshers, ContextDone(r)
        PROVE  [Next]_vars
    BY <1>8 DEF ContextDone, Next
  <1> QED
    BY <1>2, <1>3, <1>4, <1>5, <1>6, <1>7, <1>8

\* What the constructor leaves behind, with the answer of the first request or without.
LEMMA WrapperInit ==
    ASSUME SInit
    PROVE  WrapperInv /\ TypeOK /\ SelectionMatchesAdvertised /\ OnceMatchesChannel /\ NoLeakedRefresher
  <1>1. WrapperInv
    BY DEF SInit, WrapperInv
  <1>2. advertisedSubnets \in SUBSET Subnets /\ selectedSubnet \in Selectable(advertisedSubnets)
    BY DEF SInit, CreateTopicManager, Selectable
  <1>3. selectedSubnet \in Subnets \cup {NoSubnet}
    BY <1>2, SelectableType
  <1>4. sinceMismatch \in 0 .. CooldownPeriod
    BY DEF SInit
  <1>5. /\ refreshPC \in [Refreshers -> {"unborn", "select", "fetch", "apply", "exited"}]
        /\ refreshCancelled \in [Refreshers -> BOOLEAN]
        /\ fetchedSubnets \in [Refreshers -> SUBSET Subnets]
    BY DEF SInit
  <1>6. TypeOK
    BY <1>2, <1>3, <1>4, <1>5 DEF SInit, TypeOK
  <1>7. OnceMatchesChannel /\ NoLeakedRefresher
    BY DEF SInit, OnceMatchesChannel, NoLeakedRefresher
  <1> QED
    BY <1>1, <1>2, <1>6, <1>7 DEF SelectionMatchesAdvertised

\* What the topic manager is by itself it is inside the wrapper: whichever of the
\* constructor, the health callbacks and the refresh goroutine wrote the subnets
\* last, from however late an answer, the selection is one of them within the
\* limit; no signal is lost on an open channel; and no refresh goroutine is leaked.
THEOREM WrapperSafe ==
    ASSUME Refreshers # {}
    PROVE  SSpec => [](/\ TypeOK
                       /\ SelectionMatchesAdvertised
                       /\ OnceMatchesChannel
                       /\ NoLeakedRefresher)
  <1> DEFINE SInv == /\ WrapperInv /\ TypeOK /\ SelectionMatchesAdvertised
                     /\ OnceMatchesChannel /\ NoLeakedRefresher
  <1>1. SInit => SInv
    BY WrapperInit
  <1>2. SInv /\ [SNext]_svars => SInv'
    BY WrapperNext, WrapperStep, NextType, NextSelection, NextOnce, NextNoLeak
  <1> QED
    BY <1>1, <1>2, PTL DEF SSpec

\* The wrapper's steps are the topic manager's.
THEOREM WrapperSteps ==
    ASSUME Refreshers # {}
    PROVE  SSpec => [][Next]_vars
  <1>1. SInit => WrapperInv
    BY WrapperInit
  <1>2. WrapperInv /\ [SNext]_svars => WrapperInv'
    BY WrapperNext
  <1>3. WrapperInv /\ [SNext]_svars => [Next]_vars
    BY WrapperStep
  <1> QED
    BY <1>1, <1>2, <1>3, PTL DEF SSpec

\* So are its signals: the channel the application waits on is the abstract one.
THEOREM WrapperSignal ==
    ASSUME Refreshers # {}
    PROVE  SSpec => ImplementsReconnectSignal
  <1>1. SInit => Signal!Init
    BY DEF SInit, Signal!Init
  <1>2. TypeOK /\ OnceMatchesChannel /\ [Next]_vars => [Signal!Next]_<<reconnectClosed, sinceMismatch>>
    BY NextSignal
  <1> QED
    BY <1>1, <1>2, WrapperSafe, WrapperSteps, PTL DEF SSpec, ImplementsReconnectSignal, Signal!Spec

-----------------------------------------------------------------------------
(* Stopping a wrapper.                                                     *)

RefreshEnds == \A r \in Refreshers : refreshPC[r] \in {"unborn", "exited"} \/ refreshCancelled[r]

\* From the moment Stop has passed the refresh, a wrapper that was running has no
\* refresh goroutine but cancelled ones, for good: what is left of
\* StoppedWrapperQuiesces is that goroutines keep running.
StoppedRefreshEnds == [](Running => [](stopStage \in {"unrefreshed", "done"} => RefreshEnds))

\* After Start has returned nothing starts a refresh any more.
Finished == startStage = "done" /\ (stopStage \in {"unrefreshed", "done"} => RefreshEnds)

\* A refresh that a stop has passed is cancelled for good.
LEMMA FinishedNext ==
    ASSUME TypeOK, NoLeakedRefresher, Finished, [SNext]_svars
    PROVE  Finished'
  <1>1. CASE StopRefresh
    <2>1. CASE refreshCancel # NoRefresher
      BY <1>1, <2>1 DEF StopRefresh, StopSubnetRefresh, AfterCancel, TypeOK, NoLeakedRefresher, Finished,
         RefreshEnds
    <2>2. CASE refreshCancel = NoRefresher
      BY <1>1, <2>2 DEF StopRefresh, vars, refreshVars, TypeOK, NoLeakedRefresher, Finished, RefreshEnds
    <2> QED
      BY <2>1, <2>2
  <1>2. ASSUME NEW r \in Refreshers, \/ RefreshTicks(r) \/ RefreshExits(r) \/ RefreshFetches(r)
                                     \/ RefreshFetchFails(r) \/ RefreshApplies(r)
        PROVE  Finished'
    <2>1. /\ UNCHANGED <<startStage, stopStage, refreshCancelled>>
          /\ refreshPC[r] \notin {"unborn", "exited"}
          /\ \A q \in Refreshers \ {r} : refreshPC'[q] = refreshPC[q]
      BY <1>2 DEF RefreshTicks, RefreshExits, RefreshFetches, FetchAnswered, RefreshFetchFails, RefreshApplies,
         RefreshTick, RefreshExit, FetchOk, FetchNil, RefreshApply, wrapperVars, TypeOK
    <2> QED
      BY <2>1 DEF Finished, RefreshEnds
  <1>3. CASE /\ startStage' = startStage
             /\ UNCHANGED <<refreshPC, refreshCancelled>>
             /\ stopStage' \in {"unrefreshed", "done"} => stopStage \in {"unrefreshed", "done"}
    BY <1>3 DEF Finished, RefreshEnds
  <1>4. \/ StopRefresh
        \/ \E r \in Refreshers : \/ RefreshTicks(r) \/ RefreshExits(r) \/ RefreshFetches(r)
                                 \/ RefreshFetchFails(r) \/ RefreshApplies(r) \/ ContextDone(r)
        \/ /\ startStage' = startStage
           /\ UNCHANGED <<refreshPC, refreshCancelled>>
           /\ stopStage' \in {"unrefreshed", "done"} => stopStage \in {"unrefreshed", "done"}
    BY DEF SNext, svars, vars, wrapperVars, refreshVars, NodeChangesSubnets, SetupEventSubscriptions,
       FinishStart, StopMarkUnhealthy, StopBeaconNode, OnHealthCheckFailed, OnHealthCheckSucceeded,
       CheckFetchOk, CheckFetchFails, CheckApply, SetAdvertisedSubnets, RecordSeenSubnet, RecordAttestation,
       Finished
  <1>5. ASSUME NEW r \in Refreshers, ContextDone(r)
        PROVE  Finished'
    BY <1>5 DEF ContextDone, ParentCancelled, wrapperVars, TypeOK, Finished, RefreshEnds
  <1> QED
    BY <1>1, <1>2, <1>3, <1>4, <1>5

\* Stopping a wrapper that has started leaves no live refresh goroutine behind,
\* wherever the stop found it and whatever comes after.
THEOREM StopEndsRefresh ==
    ASSUME Refreshers # {}
    PROVE  SSpec => StoppedRefreshEnds
  <1>1. Running => Finished
    BY DEF Running, Finished
  <1>2. TypeOK /\ NoLeakedRefresher /\ Finished /\ [SNext]_svars => Finished'
    BY FinishedNext
  <1>3. Finished => (stopStage \in {"unrefreshed", "done"} => RefreshEnds)
    BY DEF Finished
  <1> QED
    BY <1>1, <1>2, <1>3, WrapperSafe, PTL DEF SSpec, StoppedRefreshEnds
=============================================================================
