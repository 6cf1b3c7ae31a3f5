------------------------- MODULE TopicManagerHistory -------------------------
(***************************************************************************)
(* TopicManager with history variables: what was recorded since the last    *)
(* reset, kept apart from the code's own bookkeeping, so that the signals    *)
(* it gives, and those it does not give, can be judged against it.          *)
(***************************************************************************)
EXTENDS TopicManager

\* There are 64 subnets, and createBeaconConfig gives no window of zero slots.
ASSUME WindowAssumption == IsFiniteSet(Subnets) /\ DetectionWindow \in Nat \ {0}

VARIABLES
    lastSlot,         \* the latest slot each subnet was recorded with, -1 if never
    latestSlot,       \* the latest slot recorded
    inOrder,          \* no attestation was recorded after one of a later slot
    slotMismatches    \* attestations of latestSlot that showed a mismatch by themselves

historyVars == <<lastSlot, latestSlot, inOrder, slotMismatches>>
hvars == <<vars, historyVars>>

NothingRecorded == [subnet \in Subnets |-> -1]

HInit ==
    /\ Init
    /\ lastSlot = NothingRecorded
    /\ latestSlot = -1
    /\ inOrder = TRUE
    /\ slotMismatches = 0

Signals == ~reconnectClosed /\ reconnectClosed'

Later(a, b) == IF a > b THEN a ELSE b

\* Attestations of `slot' alone have come from more unadvertised subnets than the
\* high water mark.
ShownBySlot(slot, slotOf) ==
    /\ advertisedSubnets # {}
    /\ Cardinality({s \in Subnets \ advertisedSubnets : slotOf[s] = slot}) > HighWaterMark

HRecord(subnet, slot) ==
    /\ RecordAttestation(subnet, slot)
    /\ lastSlot' = [lastSlot EXCEPT ![subnet] = Later(@, slot)]
    /\ latestSlot' = Later(latestSlot, slot)
    /\ inOrder' = (inOrder /\ slot >= latestSlot)
    /\ LET before == IF slot > latestSlot THEN 0 ELSE slotMismatches
       IN  slotMismatches' = IF /\ slot >= latestSlot
                                /\ ShownBySlot(slot, lastSlot')
                                /\ before < MismatchThreshold
                             THEN before + 1 ELSE before

HReset ==
    /\ ResetAfterReconnection
    /\ lastSlot' = NothingRecorded
    /\ latestSlot' = -1
    /\ inOrder' = TRUE
    /\ slotMismatches' = 0

HTick ==
    /\ Tick
    /\ UNCHANGED historyVars

HSetAdvertised ==
    /\ \E subnets \in SubnetLists : SetAdvertisedSubnets(subnets)
    /\ UNCHANGED historyVars

HNext ==
    \/ HSetAdvertised
    \/ \E subnet \in Subnets, slot \in Slots : HRecord(subnet, slot)
    \/ HReset
    \/ HTick

HSpec == HInit /\ [][HNext]_hvars

-----------------------------------------------------------------------------
(* Subnets outside the advertised ones with an attestation in the last     *)
(* DetectionWindow slots, up to and including `slot'.                      *)
Evidence(slot) ==
    {subnet \in Subnets \ advertisedSubnets :
        lastSlot'[subnet] # -1 /\ lastSlot'[subnet] > slot - DetectionWindow}

\* A signal is backed by more than HighWaterMark subnets that are not advertised
\* and were all seen since the last reset and within the detection window, as long
\* as attestations are recorded in the order of their slots.
InOrderEvidence ==
    [][Signals /\ inOrder' => Cardinality(Evidence(latestSlot')) > HighWaterMark]_hvars

\* A mismatch is not missed: once the attestations of the latest slot alone come
\* from more unadvertised subnets than the high water mark, MismatchThreshold of
\* them bring the signal, unless the cooldown lasts.  Where the windows begin,
\* what older attestations join them and when the advertised list changed make no
\* difference.
MismatchDetected ==
    [][\A subnet \in Subnets, slot \in Slots :
          /\ HRecord(subnet, slot)
          /\ slot = latestSlot'
          /\ ShownBySlot(slot, lastSlot')
          /\ slotMismatches' >= MismatchThreshold
          /\ CooldownElapsed
          => reconnectClosed']_hvars
=============================================================================
