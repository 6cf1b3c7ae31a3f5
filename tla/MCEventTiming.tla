---------------------------- MODULE MCEventTiming ----------------------------
(* Instances of EventTiming for TLC.                                        *)
EXTENDS EventTiming

CONSTANTS d1, d2

\* With half milliseconds, an offset of an odd number is cut.  Slot 2 begins after
\* the last reading of the clock, for preferences about a proposal yet to come.
MCEvents ==
    [topic : {"single_attestation", "proposer_preferences"}, slot : 0 .. 2]
    \cup [topic : {"finalized_checkpoint"}]

\* Every event on the one delivery, one of each kind on the other.
MCEventsOf ==
    [d \in Deliveries |->
        IF d = d1 THEN MCEvents
        ELSE {e \in MCEvents : e.topic = "finalized_checkpoint" \/ e.slot = 1}]

MCOffsets == {-3, 5}
=============================================================================
