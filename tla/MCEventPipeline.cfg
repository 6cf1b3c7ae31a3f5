\* Pairs of events of one topic and of several, two sinks.
SPECIFICATION Spec
CONSTANTS
    d1 = d1
    d2 = d2
    NoPayload = NoPayload
    Events <- MCEvents
    Deliveries = {d1, d2}
    Streams <- MCStreams
    WallclockSlot = 64
    MaxReasonableSlotDifference = 100
    UintMod = 256
    NSinks = 2
    TTL = 2
SYMMETRY Copies
INVARIANTS TypeOK DuplicatesHaveAnOriginal CountersMatchSinks OnlySelectedForwarded RecordedBeforeFiltered
PROPERTIES AcceptedOncePerTTL
