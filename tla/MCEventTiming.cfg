\* Two events, drifts of both signs that are no whole milliseconds.
SPECIFICATION Spec
CONSTANTS
    d1 = d1
    d2 = d2
    Deliveries = {d1, d2}
    EventsOf <- MCEventsOf
    Offsets <- MCOffsets
    SlotTime = 4
    Milli = 2
    UintMod = 16
    MaxClock = 3
    MaxSyncs = 2
INVARIANTS TypeOK ReaderRecoversTimes DatedInOrderOfReceipt
CHECK_DEADLOCK FALSE
