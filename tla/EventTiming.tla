----------------------------- MODULE EventTiming -----------------------------
(***************************************************************************)
(* Times of events: the clock drift service (internal/clockdrift), the       *)
(* callbacks of BeaconWrapper that read the drift twice, once for the time   *)
(* of receipt and once for the metadata, and what Decorated of each event    *)
(* (internal/events/v1) makes of slot and time in the row it sends.          *)
(*                                                                         *)
(* Data abstraction: a time is a number of nanoseconds since genesis, Milli   *)
(* of them to a millisecond; the unsigned fields of a row are milliseconds.   *)
(* An event is its topic and, but for the finalized checkpoint, its slot;     *)
(* epochs, roots and the rest of it are left out.  Whether an event is        *)
(* ignored is a matter of EventPipeline and free here, as is when the NTP     *)
(* server answers and what.                                                 *)
(***************************************************************************)
EXTENDS Integers

CONSTANTS
    Offsets,            \* clock offsets that NTP responses give
    Deliveries,         \* events received (a bound)
    EventsOf,           \* what each delivery may bring
    Milli,              \* nanoseconds in a millisecond
    SlotTime,           \* nanoseconds in a slot
    UintMod,            \* 2^64
    MaxClock,           \* last reading of the host's clock (a bound)
    MaxSyncs            \* queries of the NTP server (a bound)

ASSUME TimesAssumption ==
    /\ Offsets \subseteq Int
    /\ SlotTime \in Nat \ {0}
    /\ Milli \in Nat \ {0}
    /\ UintMod \in Nat \ {0}
    /\ MaxClock \in Nat
    /\ MaxSyncs \in Nat

\* Every event but the finalized checkpoint is about a slot.
ASSUME EventsAssumption ==
    \A d \in Deliveries : \A e \in EventsOf[d] :
        e.topic # "finalized_checkpoint" => e.slot \in Nat

VARIABLES
    clock,          \* the host's clock
    clockDrift,     \* Service.clockDrift
    syncs,          \* queries made so far; the first is made by Start
    pc,             \* of the callback of each delivery
    event,          \* the event delivered
    recvTime,       \* now := w.clockDrift.Now()
    baseTime,       \* BaseEvent.time
    declaredDrift,  \* Meta.Client.ClockDrift
    row,            \* the decorated event, as the set of what was sent
    receipt         \* history: clock, drift and syncs at receipt, syncs at the metadata

driftVars == <<clockDrift, syncs>>
callbackVars == <<pc, event, recvTime, baseTime, declaredDrift, row, receipt>>
vars == <<clock, driftVars, callbackVars>>

TypeOK ==
    /\ clock \in 0 .. MaxClock
    /\ clockDrift \in Offsets \cup {0}
    /\ syncs \in 0 .. MaxSyncs
    /\ pc \in [Deliveries -> {"idle", "received", "built", "ended"}]
    /\ \A d \in Deliveries :
        /\ pc[d] # "idle" => event[d] \in EventsOf[d]
        /\ recvTime[d] \in Int
        /\ baseTime[d] \in 0 .. MaxClock
        /\ declaredDrift[d] \in 0 .. (UintMod - 1)
        /\ \A r \in row[d] : \A t \in r.timing : t.slotStartDiff \in 0 .. (UintMod - 1)

NoEvent == [topic |-> "none"]

Init ==
    /\ clock = 0
    /\ clockDrift = 0
    /\ syncs = 0
    /\ pc = [d \in Deliveries |-> "idle"]
    /\ event = [d \in Deliveries |-> NoEvent]
    /\ recvTime = [d \in Deliveries |-> 0]
    /\ baseTime = [d \in Deliveries |-> 0]
    /\ declaredDrift = [d \in Deliveries |-> 0]
    /\ row = [d \in Deliveries |-> {}]
    /\ receipt = [d \in Deliveries |-> [clock |-> 0, drift |-> 0, syncs |-> 0, metaSyncs |-> 0]]

Tick ==
    /\ clock < MaxClock
    /\ clock' = clock + 1
    /\ UNCHANGED <<driftVars, callbackVars>>

-----------------------------------------------------------------------------
(* The clock drift service.                                                *)

Responses == [kind : {"ok"}, offset : Offsets] \cup [kind : {"error", "invalid"}]

\* Mutant: the offset is taken for what the drift has changed by.
DriftAfter_Adds(response) == IF response.kind = "ok" THEN clockDrift + response.offset ELSE clockDrift

\* A query that fails, or whose response is not valid, leaves the drift as it was.
DriftAfter(response) == IF response.kind = "ok" THEN response.offset ELSE clockDrift

\* syncDrift: by Start, whose failure is only logged, then by the scheduled job.
SyncDrift ==
    /\ syncs < MaxSyncs
    /\ \E response \in Responses : clockDrift' = DriftAfter(response)
    /\ syncs' = syncs + 1
    /\ UNCHANGED <<clock, callbackVars>>

Now == clock + clockDrift

-----------------------------------------------------------------------------
(* What Decorated makes of an event.                                       *)

SlotStart(slot) == slot * SlotTime

\* Duration.Milliseconds drops the part of a millisecond, towards zero.
Milliseconds(duration) ==
    IF duration >= 0 THEN duration \div Milli ELSE -((-duration) \div Milli)

\* Differences of times are time.Durations, so their milliseconds are an int64's:
\* the offset of the clock, and how long before or after a slot's start an event
\* about it comes.
ASSUME RangeAssumption ==
    \A offset \in Offsets \cup {0} :
        /\ -UintMod <= 2 * Milliseconds(offset) /\ 2 * Milliseconds(offset) < UintMod
        /\ \A d \in Deliveries : \A e \in EventsOf[d] : \A c \in 0 .. MaxClock :
              e.topic # "finalized_checkpoint" =>
                LET propagation == Milliseconds(c + offset - SlotStart(e.slot))
                IN  -UintMod <= 2 * propagation /\ 2 * propagation < UintMod

\* Mutant: a negative number becomes zero.
Uint64_Clamps(n) == IF n < 0 THEN 0 ELSE n % UintMod

\* The conversion of an int64: a negative number wraps.
Uint64(n) == n % UintMod

slotTiming(slot, recv) ==
    [slotStart     |-> SlotStart(slot),
     slotStartDiff |-> Uint64(Milliseconds(recv - SlotStart(slot)))]

\* The events about a slot, which may be one that is yet to come.
SlotRow(e, recv) == [dateTime |-> recv, timing |-> {slotTiming(e.slot, recv)}]

\* The one event without a slot, and the one that is dated with the time it was
\* built at on the host's clock, not with the time of receipt.
FinalizedCheckpoint(base) == [dateTime |-> base, timing |-> {}]

Decorated(e, recv, base) ==
    IF e.topic = "finalized_checkpoint" THEN FinalizedCheckpoint(base) ELSE SlotRow(e, recv)

-----------------------------------------------------------------------------
(* A callback: now, metadata and event, Ignore and the sinks.              *)

Goto(d, label) == pc' = [pc EXCEPT ![d] = label]

Receive(d) ==
    /\ pc[d] = "idle"
    /\ \E e \in EventsOf[d] : event' = [event EXCEPT ![d] = e]
    /\ recvTime' = [recvTime EXCEPT ![d] = Now]
    /\ receipt' = [receipt EXCEPT ![d] = [clock |-> clock, drift |-> clockDrift,
                                          syncs |-> syncs, metaSyncs |-> syncs]]
    /\ Goto(d, "received")
    /\ UNCHANGED <<clock, driftVars, baseTime, declaredDrift, row>>

\* Mutant: the time of receipt is the one the event is built at.
CreateEvent_DatesAgain(d) ==
    /\ pc[d] = "received"
    /\ declaredDrift' = [declaredDrift EXCEPT ![d] = Uint64(Milliseconds(clockDrift))]
    /\ recvTime' = [recvTime EXCEPT ![d] = Now]
    /\ baseTime' = [baseTime EXCEPT ![d] = clock]
    /\ receipt' = [receipt EXCEPT ![d].metaSyncs = syncs]
    /\ Goto(d, "built")
    /\ UNCHANGED <<clock, driftVars, event, row>>

\* createEventMeta and the event's constructor.
CreateEvent(d) ==
    /\ pc[d] = "received"
    /\ declaredDrift' = [declaredDrift EXCEPT ![d] = Uint64(Milliseconds(clockDrift))]
    /\ baseTime' = [baseTime EXCEPT ![d] = clock]
    /\ receipt' = [receipt EXCEPT ![d].metaSyncs = syncs]
    /\ Goto(d, "built")
    /\ UNCHANGED <<clock, driftVars, event, recvTime, row>>

\* No metadata without a node ID.
CreateEventMetaFails(d) ==
    /\ pc[d] = "received"
    /\ Goto(d, "ended")
    /\ UNCHANGED <<clock, driftVars, event, recvTime, baseTime, declaredDrift, row, receipt>>

Ignored(d) ==
    /\ pc[d] = "built"
    /\ Goto(d, "ended")
    /\ UNCHANGED <<clock, driftVars, event, recvTime, baseTime, declaredDrift, row, receipt>>

Send(d) ==
    /\ pc[d] = "built"
    /\ row' = [row EXCEPT ![d] = {Decorated(event[d], recvTime[d], baseTime[d])}]
    /\ Goto(d, "ended")
    /\ UNCHANGED <<clock, driftVars, event, recvTime, baseTime, declaredDrift, receipt>>

Callback(d) ==
    \/ Receive(d)
    \/ CreateEvent(d)
    \/ CreateEventMetaFails(d)
    \/ Ignored(d)
    \/ Send(d)

\* Callbacks begin once Start has made its query.
Next ==
    \/ Tick
    \/ SyncDrift
    \/ syncs > 0 /\ \E d \in Deliveries : Callback(d)

Spec == Init /\ [][Next]_vars

-----------------------------------------------------------------------------
(* Properties.                                                             *)

\* An unsigned field read back as the number it was converted from.
Signed(n) == IF 2 * n >= UintMod THEN n - UintMod ELSE n

Adjusted(d) == event[d].topic # "finalized_checkpoint"

WithinMillisecond(a, b) == a - b < Milli /\ b - a < Milli

\* A reader of a row recovers, to less than a millisecond, when the host received
\* the event by its own clock, from the date and the declared drift, unless a sync
\* fell between the two reads of the drift; and when the slot began, from the date
\* and the propagation: although both fields are unsigned and cut to milliseconds,
\* clocks run ahead and events arrive before their slot begins.  A finalized
\* checkpoint has a date of the host's own clock, between its receipt and now.
ReaderRecoversTimes ==
    \A d \in Deliveries : \A r \in row[d] :
        /\ Adjusted(d) /\ receipt[d].metaSyncs = receipt[d].syncs =>
              WithinMillisecond(r.dateTime - Milli * Signed(declaredDrift[d]), receipt[d].clock)
        /\ \A t \in r.timing :
              /\ t.slotStart = SlotStart(event[d].slot)
              /\ WithinMillisecond(r.dateTime - Milli * Signed(t.slotStartDiff), t.slotStart)
        /\ ~Adjusted(d) => receipt[d].clock <= r.dateTime /\ r.dateTime <= clock

\* Two rows are dated in the order of receipt, however long their callbacks took,
\* unless the drift has fallen between the two receipts.
DatedInOrderOfReceipt ==
    \A d1, d2 \in Deliveries : \A r1 \in row[d1], r2 \in row[d2] :
        /\ Adjusted(d1) /\ Adjusted(d2)
        /\ receipt[d1].clock < receipt[d2].clock
        /\ receipt[d1].drift <= receipt[d2].drift
        => r1.dateTime < r2.dateTime
=============================================================================
