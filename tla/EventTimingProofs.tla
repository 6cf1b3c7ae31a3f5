-------------------------- MODULE EventTimingProofs --------------------------
(***************************************************************************)
(* Theorems about EventTiming, for any deliveries, events, offsets, slots    *)
(* and parts of a millisecond.                                              *)
(***************************************************************************)
EXTENDS EventTiming, TLAPS

Drifts == Offsets \cup {0}

\* A drift is a whole number of nanoseconds, negative when the host's clock is ahead.
LEMMA DriftsAreIntegers == Drifts \subseteq Int
  BY TimesAssumption DEF Drifts

Receipts == [clock : 0 .. MaxClock, drift : Drifts, syncs : Nat, metaSyncs : Nat]

TimesInv ==
    /\ clock \in 0 .. MaxClock /\ clockDrift \in Drifts /\ syncs \in 0 .. MaxSyncs
    /\ pc \in [Deliveries -> {"idle", "received", "built", "ended"}]
    /\ DOMAIN event = Deliveries
    /\ recvTime \in [Deliveries -> Int]
    /\ baseTime \in [Deliveries -> 0 .. MaxClock]
    /\ declaredDrift \in [Deliveries -> 0 .. (UintMod - 1)]
    /\ DOMAIN row = Deliveries
    /\ receipt \in [Deliveries -> Receipts]

\* The time of receipt is kept as it was read, and the event is built after it.
ReceiptInv ==
    \A d \in Deliveries : pc[d] # "idle" =>
        /\ event[d] \in EventsOf[d]
        /\ recvTime[d] = receipt[d].clock + receipt[d].drift
        /\ receipt[d].clock <= clock
        /\ pc[d] = "built" \/ row[d] # {} => receipt[d].clock <= baseTime[d] /\ baseTime[d] <= clock

\* What has been sent is the event decorated, and it is not touched any more.
RowInv ==
    \A d \in Deliveries : row[d] # {} =>
        pc[d] = "ended" /\ row[d] = {Decorated(event[d], recvTime[d], baseTime[d])}

\* Without a sync the drift is still the one read at receipt, and that is the one
\* the metadata declares if none came before they were made either.
DeclaredInv ==
    \A d \in Deliveries :
        /\ pc[d] = "received" =>
             /\ receipt[d].syncs <= syncs
             /\ receipt[d].syncs = syncs => receipt[d].drift = clockDrift
        /\ (pc[d] = "built" \/ row[d] # {}) /\ receipt[d].metaSyncs = receipt[d].syncs
             => declaredDrift[d] = Uint64(Milliseconds(receipt[d].drift))

Inv == TimesInv /\ ReceiptInv /\ RowInv /\ DeclaredInv

\* No callback has begun.
LEMMA InitInv == Init => Inv
  BY TimesAssumption DEF Init, Inv, TimesInv, ReceiptInv, RowInv, DeclaredInv, Receipts, Drifts

\* What every conversion gives fits the field.
LEMMA Uint64Range == \A n \in Int : Uint64(n) \in 0 .. (UintMod - 1)
  BY TimesAssumption DEF Uint64

\* An int64 survives the conversion to uint64 and back.
LEMMA SignedUint64 ==
    ASSUME NEW n \in Int, -UintMod <= 2 * n, 2 * n < UintMod
    PROVE  Signed(Uint64(n)) = n
  <1>1. CASE n >= 0
    <2>1. n % UintMod = n
      BY <1>1, TimesAssumption
    <2> QED
      BY <1>1, <2>1, TimesAssumption DEF Signed, Uint64
  <1>2. CASE n < 0
    <2>1. n % UintMod = n + UintMod
      BY <1>2, TimesAssumption
    <2> QED
      BY <1>2, <2>1, TimesAssumption DEF Signed, Uint64
  <1> QED
    BY <1>1, <1>2

\* What a duration loses by the conversion to milliseconds is less than one of them,
\* on whichever side of zero it is.
LEMMA MillisecondsClose ==
    ASSUME NEW n \in Int
    PROVE  /\ Milliseconds(n) \in Int
           /\ WithinMillisecond(n, Milli * Milliseconds(n))
  <1>1. \A m \in Nat : /\ m \div Milli \in Nat
                      /\ 0 <= m - Milli * (m \div Milli)
                      /\ m - Milli * (m \div Milli) < Milli
    BY TimesAssumption
  <1>2. CASE n >= 0
    BY <1>1, <1>2, TimesAssumption DEF Milliseconds, WithinMillisecond
  <1>3. CASE n < 0
    <2>1. PICK q \in Nat : q = (-n) \div Milli
      BY <1>1, <1>3
    <2>2. 0 <= -n - Milli * q /\ -n - Milli * q < Milli
      BY <1>1, <1>3, <2>1
    <2>3. Milliseconds(n) = -q
      BY <1>3, <2>1 DEF Milliseconds
    <2>4. Milli * (-q) = -(Milli * q)
      BY TimesAssumption
    <2> QED
      BY <2>2, <2>3, <2>4, TimesAssumption DEF WithinMillisecond
  <1> QED
    BY <1>2, <1>3

\* A step that leaves the callbacks alone keeps what is said of them, if the drift
\* changes with a sync only.
LEMMA DriftStep ==
    ASSUME Inv, UNCHANGED callbackVars, clock' \in 0 .. MaxClock, clock <= clock',
           clockDrift' \in Drifts,
           syncs' \in 0 .. MaxSyncs, UNCHANGED driftVars \/ syncs' = syncs + 1
    PROVE  Inv'
  <1>1. TimesInv' /\ RowInv'
    BY DEF callbackVars, Inv, TimesInv, RowInv
  <1>2. \A d \in Deliveries : receipt[d].syncs \in Nat
    BY DEF Inv, TimesInv, Receipts
  <1>3. DeclaredInv'
    BY <1>2, TimesAssumption DEF callbackVars, driftVars, Inv, TimesInv, DeclaredInv
  <1>4. ReceiptInv'
    <2>1. \A d \in Deliveries : receipt[d].clock \in Int /\ baseTime[d] \in Int
      BY DEF Inv, TimesInv, Receipts
    <2>2. clock \in Int /\ clock' \in Int
      BY DEF Inv, TimesInv
    <2> QED
      BY <2>1, <2>2 DEF callbackVars, Inv, ReceiptInv
  <1> QED
    BY <1>1, <1>3, <1>4 DEF Inv

\* forwardEvent reads the clock and the drift together, and keeps what it read.
LEMMA ReceiveStep ==
    ASSUME Inv, NEW d \in Deliveries, Receive(d)
    PROVE  Inv'
  <1>1. [clock |-> clock, drift |-> clockDrift, syncs |-> syncs, metaSyncs |-> syncs] \in Receipts
    BY TimesAssumption DEF Inv, TimesInv, Receipts
  <1>2. clock + clockDrift \in Int
    BY DriftsAreIntegers, TimesAssumption DEF Inv, TimesInv
  <1>3. TimesInv'
    BY <1>1, <1>2 DEF Receive, Goto, Now, Inv, TimesInv, driftVars
  <1>5. row[d] = {}
    BY DEF Receive, Inv, RowInv
  <1>4. ReceiptInv'
    BY <1>5, TimesAssumption DEF Receive, Goto, Now, Inv, TimesInv, ReceiptInv
  <1>6. RowInv'
    BY <1>5 DEF Receive, Goto, Inv, TimesInv, RowInv
  <1>7. DeclaredInv'
    BY <1>5, TimesAssumption DEF Receive, Goto, Inv, TimesInv, DeclaredInv, driftVars
  <1> QED
    BY <1>3, <1>4, <1>6, <1>7 DEF Inv

\* The metadata declare the drift of the second read.
LEMMA CreateEventStep ==
    ASSUME Inv, NEW d \in Deliveries, CreateEvent(d)
    PROVE  Inv'
  <1>1. /\ receipt[d] \in Receipts
        /\ receipt' = [receipt EXCEPT ![d] = [receipt[d] EXCEPT !.metaSyncs = syncs]]
    BY DEF CreateEvent, Inv, TimesInv
  <1>2. PICK q \in Receipts : /\ q = [receipt[d] EXCEPT !.metaSyncs = syncs]
                              /\ q.metaSyncs = syncs
                              /\ q.clock = receipt[d].clock
                              /\ q.drift = receipt[d].drift
                              /\ q.syncs = receipt[d].syncs
    BY <1>1, TimesAssumption DEF Inv, TimesInv, Receipts
  <1>3. receipt' = [receipt EXCEPT ![d] = q]
    BY <1>1, <1>2
  <1>4. Uint64(Milliseconds(clockDrift)) \in 0 .. (UintMod - 1)
    BY Uint64Range, MillisecondsClose, DriftsAreIntegers DEF Inv, TimesInv
  <1>5. /\ pc[d] = "received"
        /\ pc' = [pc EXCEPT ![d] = "built"]
        /\ declaredDrift' = [declaredDrift EXCEPT ![d] = Uint64(Milliseconds(clockDrift))]
        /\ baseTime' = [baseTime EXCEPT ![d] = clock]
        /\ UNCHANGED <<clock, clockDrift, syncs, event, recvTime, row>>
    BY DEF CreateEvent, Goto, driftVars
  <1>6. TimesInv'
    BY <1>3, <1>4, <1>5 DEF Inv, TimesInv
  <1>7. ReceiptInv'
    BY <1>2, <1>3, <1>5, TimesAssumption DEF Inv, TimesInv, ReceiptInv
  <1>8. row[d] = {}
    BY <1>5 DEF Inv, RowInv
  <1>9. RowInv'
    BY <1>5, <1>8 DEF Inv, TimesInv, RowInv
  <1>10. DeclaredInv'
    BY <1>2, <1>3, <1>5 DEF Inv, TimesInv, DeclaredInv
  <1> QED
    BY <1>6, <1>7, <1>9, <1>10 DEF Inv

\* An event that is ignored leaves no row.
LEMMA EndStep ==
    ASSUME Inv, NEW d \in Deliveries, CreateEventMetaFails(d) \/ Ignored(d)
    PROVE  Inv'
  <1>1. TimesInv' /\ ReceiptInv'
    BY DEF CreateEventMetaFails, Ignored, Goto, Inv, TimesInv, ReceiptInv, driftVars
  <1>2. row[d] = {}
    BY DEF CreateEventMetaFails, Ignored, Inv, RowInv
  <1>3. RowInv'
    BY <1>2 DEF CreateEventMetaFails, Ignored, Goto, Inv, TimesInv, RowInv
  <1>4. DeclaredInv'
    BY <1>2 DEF CreateEventMetaFails, Ignored, Goto, Inv, TimesInv, DeclaredInv, driftVars
  <1> QED
    BY <1>1, <1>3, <1>4 DEF Inv

\* The row is the event decorated with the time kept since its receipt.
LEMMA SendStep ==
    ASSUME Inv, NEW d \in Deliveries, Send(d)
    PROVE  Inv'
  <1>1. TimesInv' /\ ReceiptInv'
    BY DEF Send, Goto, Inv, TimesInv, ReceiptInv, driftVars
  <1>2. RowInv'
    BY DEF Send, Goto, Inv, TimesInv, RowInv
  <1>3. /\ pc[d] = "built"
        /\ pc' = [pc EXCEPT ![d] = "ended"]
        /\ \A k \in Deliveries : k # d => row'[k] = row[k]
        /\ UNCHANGED <<clockDrift, syncs, declaredDrift, receipt>>
    BY DEF Send, Goto, Inv, TimesInv, driftVars
  <1>4. DeclaredInv'
    BY <1>3 DEF Inv, TimesInv, DeclaredInv
  <1> QED
    BY <1>1, <1>2, <1>4 DEF Inv

\* Neither the clock nor a sync touches what a callback has read.
LEMMA NextInv == Inv /\ [Next]_vars => Inv'
  <1> SUFFICES ASSUME Inv, [Next]_vars PROVE Inv'
    OBVIOUS
  <1>1. CASE Tick \/ UNCHANGED vars
    <2>1. /\ UNCHANGED <<callbackVars, driftVars>>
          /\ clock' \in 0 .. MaxClock
          /\ clock <= clock'
          /\ clockDrift' \in Drifts
          /\ syncs' \in 0 .. MaxSyncs
      BY <1>1, TimesAssumption DEF Tick, vars, driftVars, Inv, TimesInv
    <2> QED
      BY <2>1, DriftStep
  <1>2. CASE SyncDrift
    <2>1. \A response \in Responses : DriftAfter(response) \in Drifts
      BY TimesAssumption DEF Responses, DriftAfter, Inv, TimesInv, Drifts
    <2>2. /\ UNCHANGED <<callbackVars, clock>>
          /\ clockDrift' \in Drifts
          /\ syncs' = syncs + 1
          /\ syncs' \in 0 .. MaxSyncs
      BY <1>2, <2>1, TimesAssumption DEF SyncDrift, Inv, TimesInv
    <2>3. clock' \in 0 .. MaxClock /\ clock <= clock'
      BY <2>2 DEF Inv, TimesInv
    <2> QED
      BY <2>2, <2>3, DriftStep
  <1>3. CASE \E d \in Deliveries : Callback(d)
    BY <1>3, ReceiveStep, CreateEventStep, EndStep, SendStep DEF Callback
  <1> QED
    BY <1>1, <1>2, <1>3 DEF Next

\* The invariant holds in every state of every run.
LEMMA InvHolds == Spec => []Inv
  BY InitInv, NextInv, PTL DEF Spec

-----------------------------------------------------------------------------
\* What has been sent of an event about a slot, said of its receipt.
LEMMA RowsOfReceipt ==
    ASSUME Inv, NEW d \in Deliveries, NEW r \in row[d], Adjusted(d)
    PROVE  /\ receipt[d].clock \in 0 .. MaxClock /\ receipt[d].drift \in Drifts
           /\ receipt[d].clock \in Int /\ receipt[d].drift \in Int
           /\ event[d] \in EventsOf[d]
           /\ SlotStart(event[d].slot) \in Int
           /\ r.dateTime = receipt[d].clock + receipt[d].drift
           /\ r.timing = {slotTiming(event[d].slot, r.dateTime)}
  <1>1. receipt[d].clock \in 0 .. MaxClock /\ receipt[d].drift \in Drifts
    BY DEF Inv, TimesInv, Receipts
  <1>2. /\ r = Decorated(event[d], recvTime[d], baseTime[d])
        /\ event[d] \in EventsOf[d]
        /\ recvTime[d] = receipt[d].clock + receipt[d].drift
    BY DEF Inv, ReceiptInv, RowInv
  <1>3. r.dateTime = recvTime[d] /\ r.timing = {slotTiming(event[d].slot, recvTime[d])}
    BY <1>2 DEF Adjusted, Decorated, SlotRow
  <1>4. receipt[d].clock \in Int /\ receipt[d].drift \in Int
    <2>1. \A c \in 0 .. MaxClock : c \in Int
      OBVIOUS
    <2> QED
      BY <1>1, <2>1, DriftsAreIntegers, Zenon
  <1>5. SlotStart(event[d].slot) \in Int
    BY <1>2, EventsAssumption, TimesAssumption DEF Adjusted, SlotStart
  <1> QED
    BY <1>1, <1>2, <1>3, <1>4, <1>5

\* A finalized checkpoint has the time it was built at, and no slot.
LEMMA CheckpointRows ==
    ASSUME Inv, NEW d \in Deliveries, NEW r \in row[d], ~Adjusted(d)
    PROVE  r.dateTime = baseTime[d] /\ r.timing = {}
  BY DEF Inv, RowInv, Adjusted, Decorated, FinalizedCheckpoint

\* The types of the clock, of the drift and of the callbacks, and that every unsigned
\* field of a row is one, whatever the sign of what it was converted from.
THEOREM TypeCorrect == Spec => []TypeOK
  <1>1. Inv => TypeOK
    <2> SUFFICES ASSUME Inv PROVE TypeOK
      OBVIOUS
    <2>1. ASSUME NEW d \in Deliveries, NEW r \in row[d], NEW t \in r.timing
          PROVE  t.slotStartDiff \in 0 .. (UintMod - 1)
      <3>1. Adjusted(d)
        BY <2>1, CheckpointRows
      <3>2. r.dateTime - SlotStart(event[d].slot) \in Int
        BY <3>1, RowsOfReceipt
      <3>3. t.slotStartDiff = Uint64(Milliseconds(r.dateTime - SlotStart(event[d].slot)))
        BY <2>1, <3>1, RowsOfReceipt DEF slotTiming
      <3> QED
        BY <3>2, <3>3, MillisecondsClose, Uint64Range
    <2> QED
      BY <2>1 DEF TypeOK, Inv, TimesInv, ReceiptInv, Drifts
  <1> QED
    BY <1>1, InvHolds, PTL

\* The arithmetic of a reader, once the unsigned field is the milliseconds again.
LEMMA ReadBack ==
    ASSUME NEW date \in Int, NEW n \in Int, NEW field,
           Signed(field) = Milliseconds(n)
    PROVE  WithinMillisecond(date - Milli * Signed(field), date - n)
  <1>1. PICK m \in Int : m = Milli * Milliseconds(n)
    BY MillisecondsClose, TimesAssumption
  <1>2. n - m < Milli /\ m - n < Milli
    BY <1>1, MillisecondsClose DEF WithinMillisecond
  <1>3. date - m - (date - n) < Milli /\ date - n - (date - m) < Milli
    BY <1>2, TimesAssumption
  <1> QED
    BY <1>1, <1>3 DEF WithinMillisecond

\* From a row one can tell to less than a millisecond when the host received the
\* event by its own clock, unless a sync fell between the two reads of the drift,
\* and when its slot began: for offsets of both signs, for events about slots yet to
\* come, and although both numbers travel unsigned and cut to milliseconds.  The date
\* of a finalized checkpoint lies between its receipt and now.
THEOREM TimesRecovered == Spec => []ReaderRecoversTimes
  <1>1. Inv => ReaderRecoversTimes
    <2> SUFFICES ASSUME Inv, NEW d \in Deliveries, NEW r \in row[d]
                 PROVE  /\ Adjusted(d) /\ receipt[d].metaSyncs = receipt[d].syncs =>
                             WithinMillisecond(r.dateTime - Milli * Signed(declaredDrift[d]),
                                               receipt[d].clock)
                        /\ \A t \in r.timing :
                             /\ t.slotStart = SlotStart(event[d].slot)
                             /\ WithinMillisecond(r.dateTime - Milli * Signed(t.slotStartDiff),
                                                  t.slotStart)
                        /\ ~Adjusted(d) =>
                             receipt[d].clock <= r.dateTime /\ r.dateTime <= clock
      BY DEF ReaderRecoversTimes
    <2>1. ASSUME Adjusted(d), receipt[d].metaSyncs = receipt[d].syncs
          PROVE  WithinMillisecond(r.dateTime - Milli * Signed(declaredDrift[d]),
                                   receipt[d].clock)
      <3>1. PICK c \in Int, drift \in Drifts :
              c = receipt[d].clock /\ drift = receipt[d].drift /\ r.dateTime = c + drift
        BY <2>1, RowsOfReceipt
      <3>2. drift \in Int /\ Milliseconds(drift) \in Int
        BY DriftsAreIntegers, MillisecondsClose
      <3>3. declaredDrift[d] = Uint64(Milliseconds(drift))
        BY <2>1, <3>1 DEF Inv, DeclaredInv
      <3>4. -UintMod <= 2 * Milliseconds(drift) /\ 2 * Milliseconds(drift) < UintMod
        BY RangeAssumption DEF Drifts
      <3>5. Signed(declaredDrift[d]) = Milliseconds(drift)
        BY <3>2, <3>3, <3>4, SignedUint64
      <3>6. c + drift \in Int /\ (c + drift) - drift = c
        BY <3>1, <3>2
      <3> QED
        BY <3>1, <3>2, <3>5, <3>6, ReadBack
    <2>2. ASSUME NEW t \in r.timing
          PROVE  /\ t.slotStart = SlotStart(event[d].slot)
                 /\ WithinMillisecond(r.dateTime - Milli * Signed(t.slotStartDiff), t.slotStart)
      <3>1. Adjusted(d)
        BY <2>2, CheckpointRows
      <3>2. PICK start \in Int : start = SlotStart(event[d].slot)
        BY <3>1, RowsOfReceipt
      <3>3. PICK n \in Int : n = r.dateTime - start
        BY <3>1, <3>2, RowsOfReceipt
      <3>4. r.dateTime \in Int /\ r.dateTime - n = start
        BY <3>1, <3>3, RowsOfReceipt
      <3>5. t.slotStart = start /\ t.slotStartDiff = Uint64(Milliseconds(n))
        BY <2>2, <3>1, <3>2, <3>3, RowsOfReceipt DEF slotTiming
      <3>6. -UintMod <= 2 * Milliseconds(n) /\ 2 * Milliseconds(n) < UintMod
        <4>1. n = receipt[d].clock + receipt[d].drift - SlotStart(event[d].slot)
          BY <3>1, <3>2, <3>3, RowsOfReceipt
        <4>2. /\ receipt[d].drift \in Offsets \cup {0}
              /\ event[d] \in EventsOf[d]
              /\ receipt[d].clock \in 0 .. MaxClock
              /\ event[d].topic # "finalized_checkpoint"
          BY <3>1, RowsOfReceipt DEF Drifts, Adjusted
        <4> QED
          BY <4>1, <4>2, RangeAssumption, Zenon
      <3>7. Signed(t.slotStartDiff) = Milliseconds(n)
        BY <3>5, <3>6, MillisecondsClose, SignedUint64
      <3> QED
        BY <3>2, <3>4, <3>5, <3>7, ReadBack
    <2>3. ASSUME ~Adjusted(d)
          PROVE  receipt[d].clock <= r.dateTime /\ r.dateTime <= clock
      BY <2>3, CheckpointRows DEF Inv, ReceiptInv, RowInv
    <2> QED
      BY <2>1, <2>2, <2>3
  <1> QED
    BY <1>1, InvHolds, PTL

\* The dates of two rows are in the order in which the events were received, for
\* whatever pace of the two callbacks and however many syncs fall into them,
\* unless the drift had fallen from the one receipt to the other.
THEOREM DatedInOrder == Spec => []DatedInOrderOfReceipt
  <1>1. Inv => DatedInOrderOfReceipt
    <2> SUFFICES ASSUME Inv, NEW a \in Deliveries, NEW b \in Deliveries,
                        NEW r1 \in row[a], NEW r2 \in row[b], Adjusted(a), Adjusted(b),
                        receipt[a].clock < receipt[b].clock,
                        receipt[a].drift <= receipt[b].drift
                 PROVE  r1.dateTime < r2.dateTime
      BY DEF DatedInOrderOfReceipt
    <2>1. /\ r1.dateTime = receipt[a].clock + receipt[a].drift
          /\ r2.dateTime = receipt[b].clock + receipt[b].drift
      BY RowsOfReceipt
    <2>2. \A d \in {a, b} : receipt[d].clock \in Int /\ receipt[d].drift \in Int
      BY RowsOfReceipt
    <2> QED
      BY <2>1, <2>2
  <1> QED
    BY <1>1, InvHolds, PTL
=============================================================================
