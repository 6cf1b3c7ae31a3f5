---------------------------- MODULE EventPipeline ----------------------------
(***************************************************************************)
(* What happens to one event of the beacon node's stream, from the callback *)
(* registered in setupEventSubscriptions to the sinks (pkg/ethereum/        *)
(* beacon.go, internal/events/v1): metadata, the event's Ignore, the final  *)
(* sync check, the sinks and the counters.                                  *)
(*                                                                         *)
(* A delivery is one copy of an event handed to its callback.  Callbacks of *)
(* different deliveries interleave: every read or write of something shared *)
(* (the node's sync state, the topic manager, the duplicate cache, a sink,  *)
(* the counters) is a step of its own.                                      *)
(*                                                                         *)
(* Data abstraction: an event is its topic, its slot (its epoch for a        *)
(* finalized checkpoint), what it is about (a block, a payload, a committee) *)
(* and the rest of its content.  Hashes do not collide.  Time passes in      *)
(* units that divide the cache's TTL, in which the wallclock slot stays.     *)
(* The counters are totals: the reset that Summary.Print does is left to the  *)
(* module Summary.                                                          *)
(***************************************************************************)
EXTENDS Integers, FiniteSets, Sequences

CONSTANTS
    Events,        \* what the node may send
    NoPayload,     \* what an event is about whose payload is nil
    Deliveries,    \* copies received (a bound)
    Streams,       \* the events they may carry, as functions (a bound)
    WallclockSlot, \* the node's current slot
    MaxReasonableSlotDifference,
    UintMod,       \* 2^64
    NSinks,        \* number of sinks of the wrapper
    TTL            \* how long the cache remembers, events.TTL

\* Topics whose events a node may send with a nil payload.
NilableTopics == {"execution_payload", "execution_payload_gossip", "execution_payload_available",
                  "execution_payload_bid", "payload_attestation_message", "proposer_preferences"}

\* The topics with a callback.
Topics == {"block", "block_gossip", "head", "finalized_checkpoint", "chain_reorg",
           "single_attestation", "data_column_sidecar", "fast_confirmation", "head_v2"}
          \cup NilableTopics

ASSUME UintModAssumption == UintMod \in Nat \ {0}

Uint64 == 0 .. UintMod - 1

ASSUME EventsAssumption ==
    \A e \in Events :
        /\ e \in [topic : Topics, number : Uint64, about : Nat \cup {NoPayload}, rest : Nat]
        /\ e.about = NoPayload => e.topic \in NilableTopics

ASSUME DeliveriesAssumption == IsFiniteSet(Deliveries)

ASSUME StreamsAssumption == Streams \subseteq [Deliveries -> Events]

ASSUME WallclockAssumption ==
    WallclockSlot \in Uint64 /\ MaxReasonableSlotDifference \in Nat

ASSUME NSinksAssumption == NSinks \in Nat

ASSUME TTLAssumption == TTL \in Nat \ {0}

Attestations == {e \in Events : e.topic = "single_attestation"}

\* The subnet of an attestation's committee.
SubnetOf(e) == e.about % 64

NoSubnet == -1
Subnets == {SubnetOf(e) : e \in Attestations}

-----------------------------------------------------------------------------
(* What Ignore makes of an event.                                          *)

PayloadMissing(e) == e.about = NoPayload

\* A checkpoint has an epoch.
EventSlot(e) ==
    IF e.topic = "finalized_checkpoint" THEN (e.number * 32) % UintMod ELSE e.number

isSlotDifferenceTooLarge(slotA, slotB) ==
    LET slotDiff == IF slotA > slotB THEN slotA - slotB ELSE slotB - slotA
    IN  slotDiff > MaxReasonableSlotDifference

\* Mutant: both payload topics use one cache.
CacheOf_Shared(topic) ==
    IF topic = "execution_payload_gossip" THEN "execution_payload" ELSE topic

\* Each callback has a cache of its own.
CacheOf(topic) == topic

\* Mutant: current_slot is part of the key.
DuplicateKey_WholeEvent(e) == [e EXCEPT !.topic = CacheOf(e.topic)]

\* What the cache compares: a fast confirmation's current_slot is left out.
DuplicateKey(e) ==
    [e EXCEPT !.topic = CacheOf(e.topic),
              !.rest  = IF e.topic = "fast_confirmation" THEN 0 ELSE e.rest]

Keys == {DuplicateKey(e) : e \in Events}

VARIABLES
    synced,          \* the beacon node's sync state (external)
    selectedSubnet,  \* the topic manager's choice (see TopicManager)
    cache,           \* how much longer each key is remembered, 0 if it is not
    pc,              \* where each delivery's callback is
    event,           \* the event of each delivery
    sinkAt,          \* the next sink in handleDecoratedEvent's loop
    failure,         \* its local variable
    eventsExported,  \* Summary.eventsExported
    failedEvents,    \* Summary.failedEvents
    \* History:
    recorded,        \* attestations reported to the topic manager
    tried,           \* sinks given each delivery, with their success
    selectedSince,   \* subnets selected since the delivery began
    sinceAccepted    \* time since each event last passed its cache

externalVars == <<synced, selectedSubnet>>
sinkVars == <<sinkAt, failure, tried>>
countVars == <<eventsExported, failedEvents>>
vars == <<externalVars, cache, pc, event, sinkVars, countVars, recorded,
          selectedSince, sinceAccepted>>

Ended == {"metaError", "noPayload", "unsynced", "unexpected", "inactive", "hashError",
          "duplicate", "unsyncedLate", "exported"}

Running == {"meta", "ignore", "record", "active", "dedup", "final", "sinks", "count", "countFailed"}

TypeOK ==
    /\ synced \in BOOLEAN
    /\ selectedSubnet \in Subnets \cup {NoSubnet}
    /\ cache \in [Keys -> 0 .. TTL]
    /\ pc \in [Deliveries -> {"waiting"} \cup Running \cup Ended]
    /\ event \in [Deliveries -> Events]
    /\ sinkAt \in [Deliveries -> 1 .. NSinks + 1]
    /\ failure \in [Deliveries -> BOOLEAN]
    /\ eventsExported \in Nat
    /\ failedEvents \in Nat
    /\ recorded \in SUBSET Deliveries
    /\ tried \in [Deliveries -> Seq(BOOLEAN)]
    /\ selectedSince \in [Deliveries -> SUBSET (Subnets \cup {NoSubnet})]
    /\ sinceAccepted \in [Events -> 0 .. TTL]

Init ==
    /\ synced \in BOOLEAN
    /\ selectedSubnet \in Subnets \cup {NoSubnet}
    /\ cache = [k \in Keys |-> 0]
    /\ pc = [d \in Deliveries |-> "waiting"]
    /\ event \in Streams
    /\ sinkAt = [d \in Deliveries |-> 1]
    /\ failure = [d \in Deliveries |-> FALSE]
    /\ eventsExported = 0
    /\ failedEvents = 0
    /\ recorded = {}
    /\ tried = [d \in Deliveries |-> <<>>]
    /\ selectedSince = [d \in Deliveries |-> {}]
    /\ sinceAccepted = [e \in Events |-> TTL]

Goto(d, label) == pc' = [pc EXCEPT ![d] = label]

-----------------------------------------------------------------------------
(* The environment.                                                        *)

SyncChanges ==
    /\ synced' = ~synced
    /\ UNCHANGED <<selectedSubnet, cache, pc, event, sinkVars, countVars,
                   recorded, selectedSince, sinceAccepted>>

\* SetAdvertisedSubnets or a refresh selects another subnet, or none.
SelectionChanges ==
    /\ selectedSubnet' \in (Subnets \cup {NoSubnet}) \ {selectedSubnet}
    /\ selectedSince' = [d \in Deliveries |->
         IF pc[d] \in Running THEN selectedSince[d] \cup {selectedSubnet'} ELSE selectedSince[d]]
    /\ UNCHANGED <<synced, cache, pc, event, sinkVars, countVars, recorded, sinceAccepted>>

Tick ==
    /\ \/ \E k \in Keys : cache[k] > 0
       \/ \E e \in Events : sinceAccepted[e] < TTL
    /\ cache' = [k \in Keys |-> IF cache[k] > 0 THEN cache[k] - 1 ELSE 0]
    /\ sinceAccepted' = [e \in Events |->
         IF sinceAccepted[e] < TTL THEN sinceAccepted[e] + 1 ELSE TTL]
    /\ UNCHANGED <<externalVars, pc, event, sinkVars, countVars, recorded, selectedSince>>

-----------------------------------------------------------------------------
(* The callback up to the duplicate cache.                                 *)

Deliver(d) ==
    /\ pc[d] = "waiting"
    /\ Goto(d, "meta")
    /\ selectedSince' = [selectedSince EXCEPT ![d] = {selectedSubnet}]
    /\ UNCHANGED <<externalVars, cache, event, sinkVars, countVars, recorded, sinceAccepted>>

\* The node's identity may not be known yet.
CreateEventMeta(d) ==
    /\ pc[d] = "meta"
    /\ Goto(d, "ignore") \/ Goto(d, "metaError")
    /\ UNCHANGED <<externalVars, cache, event, sinkVars, countVars, recorded,
                   selectedSince, sinceAccepted>>

\* Mutant: attestations are recorded only after the active-subnet filter.
IgnoreChecks_SkipsRecording(d) ==
    /\ pc[d] = "ignore"
    /\ Goto(d, IF event[d] \in Attestations THEN "active" ELSE "dedup")
    /\ UNCHANGED <<externalVars, cache, event, sinkVars, countVars, recorded,
                   selectedSince, sinceAccepted>>

\* The head of every Ignore: payload, sync state, then the slot's network, which
\* cannot be judged while the node has no wallclock.
IgnoreChecks(d) ==
    /\ pc[d] = "ignore"
    /\ \/ PayloadMissing(event[d]) /\ Goto(d, "noPayload")
       \/ ~PayloadMissing(event[d]) /\ ~synced /\ Goto(d, "unsynced")
       \/ /\ ~PayloadMissing(event[d]) /\ synced
          /\ \E hasWallclock \in BOOLEAN :
               IF hasWallclock /\ isSlotDifferenceTooLarge(EventSlot(event[d]), WallclockSlot)
               THEN Goto(d, "unexpected")
               ELSE Goto(d, IF event[d] \in Attestations THEN "record" ELSE "dedup")
    /\ UNCHANGED <<externalVars, cache, event, sinkVars, countVars, recorded,
                   selectedSince, sinceAccepted>>

\* The topic manager is told of every attestation, forwarded or not.
RecordSeenSubnet(d) ==
    /\ pc[d] = "record"
    /\ Goto(d, "active")
    /\ recorded' = recorded \cup {d}
    /\ UNCHANGED <<externalVars, cache, event, sinkVars, countVars, selectedSince, sinceAccepted>>

\* Mutant: without a selection every subnet counts as active.
IsActiveSubnet_NoneMeansAll(subnet) ==
    selectedSubnet = NoSubnet \/ selectedSubnet = subnet

IsActiveSubnet(subnet) == selectedSubnet >= 0 /\ selectedSubnet = subnet

CheckActiveSubnet(d) ==
    /\ pc[d] = "active"
    /\ Goto(d, IF IsActiveSubnet(SubnetOf(event[d])) THEN "dedup" ELSE "inactive")
    /\ UNCHANGED <<externalVars, cache, event, sinkVars, countVars, recorded,
                   selectedSince, sinceAccepted>>

Retrieved(key) == cache[key] > 0

\* Mutant: a touch adds a TTL to what is left of the entry's.
Remembered_Adds(key) == cache[key] + TTL

Remembered(key) == TTL

\* The same event to its readers: for a fast confirmation, the same block.
Same(e, f) == [e EXCEPT !.rest = 0] = [f EXCEPT !.rest = 0]
              /\ (e.rest = f.rest \/ e.topic = "fast_confirmation")

\* GetOrSet: one atomic call.  It stores the key with the default TTL, and a
\* hit touches the entry, which begins its TTL anew.
Dedup(d) ==
    LET key == DuplicateKey(event[d]) IN
    /\ pc[d] = "dedup"
    /\ \/ /\ Goto(d, "hashError")
          /\ UNCHANGED <<cache, sinceAccepted>>
       \/ /\ cache' = [cache EXCEPT ![key] = Remembered(key)]
          /\ IF Retrieved(key)
             THEN Goto(d, "duplicate") /\ UNCHANGED sinceAccepted
             ELSE /\ Goto(d, "final")
                  /\ sinceAccepted' = [e \in Events |->
                       IF Same(e, event[d]) THEN 0 ELSE sinceAccepted[e]]
    /\ UNCHANGED <<externalVars, event, sinkVars, countVars, recorded, selectedSince>>

-----------------------------------------------------------------------------
(* handleDecoratedEvent.                                                   *)

FinalSyncCheck(d) ==
    /\ pc[d] = "final"
    /\ Goto(d, IF synced THEN "sinks" ELSE "unsyncedLate")
    /\ UNCHANGED <<externalVars, cache, event, sinkVars, countVars, recorded,
                   selectedSince, sinceAccepted>>

SinkResult(d, ok) == failure[d] \/ ~ok

\* Mutant: the loop ends at the first sink that fails.
NextSink_Breaks(d, ok) == IF ok THEN sinkAt[d] + 1 ELSE NSinks + 1

NextSink(d, ok) == sinkAt[d] + 1

HandleEvent(d) ==
    /\ pc[d] = "sinks"
    /\ sinkAt[d] <= NSinks
    /\ \E ok \in BOOLEAN :
         /\ tried' = [tried EXCEPT ![d] = Append(@, ok)]
         /\ failure' = [failure EXCEPT ![d] = SinkResult(d, ok)]
         /\ sinkAt' = [sinkAt EXCEPT ![d] = NextSink(d, ok)]
    /\ UNCHANGED <<externalVars, cache, pc, event, countVars, recorded, selectedSince, sinceAccepted>>

SinksDone(d) ==
    /\ pc[d] = "sinks"
    /\ sinkAt[d] > NSinks
    /\ Goto(d, "count")
    /\ UNCHANGED <<externalVars, cache, event, sinkVars, countVars, recorded,
                   selectedSince, sinceAccepted>>

\* AddDecoratedEvent and AddEventsExported, to a counter that is never reset here.
CountExported(d) ==
    /\ pc[d] = "count"
    /\ Goto(d, IF failure[d] THEN "countFailed" ELSE "exported")
    /\ eventsExported' = eventsExported + 1
    /\ UNCHANGED <<externalVars, cache, event, sinkVars, failedEvents, recorded,
                   selectedSince, sinceAccepted>>

CountFailed(d) ==
    /\ pc[d] = "countFailed"
    /\ Goto(d, "exported")
    /\ failedEvents' = failedEvents + 1
    /\ UNCHANGED <<externalVars, cache, event, sinkVars, eventsExported, recorded,
                   selectedSince, sinceAccepted>>

-----------------------------------------------------------------------------
Step(d) ==
    \/ CreateEventMeta(d)
    \/ IgnoreChecks(d)
    \/ RecordSeenSubnet(d)
    \/ CheckActiveSubnet(d)
    \/ Dedup(d)
    \/ FinalSyncCheck(d)
    \/ HandleEvent(d)
    \/ SinksDone(d)
    \/ CountExported(d)
    \/ CountFailed(d)

Next ==
    \/ SyncChanges
    \/ SelectionChanges
    \/ Tick
    \/ \E d \in Deliveries : Deliver(d) \/ Step(d)

Spec == Init /\ [][Next]_vars

-----------------------------------------------------------------------------
(* Properties.                                                             *)

Accepts(e) ==
    \E d \in Deliveries : event[d] = e /\ pc[d] = "dedup" /\ pc'[d] = "final"

\* However its copies interleave, an event passes its duplicate cache at most
\* once in any TTL; for a fast confirmation, whatever its current_slot.
AcceptedOncePerTTL ==
    [][\A e \in Events : Accepts(e) => sinceAccepted[e] = TTL]_vars

\* A copy is dropped as a duplicate only if another copy of the same event has
\* passed the cache: the first copy is never its own duplicate, nor that of an
\* event of another topic with the same content.
Passed == {"final", "sinks", "count", "countFailed", "unsyncedLate", "exported"}

DuplicatesHaveAnOriginal ==
    \A d \in Deliveries : pc[d] = "duplicate" =>
        \E original \in Deliveries :
            original # d /\ Same(event[original], event[d]) /\ pc[original] \in Passed

Refused(d) == \E i \in 1 .. Len(tried[d]) : ~tried[d][i]

\* An exported event was given to every sink, whichever of them failed.  When no
\* callback is running, the counters are the number of exported events and the
\* number of those that some sink refused.
CountersMatchSinks ==
    /\ \A d \in Deliveries : pc[d] = "exported" => Len(tried[d]) = NSinks
    /\ (\A d \in Deliveries : pc[d] \notin Running) =>
         /\ eventsExported = Cardinality({d \in Deliveries : pc[d] = "exported"})
         /\ failedEvents = Cardinality({d \in Deliveries : Refused(d)})

\* An attestation reaches a sink only if its subnet was the selected one at some
\* moment since it was received, however the selection changes meanwhile.
OnlySelectedForwarded ==
    \A d \in Deliveries : event[d] \in Attestations /\ pc[d] \in Passed =>
        SubnetOf(event[d]) \in selectedSince[d]

\* The topic manager is told of an attestation before the check of its subnet, the
\* hash or the duplicate cache can drop it, so that it sees the subnets that are not
\* forwarded too.  The checks of sync state and network come before it.
RecordedBeforeFiltered ==
    \A d \in Deliveries :
        event[d] \in Attestations /\ pc[d] \in Passed \cup {"inactive", "duplicate", "hashError"}
        => d \in recorded
=============================================================================
