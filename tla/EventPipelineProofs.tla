-------------------------- MODULE EventPipelineProofs --------------------------
(* Theorems about EventPipeline, for every value of its constants.          *)
EXTENDS EventPipeline, FiniteSetTheorems, TLAPS

USE UintModAssumption, EventsAssumption, StreamsAssumption, NSinksAssumption, TTLAssumption

-----------------------------------------------------------------------------
(* Lemmas about events.                                                    *)

\* Every event has a key, and the subnet of an attestation is a subnet.
LEMMA KeyAndSubnet ==
    ASSUME NEW e \in Events
    PROVE  /\ DuplicateKey(e) \in Keys
           /\ e \in Attestations => SubnetOf(e) \in Subnets
  BY DEF Keys, Subnets, Attestations

\* An event is the same as another to its readers only if the duplicate cache
\* compares the same: no two copies of it have different keys.
LEMMA SameKey ==
    ASSUME NEW e \in Events, NEW f \in Events, Same(e, f)
    PROVE  DuplicateKey(e) = DuplicateKey(f)
  <1>1. /\ e \in [topic : Topics, number : Uint64, about : Nat \cup {NoPayload}, rest : Nat]
        /\ f \in [topic : Topics, number : Uint64, about : Nat \cup {NoPayload}, rest : Nat]
    BY EventsAssumption
  <1>2. e.topic = f.topic /\ e.number = f.number /\ e.about = f.about
    <2> DEFINE e0 == [e EXCEPT !.rest = 0]
               f0 == [f EXCEPT !.rest = 0]
    <2>1. e0.topic = e.topic /\ e0.number = e.number /\ e0.about = e.about
      BY <1>1
    <2>2. f0.topic = f.topic /\ f0.number = f.number /\ f0.about = f.about
      BY <1>1
    <2>3. e0 = f0
      BY DEF Same
    <2> HIDE DEF e0, f0
    <2> QED BY <2>1, <2>2, <2>3
  <1>3. e.rest = f.rest \/ e.topic = "fast_confirmation"
    BY DEF Same
  <1> QED BY <1>1, <1>2, <1>3 DEF DuplicateKey, CacheOf

\* What a look-up does to the cache and to the history: the entry it looks up
\* gets a whole TTL, and only an event that was not there is accepted.
LEMMA DedupEffect ==
    ASSUME NEW d \in Deliveries, Dedup(d)
    PROVE  \/ UNCHANGED <<cache, sinceAccepted>>
           \/ /\ cache' = [cache EXCEPT ![DuplicateKey(event[d])] = TTL]
              /\ \/ UNCHANGED sinceAccepted
                 \/ sinceAccepted' = [e \in Events |->
                       IF Same(e, event[d]) THEN 0 ELSE sinceAccepted[e]]
  BY Zenon DEF Dedup, Remembered

-----------------------------------------------------------------------------
(* Type correctness.                                                       *)

\* The steps of the environment keep every variable in its type.
LEMMA EnvironmentType ==
    ASSUME TypeOK, SyncChanges \/ SelectionChanges \/ Tick
    PROVE  TypeOK'
  <1>1. CASE SyncChanges
    BY <1>1 DEF SyncChanges, TypeOK, sinkVars, countVars
  <1>2. CASE SelectionChanges
    <2>1. selectedSubnet' \in Subnets \cup {NoSubnet}
      BY <1>2 DEF SelectionChanges
    <2>2. selectedSince' \in [Deliveries -> SUBSET (Subnets \cup {NoSubnet})]
      BY <1>2, <2>1 DEF SelectionChanges, TypeOK
    <2> QED BY <1>2, <2>1, <2>2 DEF SelectionChanges, TypeOK, sinkVars, countVars
  <1>3. CASE Tick
    <2>1. cache' \in [Keys -> 0 .. TTL]
      BY <1>3 DEF Tick, TypeOK
    <2>2. sinceAccepted' \in [Events -> 0 .. TTL]
      BY <1>3 DEF Tick, TypeOK
    <2> QED BY <1>3, <2>1, <2>2 DEF Tick, TypeOK, sinkVars, countVars, externalVars
  <1> QED BY <1>1, <1>2, <1>3

\* So do the steps of a callback before it reaches the sinks.
LEMMA FilterType ==
    ASSUME TypeOK, NEW d \in Deliveries,
           \/ Deliver(d) \/ CreateEventMeta(d) \/ IgnoreChecks(d) \/ RecordSeenSubnet(d)
           \/ CheckActiveSubnet(d) \/ Dedup(d) \/ FinalSyncCheck(d)
    PROVE  TypeOK'
  <1> USE DEF TypeOK, Goto, sinkVars, countVars, externalVars, Running, Ended
  <1>1. CASE Deliver(d)
    BY <1>1 DEF Deliver
  <1>2. CASE CreateEventMeta(d)
    BY <1>2 DEF CreateEventMeta
  <1>3. CASE IgnoreChecks(d)
    BY <1>3 DEF IgnoreChecks
  <1>4. CASE RecordSeenSubnet(d)
    BY <1>4 DEF RecordSeenSubnet
  <1>5. CASE CheckActiveSubnet(d)
    BY <1>5 DEF CheckActiveSubnet
  <1>6. CASE Dedup(d)
    <2>1. DuplicateKey(event[d]) \in Keys
      BY KeyAndSubnet
    <2> HIDE DEF TypeOK
    <2>2. cache' \in [Keys -> 0 .. TTL]
      <3>1. cache \in [Keys -> 0 .. TTL] /\ TTL \in 0 .. TTL
        BY DEF TypeOK
      <3>2. cache' = cache \/ cache' = [cache EXCEPT ![DuplicateKey(event[d])] = TTL]
        BY <1>6, DedupEffect
      <3> QED BY <2>1, <3>1, <3>2
    <2>3. sinceAccepted' \in [Events -> 0 .. TTL]
      <3>1. sinceAccepted \in [Events -> 0 .. TTL] /\ 0 \in 0 .. TTL
        BY DEF TypeOK
      <3>2. \/ sinceAccepted' = sinceAccepted
            \/ sinceAccepted' = [e \in Events |->
                  IF Same(e, event[d]) THEN 0 ELSE sinceAccepted[e]]
        BY <1>6, DedupEffect
      <3> QED BY <3>1, <3>2
    <2> USE DEF TypeOK
    <2> QED BY <1>6, <2>2, <2>3 DEF Dedup
  <1>7. CASE FinalSyncCheck(d)
    BY <1>7 DEF FinalSyncCheck
  <1> QED BY <1>1, <1>2, <1>3, <1>4, <1>5, <1>6, <1>7

\* And those of the sinks and the counters.
LEMMA SinkType ==
    ASSUME TypeOK, NEW d \in Deliveries,
           HandleEvent(d) \/ SinksDone(d) \/ CountExported(d) \/ CountFailed(d)
    PROVE  TypeOK'
  <1> USE DEF TypeOK, Goto, sinkVars, countVars, externalVars, Running, Ended
  <1>1. CASE HandleEvent(d)
    <2>1. PICK ok \in BOOLEAN :
            /\ tried' = [tried EXCEPT ![d] = Append(@, ok)]
            /\ failure' = [failure EXCEPT ![d] = SinkResult(d, ok)]
            /\ sinkAt' = [sinkAt EXCEPT ![d] = NextSink(d, ok)]
      BY <1>1 DEF HandleEvent
    <2>2. tried' \in [Deliveries -> Seq(BOOLEAN)]
      <3>1. Append(tried[d], ok) \in Seq(BOOLEAN)
        OBVIOUS
      <3> QED BY <2>1, <3>1
    <2>3. failure' \in [Deliveries -> BOOLEAN]
      <3>1. SinkResult(d, ok) \in BOOLEAN
        BY DEF SinkResult
      <3> QED BY <2>1, <3>1
    <2>4. sinkAt' \in [Deliveries -> 1 .. NSinks + 1]
      <3>1. NextSink(d, ok) \in 1 .. NSinks + 1
        BY <1>1 DEF HandleEvent, NextSink
      <3> QED BY <2>1, <3>1
    <2> QED BY <1>1, <2>2, <2>3, <2>4 DEF HandleEvent
  <1>2. CASE SinksDone(d)
    BY <1>2 DEF SinksDone
  <1>3. CASE CountExported(d)
    BY <1>3 DEF CountExported
  <1>4. CASE CountFailed(d)
    BY <1>4 DEF CountFailed
  <1> QED BY <1>1, <1>2, <1>3, <1>4

\* Type correctness: the caches, counters and callbacks of the pipeline keep the
\* types their variables have in the code.
THEOREM TypeCorrect == Spec => []TypeOK
  <1>1. Init => TypeOK
    <2> SUFFICES ASSUME Init PROVE TypeOK
      OBVIOUS
    <2>1. tried \in [Deliveries -> Seq(BOOLEAN)]
      BY DEF Init
    <2>2. cache \in [Keys -> 0 .. TTL] /\ sinceAccepted \in [Events -> 0 .. TTL]
      BY DEF Init
    <2> QED BY <2>1, <2>2 DEF Init, TypeOK
  <1>2. TypeOK /\ [Next]_vars => TypeOK'
    <2> SUFFICES ASSUME TypeOK, [Next]_vars PROVE TypeOK'
      OBVIOUS
    <2>1. ASSUME NEW d \in Deliveries, Deliver(d) \/ Step(d) PROVE TypeOK'
      BY <2>1, FilterType, SinkType DEF Step
    <2>2. CASE UNCHANGED vars
      BY <2>2 DEF TypeOK, vars, sinkVars, countVars, externalVars
    <2> QED BY <2>1, <2>2, EnvironmentType DEF Next
  <1> QED BY <1>1, <1>2, PTL DEF Spec

-----------------------------------------------------------------------------
(* An event is accepted at most once in a TTL.                             *)

\* What is left of an entry and the time since its event passed the cache add
\* up to the TTL or more.
Remembers == \A e \in Events : cache[DuplicateKey(e)] + sinceAccepted[e] >= TTL

\* A look-up keeps that: it starts the TTL of the key it looks up anew, which is
\* the key of every event that is now accepted.
LEMMA DedupRemembers ==
    ASSUME TypeOK, Remembers, NEW d \in Deliveries, Dedup(d)
    PROVE  Remembers'
  <1> DEFINE key == DuplicateKey(event[d])
  <1>1. event[d] \in Events /\ key \in Keys
    BY KeyAndSubnet DEF TypeOK
  <1> SUFFICES ASSUME NEW e \in Events
               PROVE  cache'[DuplicateKey(e)] + sinceAccepted'[e] >= TTL
    BY DEF Remembers
  <1>2. DuplicateKey(e) \in Keys
    BY KeyAndSubnet
  <1>3. cache'[DuplicateKey(e)] \in 0 .. TTL /\ sinceAccepted'[e] \in 0 .. TTL
    BY <1>2, FilterType DEF TypeOK
  <1>4. CASE UNCHANGED <<cache, sinceAccepted>>
    BY <1>4 DEF Remembers
  <1>5. CASE /\ cache' = [cache EXCEPT ![key] = TTL]
             /\ \/ UNCHANGED sinceAccepted
                \/ sinceAccepted' = [f \in Events |->
                      IF Same(f, event[d]) THEN 0 ELSE sinceAccepted[f]]
    <2>1. CASE DuplicateKey(e) = key
      <3>1. cache'[DuplicateKey(e)] = TTL
        BY <1>1, <1>5, <2>1 DEF TypeOK
      <3> QED BY <1>3, <3>1
    <2>2. CASE DuplicateKey(e) # key
      <3>1. ~Same(e, event[d])
        BY <1>1, <2>2, SameKey
      <3>2. sinceAccepted'[e] = sinceAccepted[e]
        BY <1>5, <3>1
      <3>3. cache'[DuplicateKey(e)] = cache[DuplicateKey(e)]
        BY <1>2, <1>5, <2>2 DEF TypeOK
      <3> QED BY <3>2, <3>3 DEF Remembers
    <2> QED BY <2>1, <2>2
  <1> QED BY <1>4, <1>5, DedupEffect

\* It is inductive with TypeOK: the clock takes from the one what it adds to the
\* other.
LEMMA RemembersStep ==
    ASSUME TypeOK, Remembers, [Next]_vars
    PROVE  Remembers'
  <1>1. CASE Tick
    <2> SUFFICES ASSUME NEW e \in Events
                 PROVE  cache'[DuplicateKey(e)] + sinceAccepted'[e] >= TTL
      BY DEF Remembers
    <2> DEFINE key == DuplicateKey(e)
    <2>1. key \in Keys
      BY KeyAndSubnet
    <2>2. cache[key] \in 0 .. TTL /\ sinceAccepted[e] \in 0 .. TTL
          /\ cache[key] + sinceAccepted[e] >= TTL
      BY <2>1 DEF TypeOK, Remembers
    <2>3. cache'[key] = IF cache[key] > 0 THEN cache[key] - 1 ELSE 0
      BY <1>1, <2>1 DEF Tick
    <2>4. sinceAccepted'[e] = IF sinceAccepted[e] < TTL THEN sinceAccepted[e] + 1 ELSE TTL
      BY <1>1 DEF Tick
    <2> HIDE DEF key
    <2>5. cache'[key] + sinceAccepted'[e] >= TTL
      BY <2>2, <2>3, <2>4
    <2> QED BY <2>5 DEF key
  <1>2. ASSUME NEW d \in Deliveries, Dedup(d) PROVE Remembers'
    BY <1>2, DedupRemembers
  <1>3. ASSUME NEW d \in Deliveries, Deliver(d) \/ Step(d), ~Dedup(d)
        PROVE  UNCHANGED <<cache, sinceAccepted>>
    BY <1>3 DEF Deliver, Step, CreateEventMeta, IgnoreChecks, RecordSeenSubnet, CheckActiveSubnet,
                FinalSyncCheck, HandleEvent, SinksDone, CountExported, CountFailed
  <1>4. CASE SyncChanges \/ SelectionChanges \/ UNCHANGED vars
    BY <1>4 DEF SyncChanges, SelectionChanges, vars, Remembers
  <1>5. CASE UNCHANGED <<cache, sinceAccepted>>
    BY <1>5 DEF Remembers
  <1> QED BY <1>1, <1>2, <1>3, <1>4, <1>5 DEF Next

\* No event passes the cache of its topic twice within a TTL, however many
\* copies arrive, on whatever callbacks, and whichever of them fail later.
THEOREM AcceptedOnce == Spec => AcceptedOncePerTTL
  <1>1. Init => Remembers
    BY KeyAndSubnet DEF Init, Remembers
  <1>2. ASSUME TypeOK, Remembers, [Next]_vars, NEW e \in Events, Accepts(e)
        PROVE  sinceAccepted[e] = TTL
    <2>1. PICK d \in Deliveries : event[d] = e /\ pc[d] = "dedup" /\ pc'[d] = "final"
      BY <1>2 DEF Accepts
    <2>2. Dedup(d)
      <3>1. ASSUME NEW f \in Deliveries, Deliver(f) \/ Step(f), pc'[d] # pc[d]
            PROVE  f = d
        <4>1. \E label : Goto(f, label) \/ UNCHANGED pc
          BY <3>1, Zenon DEF Deliver, Step, CreateEventMeta, IgnoreChecks, RecordSeenSubnet,
                    CheckActiveSubnet, Dedup, FinalSyncCheck, HandleEvent, SinksDone,
                    CountExported, CountFailed
        <4> QED BY <1>2, <3>1, <4>1 DEF Goto, TypeOK
      <3>2. PICK f \in Deliveries : Deliver(f) \/ Step(f)
        BY <1>2, <2>1 DEF Next, SyncChanges, SelectionChanges, Tick, vars
      <3>3. Deliver(d) \/ Step(d)
        BY <2>1, <3>1, <3>2
      <3> QED BY <2>1, <3>3 DEF Deliver, Step, CreateEventMeta, IgnoreChecks, RecordSeenSubnet,
                    CheckActiveSubnet, FinalSyncCheck, HandleEvent, SinksDone,
                    CountExported, CountFailed
    <2>3. ~Retrieved(DuplicateKey(e))
      BY <1>2, <2>1, <2>2 DEF Dedup, Goto, TypeOK
    <2>4. cache[DuplicateKey(e)] \in 0 .. TTL /\ sinceAccepted[e] \in 0 .. TTL
          /\ cache[DuplicateKey(e)] + sinceAccepted[e] >= TTL
      BY <1>2, KeyAndSubnet DEF TypeOK, Remembers
    <2> QED BY <2>3, <2>4 DEF Retrieved
  <1>3. TypeOK /\ Remembers /\ [Next]_vars
        => [\A e \in Events : Accepts(e) => sinceAccepted[e] = TTL]_vars
    BY <1>2
  <1>4. TypeOK /\ Remembers /\ [Next]_vars => Remembers'
    BY RemembersStep
  <1> QED BY <1>1, <1>3, <1>4, TypeCorrect, PTL DEF Spec, AcceptedOncePerTTL

-----------------------------------------------------------------------------
(* What is forwarded, and what the topic manager is told.                  *)

\* Where the two properties come from: a running callback has seen the present
\* selection, an attestation gets to the cache through the check of its subnet,
\* and to that check only when it is recorded.
FilterInv ==
    \A d \in Deliveries :
        /\ pc[d] \in Running => selectedSubnet \in selectedSince[d]
        /\ event[d] \in Attestations =>
             /\ pc[d] \in Passed \cup {"dedup"} => SubnetOf(event[d]) \in selectedSince[d]
             /\ pc[d] \in Passed \cup {"active", "inactive", "dedup", "duplicate", "hashError"}
                  => d \in recorded

\* A callback's step keeps it, for itself and for the others.
LEMMA FilterInvCallback ==
    ASSUME TypeOK, FilterInv, NEW f \in Deliveries, Deliver(f) \/ Step(f)
    PROVE  FilterInv'
  <1> SUFFICES ASSUME NEW d \in Deliveries
               PROVE  /\ pc'[d] \in Running => selectedSubnet' \in selectedSince'[d]
                      /\ event'[d] \in Attestations =>
                           /\ pc'[d] \in Passed \cup {"dedup"}
                                => SubnetOf(event'[d]) \in selectedSince'[d]
                           /\ pc'[d] \in Passed \cup
                                {"active", "inactive", "dedup", "duplicate", "hashError"}
                                => d \in recorded'
    BY DEF FilterInv
  <1> USE DEF FilterInv, TypeOK, Goto, externalVars, Running, Passed
  <1>1. CASE Deliver(f)
    BY <1>1 DEF Deliver
  <1>2. CASE CreateEventMeta(f)
    BY <1>2 DEF CreateEventMeta
  <1>3. CASE IgnoreChecks(f)
    BY <1>3 DEF IgnoreChecks
  <1>4. CASE RecordSeenSubnet(f)
    BY <1>4 DEF RecordSeenSubnet
  <1>5. CASE CheckActiveSubnet(f)
    BY <1>5 DEF CheckActiveSubnet, IsActiveSubnet
  <1>6. CASE Dedup(f)
    BY <1>6 DEF Dedup
  <1>7. CASE FinalSyncCheck(f)
    BY <1>7 DEF FinalSyncCheck
  <1>8. CASE HandleEvent(f)
    BY <1>8 DEF HandleEvent
  <1>9. CASE SinksDone(f)
    BY <1>9 DEF SinksDone
  <1>10. CASE CountExported(f)
    BY <1>10 DEF CountExported
  <1>11. CASE CountFailed(f)
    BY <1>11 DEF CountFailed
  <1> QED BY <1>1, <1>2, <1>3, <1>4, <1>5, <1>6, <1>7, <1>8, <1>9, <1>10, <1>11 DEF Step

\* So does every other step; a change of the selection shows to whoever runs.
LEMMA FilterInvStep ==
    ASSUME TypeOK, FilterInv, [Next]_vars
    PROVE  FilterInv'
  <1>1. CASE SelectionChanges
    BY <1>1 DEF SelectionChanges, FilterInv, TypeOK
  <1>2. CASE SyncChanges \/ Tick \/ UNCHANGED vars
    BY <1>2 DEF SyncChanges, Tick, vars, externalVars, FilterInv
  <1> QED BY <1>1, <1>2, FilterInvCallback DEF Next

\* The invariant of the filters holds in every reachable state.
LEMMA FilterInvHolds == Spec => []FilterInv
  <1>1. Init => FilterInv
    BY DEF Init, FilterInv, Running, Passed
  <1> QED BY <1>1, FilterInvStep, TypeCorrect, PTL DEF Spec

\* An attestation that passes the filters is of a subnet that was selected since
\* it was received.
THEOREM SelectedOnly == Spec => []OnlySelectedForwarded
  <1>1. FilterInv => OnlySelectedForwarded
    BY DEF FilterInv, OnlySelectedForwarded
  <1> QED BY <1>1, FilterInvHolds, PTL

\* The topic manager hears of every attestation before a filter can drop it.
THEOREM RecordedFirst == Spec => []RecordedBeforeFiltered
  <1>1. FilterInv => RecordedBeforeFiltered
    BY DEF FilterInv, RecordedBeforeFiltered
  <1> QED BY <1>1, FilterInvHolds, PTL

-----------------------------------------------------------------------------
(* Duplicates.                                                             *)

\* Two events with one key are the same to their readers.
LEMMA KeySame ==
    ASSUME NEW e \in Events, NEW f \in Events, DuplicateKey(e) = DuplicateKey(f)
    PROVE  Same(e, f)
  <1>1. /\ e \in [topic : Topics, number : Uint64, about : Nat \cup {NoPayload}, rest : Nat]
        /\ f \in [topic : Topics, number : Uint64, about : Nat \cup {NoPayload}, rest : Nat]
    BY EventsAssumption
  <1> DEFINE ke == DuplicateKey(e)
             kf == DuplicateKey(f)
  <1>2. /\ ke.topic = e.topic /\ ke.number = e.number /\ ke.about = e.about
        /\ ke.rest = IF e.topic = "fast_confirmation" THEN 0 ELSE e.rest
    BY <1>1 DEF DuplicateKey, CacheOf
  <1>3. /\ kf.topic = f.topic /\ kf.number = f.number /\ kf.about = f.about
        /\ kf.rest = IF f.topic = "fast_confirmation" THEN 0 ELSE f.rest
    BY <1>1 DEF DuplicateKey, CacheOf
  <1>4. ke = kf
    OBVIOUS
  <1> HIDE DEF ke, kf
  <1>5. e.topic = f.topic /\ e.number = f.number /\ e.about = f.about
        /\ (e.rest = f.rest \/ e.topic = "fast_confirmation")
    BY <1>2, <1>3, <1>4
  <1> QED BY <1>1, <1>5 DEF Same

\* Whatever the cache remembers, and whatever was dropped, has an original.
DuplicateInv ==
    /\ \A e \in Events : cache[DuplicateKey(e)] > 0 =>
         \E original \in Deliveries :
             DuplicateKey(event[original]) = DuplicateKey(e) /\ pc[original] \in Passed
    /\ DuplicatesHaveAnOriginal

\* What has passed the cache has passed it for good, and carries its event.
LEMMA PassedStays ==
    ASSUME TypeOK, [Next]_vars
    PROVE  event' = event /\ \A d \in Deliveries : pc[d] \in Passed => pc'[d] \in Passed
  <1>1. ASSUME NEW f \in Deliveries, Deliver(f) \/ Step(f)
        PROVE  event' = event /\ \A d \in Deliveries : pc[d] \in Passed => pc'[d] \in Passed
    <2> USE DEF TypeOK, Goto, Passed, externalVars
    <2>1. CASE Deliver(f) \/ CreateEventMeta(f) \/ IgnoreChecks(f)
      BY <2>1 DEF Deliver, CreateEventMeta, IgnoreChecks
    <2>2. CASE RecordSeenSubnet(f) \/ CheckActiveSubnet(f) \/ FinalSyncCheck(f)
      BY <2>2 DEF RecordSeenSubnet, CheckActiveSubnet, FinalSyncCheck
    <2>3. CASE Dedup(f)
      BY <2>3 DEF Dedup
    <2>4. CASE HandleEvent(f) \/ SinksDone(f) \/ CountExported(f) \/ CountFailed(f)
      BY <2>4 DEF HandleEvent, SinksDone, CountExported, CountFailed
    <2> QED BY <1>1, <2>1, <2>2, <2>3, <2>4 DEF Step
  <1>2. CASE SyncChanges \/ SelectionChanges \/ Tick \/ UNCHANGED vars
    BY <1>2 DEF SyncChanges, SelectionChanges, Tick, vars
  <1> QED BY <1>1, <1>2 DEF Next

\* A look-up that finds its key finds an original; one that does not is it.
LEMMA DedupDuplicates ==
    ASSUME TypeOK, DuplicateInv, NEW d \in Deliveries, Dedup(d)
    PROVE  DuplicateInv'
  <1> DEFINE key == DuplicateKey(event[d])
  <1>1. event[d] \in Events /\ key \in Keys
    BY KeyAndSubnet DEF TypeOK
  <1>2. event' = event /\ \A o \in Deliveries : pc[o] \in Passed => pc'[o] \in Passed
    BY PassedStays DEF Next, Step
  <1>3. pc[d] = "dedup" /\ \A o \in Deliveries : o # d => pc'[o] = pc[o]
    BY DEF Dedup, Goto, TypeOK
  <1>4. \/ UNCHANGED cache /\ pc'[d] = "hashError"
        \/ /\ cache' = [cache EXCEPT ![key] = TTL]
           /\ \/ cache[key] > 0 /\ pc'[d] = "duplicate"
              \/ ~(cache[key] > 0) /\ pc'[d] = "final"
    BY DEF Dedup, Goto, TypeOK, Retrieved, Remembered
  <1>5. \/ UNCHANGED cache /\ pc'[d] # "duplicate"
        \/ /\ cache' = [cache EXCEPT ![key] = TTL]
           /\ \E o \in Deliveries : DuplicateKey(event[o]) = key /\ pc'[o] \in Passed
    <2>1. CASE cache[key] > 0
      <3>1. PICK o \in Deliveries : DuplicateKey(event[o]) = key /\ pc[o] \in Passed
        BY <1>1, <2>1 DEF DuplicateInv
      <3> QED BY <1>2, <1>4, <3>1
    <2>2. CASE ~(cache[key] > 0)
      BY <1>4, <2>2 DEF Passed
    <2> QED BY <2>1, <2>2
  <1>6. ASSUME NEW e \in Events, cache'[DuplicateKey(e)] > 0
        PROVE  \E o \in Deliveries : DuplicateKey(event[o]) = DuplicateKey(e) /\ pc'[o] \in Passed
    <2>1. CASE DuplicateKey(e) = key /\ cache' # cache
      BY <1>5, <2>1
    <2>2. CASE DuplicateKey(e) # key \/ cache' = cache
      <3>1. DuplicateKey(e) \in Keys
        BY KeyAndSubnet
      <3>2. cache'[DuplicateKey(e)] = cache[DuplicateKey(e)]
        BY <1>5, <2>2, <3>1 DEF TypeOK
      <3>3. PICK o \in Deliveries : DuplicateKey(event[o]) = DuplicateKey(e) /\ pc[o] \in Passed
        BY <1>6, <3>2 DEF DuplicateInv
      <3> QED BY <1>2, <3>3
    <2> QED BY <2>1, <2>2
  <1>7. ASSUME NEW c \in Deliveries, pc'[c] = "duplicate"
        PROVE  \E o \in Deliveries : o # c /\ Same(event[o], event[c]) /\ pc'[o] \in Passed
    <2>1. CASE c = d
      <3>1. PICK o \in Deliveries : DuplicateKey(event[o]) = key /\ pc'[o] \in Passed
        BY <1>5, <1>7, <2>1
      <3>2. o # d
        BY <1>7, <2>1, <3>1 DEF Passed
      <3>3. Same(event[o], event[d])
        BY <1>1, <3>1, KeySame DEF TypeOK
      <3> QED BY <2>1, <3>1, <3>2, <3>3
    <2>2. CASE c # d
      <3>1. pc[c] = "duplicate"
        BY <1>3, <1>7, <2>2
      <3> QED BY <1>2, <3>1 DEF DuplicateInv, DuplicatesHaveAnOriginal
    <2> QED BY <2>1, <2>2
  <1> QED BY <1>2, <1>6, <1>7 DEF DuplicateInv, DuplicatesHaveAnOriginal

\* Every other step remembers no more and drops no duplicate.
LEMMA DuplicatesStep ==
    ASSUME TypeOK, DuplicateInv, [Next]_vars
    PROVE  DuplicateInv'
  <1>1. CASE \E d \in Deliveries : Dedup(d)
    BY <1>1, DedupDuplicates
  <1>2. CASE ~ \E d \in Deliveries : Dedup(d)
    <2>1. event' = event /\ \A o \in Deliveries : pc[o] \in Passed => pc'[o] \in Passed
      BY PassedStays
    <2>2. \A k \in Keys : cache'[k] > 0 => cache[k] > 0
      BY <1>2 DEF TypeOK, Next, Step, vars, externalVars, SyncChanges, SelectionChanges, Tick, Deliver,
            CreateEventMeta, IgnoreChecks, RecordSeenSubnet, CheckActiveSubnet, FinalSyncCheck,
            HandleEvent, SinksDone, CountExported, CountFailed
    <2>3. \A c \in Deliveries : pc'[c] = "duplicate" => pc[c] = "duplicate"
      <3>1. ASSUME NEW f \in Deliveries, Deliver(f) \/ Step(f), ~Dedup(f), NEW c \in Deliveries
            PROVE  pc'[c] = "duplicate" => pc[c] = "duplicate"
        BY <3>1 DEF TypeOK, Goto, Step, Deliver, CreateEventMeta, IgnoreChecks, RecordSeenSubnet,
              CheckActiveSubnet, FinalSyncCheck, HandleEvent, SinksDone, CountExported, CountFailed
      <3>2. CASE SyncChanges \/ SelectionChanges \/ Tick \/ UNCHANGED vars
        BY <3>2 DEF SyncChanges, SelectionChanges, Tick, vars
      <3> QED BY <1>2, <3>1, <3>2 DEF Next
    <2>4. \A e \in Events : cache'[DuplicateKey(e)] > 0 =>
            \E o \in Deliveries : DuplicateKey(event[o]) = DuplicateKey(e) /\ pc'[o] \in Passed
      BY <2>1, <2>2, KeyAndSubnet DEF DuplicateInv
    <2>5. \A c \in Deliveries : pc'[c] = "duplicate" =>
            \E o \in Deliveries : o # c /\ Same(event[o], event[c]) /\ pc'[o] \in Passed
      BY <2>1, <2>3 DEF DuplicateInv, DuplicatesHaveAnOriginal
    <2> QED BY <2>1, <2>4, <2>5 DEF DuplicateInv, DuplicatesHaveAnOriginal
  <1> QED BY <1>1, <1>2

\* No event is lost to the duplicate cache: what it drops, another copy of the
\* same event has taken past it.
THEOREM DuplicatesJustified == Spec => []DuplicatesHaveAnOriginal
  <1>1. Init => DuplicateInv
    BY KeyAndSubnet DEF Init, DuplicateInv, DuplicatesHaveAnOriginal
  <1>2. DuplicateInv => DuplicatesHaveAnOriginal
    BY DEF DuplicateInv
  <1> QED BY <1>1, <1>2, DuplicatesStep, TypeCorrect, PTL DEF Spec

-----------------------------------------------------------------------------
(* The sinks and the counters.                                             *)

\* The deliveries that were counted as exported, and as failed.
CountedExported == {d \in Deliveries : pc[d] \in {"countFailed", "exported"}}
CountedFailed == {d \in Deliveries : pc[d] = "exported" /\ failure[d]}

Exporting == {"sinks", "count", "countFailed", "exported"}

\* The loop of each callback: which sinks it has tried and whether one failed.
LoopInv(d) ==
    /\ Len(tried[d]) = sinkAt[d] - 1
    /\ failure[d] <=> Refused(d)
    /\ pc[d] \notin Exporting => tried[d] = <<>>
    /\ pc[d] \in Exporting \ {"sinks"} => sinkAt[d] = NSinks + 1
    /\ pc[d] = "countFailed" => failure[d]

CountInv ==
    /\ \A d \in Deliveries : LoopInv(d)
    /\ eventsExported = Cardinality(CountedExported)
    /\ failedEvents = Cardinality(CountedFailed)

\* A sequence of results with one more has a failure if it had, or if that is one.
LEMMA AppendRefused ==
    ASSUME NEW s \in Seq(BOOLEAN), NEW ok \in BOOLEAN
    PROVE  (\E i \in 1 .. Len(Append(s, ok)) : ~Append(s, ok)[i])
           <=> (\E i \in 1 .. Len(s) : ~s[i]) \/ ~ok
  <1> DEFINE t == Append(s, ok)
  <1>1. Len(t) = Len(s) + 1 /\ Len(s) \in Nat
    OBVIOUS
  <1>2. t[Len(s) + 1] = ok /\ \A i \in 1 .. Len(s) : t[i] = s[i]
    OBVIOUS
  <1>3. 1 .. Len(t) = (1 .. Len(s)) \cup {Len(s) + 1}
    BY <1>1
  <1> HIDE DEF t
  <1>4. (\E i \in 1 .. Len(t) : ~t[i]) <=> (\E i \in 1 .. Len(s) : ~t[i]) \/ ~t[Len(s) + 1]
    BY <1>3, Zenon
  <1>5. (\E i \in 1 .. Len(s) : ~t[i]) <=> (\E i \in 1 .. Len(s) : ~s[i])
    BY <1>2, Zenon
  <1>6. ~t[Len(s) + 1] <=> ~ok
    BY <1>2, Zenon
  <1>7. (\E i \in 1 .. Len(t) : ~t[i]) <=> (\E i \in 1 .. Len(s) : ~s[i]) \/ ~ok
    BY <1>4, <1>5, <1>6, Zenon
  <1> QED BY <1>7 DEF t

\* Those sets are finite.
LEMMA CountedFinite ==
    /\ IsFiniteSet(CountedExported) /\ IsFiniteSet(CountedFailed)
    /\ Cardinality(CountedExported) \in Nat /\ Cardinality(CountedFailed) \in Nat
  <1>1. CountedExported \subseteq Deliveries /\ CountedFailed \subseteq Deliveries
    BY DEF CountedExported, CountedFailed
  <1>2. IsFiniteSet(CountedExported) /\ IsFiniteSet(CountedFailed)
    BY <1>1, DeliveriesAssumption, FS_Subset
  <1> QED BY <1>2, FS_CardinalityType

\* One sink more is tried, and a failure is remembered.
LEMMA LoopStep ==
    ASSUME TypeOK, NEW d \in Deliveries, LoopInv(d), HandleEvent(d)
    PROVE  LoopInv(d)'
  <1>1. PICK ok \in BOOLEAN :
          /\ tried' = [tried EXCEPT ![d] = Append(@, ok)]
          /\ failure' = [failure EXCEPT ![d] = SinkResult(d, ok)]
          /\ sinkAt' = [sinkAt EXCEPT ![d] = NextSink(d, ok)]
    BY DEF HandleEvent
  <1>2. tried[d] \in Seq(BOOLEAN) /\ tried'[d] = Append(tried[d], ok)
    BY <1>1 DEF TypeOK
  <1>3. pc'[d] = "sinks"
    BY DEF HandleEvent
  <1>4. sinkAt[d] \in Nat /\ sinkAt'[d] = sinkAt[d] + 1
    <2>1. sinkAt[d] \in 1 .. NSinks + 1
      BY DEF TypeOK
    <2>2. sinkAt'[d] = NextSink(d, ok)
      BY <1>1 DEF TypeOK
    <2> QED BY <2>1, <2>2 DEF NextSink
  <1>5. Len(tried'[d]) = sinkAt'[d] - 1
    <2>1. Len(tried'[d]) = Len(tried[d]) + 1
      BY <1>2
    <2> QED BY <1>4, <2>1 DEF LoopInv
  <1>6. failure'[d] <=> Refused(d)'
    <2>1. failure'[d] = SinkResult(d, ok)
      BY <1>1 DEF TypeOK
    <2>2. failure'[d] <=> failure[d] \/ ~ok
      BY <2>1, Zenon DEF SinkResult
    <2>3. Refused(d)' <=> \E i \in 1 .. Len(Append(tried[d], ok)) : ~Append(tried[d], ok)[i]
      BY <1>2, Zenon DEF Refused
    <2>4. Refused(d)' <=> Refused(d) \/ ~ok
      BY <1>2, <2>3, AppendRefused, Zenon DEF Refused
    <2> QED BY <2>2, <2>4, Zenon DEF LoopInv
  <1> QED BY <1>3, <1>5, <1>6 DEF LoopInv, Exporting

\* Counting an event that is exported, or one that a sink refused.
LEMMA CountStep ==
    ASSUME TypeOK, CountInv, NEW d \in Deliveries, CountExported(d) \/ CountFailed(d)
    PROVE  CountInv'
  <1>1. UNCHANGED <<tried, failure, sinkAt>>
    BY DEF CountExported, CountFailed, sinkVars
  <1>2. /\ pc[d] \in {"count", "countFailed"} /\ pc'[d] \in {"countFailed", "exported"}
        /\ pc'[d] = "countFailed" => failure[d]
        /\ \A c \in Deliveries : c # d => pc'[c] = pc[c]
    BY DEF CountExported, CountFailed, Goto, TypeOK
  <1>3. ASSUME NEW c \in Deliveries
        PROVE  LoopInv(c)'
    BY <1>1, <1>2 DEF CountInv, LoopInv, Refused, Exporting
  <1>4. CASE CountExported(d)
    <2>1. pc[d] = "count" /\ pc' = [pc EXCEPT ![d] = IF failure[d] THEN "countFailed" ELSE "exported"]
      BY <1>4 DEF CountExported, Goto
    <2>2. pc'[d] = IF failure[d] THEN "countFailed" ELSE "exported"
      BY <2>1 DEF TypeOK
    <2>3. CountedExported' = CountedExported \cup {d} /\ d \notin CountedExported
      BY <1>2, <2>1 DEF CountedExported
    <2>4. CountedFailed' = CountedFailed
      BY <1>1, <1>2, <2>1, <2>2 DEF CountedFailed
    <2>5. Cardinality(CountedExported') = Cardinality(CountedExported) + 1
      BY <2>3, CountedFinite, FS_AddElement
    <2> QED BY <1>3, <1>4, <2>4, <2>5 DEF CountInv, CountExported
  <1>5. CASE CountFailed(d)
    <2>1. pc[d] = "countFailed" /\ pc'[d] = "exported" /\ failure[d]
      BY <1>5 DEF CountFailed, Goto, TypeOK, CountInv, LoopInv
    <2>2. CountedExported' = CountedExported
      BY <1>2, <2>1 DEF CountedExported
    <2>3. CountedFailed' = CountedFailed \cup {d} /\ d \notin CountedFailed
      BY <1>1, <1>2, <2>1 DEF CountedFailed
    <2>4. Cardinality(CountedFailed') = Cardinality(CountedFailed) + 1
      BY <2>3, CountedFinite, FS_AddElement
    <2> QED BY <1>3, <1>5, <2>2, <2>4 DEF CountInv, CountFailed
  <1> QED BY <1>4, <1>5

\* Every step keeps the loops and the counters.
LEMMA CountInvStep ==
    ASSUME TypeOK, CountInv, [Next]_vars
    PROVE  CountInv'
  <1>1. ASSUME NEW d \in Deliveries, HandleEvent(d)
        PROVE  CountInv'
    <2>1. UNCHANGED <<pc, countVars>> /\ pc[d] = "sinks"
          /\ \A c \in Deliveries : c # d => tried'[c] = tried[c] /\ failure'[c] = failure[c]
                                         /\ sinkAt'[c] = sinkAt[c]
      BY <1>1 DEF HandleEvent, TypeOK
    <2>2. \A c \in Deliveries : c # d => LoopInv(c)'
      BY <2>1 DEF CountInv, LoopInv, Refused
    <2>3. CountedExported' = CountedExported /\ CountedFailed' = CountedFailed
      BY <2>1 DEF CountedExported, CountedFailed
    <2>4. LoopInv(d)'
      BY <1>1, LoopStep DEF CountInv
    <2> QED BY <2>1, <2>2, <2>3, <2>4 DEF CountInv, countVars
  <1>2. ASSUME NEW d \in Deliveries, CountExported(d) \/ CountFailed(d)
        PROVE  CountInv'
    BY <1>2, CountStep
  <1>3. ASSUME UNCHANGED <<sinkVars, countVars>>,
               \A c \in Deliveries :
                 \/ pc'[c] = pc[c]
                 \/ pc[c] \notin Exporting /\ pc'[c] \notin Exporting \ {"sinks"}
                 \/ pc[c] = "sinks" /\ pc'[c] = "count" /\ sinkAt[c] = NSinks + 1
        PROVE  CountInv'
    <2>1. CountedExported' = CountedExported /\ CountedFailed' = CountedFailed
      BY <1>3 DEF CountedExported, CountedFailed, Exporting, sinkVars
    <2>2. ASSUME NEW c \in Deliveries
          PROVE  LoopInv(c)'
      BY <1>3 DEF CountInv, LoopInv, Refused, Exporting, sinkVars
    <2> QED BY <1>3, <2>1, <2>2 DEF CountInv, countVars
  <1>4. ASSUME NEW d \in Deliveries, SinksDone(d)
        PROVE  CountInv'
    <2>1. sinkAt[d] = NSinks + 1
      BY <1>4 DEF SinksDone, TypeOK
    <2> QED BY <1>3, <1>4, <2>1 DEF SinksDone, Goto, TypeOK
  <1>5. ASSUME NEW d \in Deliveries,
               \/ Deliver(d) \/ CreateEventMeta(d) \/ IgnoreChecks(d) \/ RecordSeenSubnet(d)
               \/ CheckActiveSubnet(d) \/ Dedup(d) \/ FinalSyncCheck(d)
        PROVE  CountInv'
    <2>1. UNCHANGED <<sinkVars, countVars>>
      BY <1>5 DEF Deliver, CreateEventMeta, IgnoreChecks, RecordSeenSubnet, CheckActiveSubnet, Dedup,
            FinalSyncCheck
    <2>2. \A c \in Deliveries :
            pc'[c] = pc[c] \/ (pc[c] \notin Exporting /\ pc'[c] \notin Exporting \ {"sinks"})
      BY <1>5 DEF TypeOK, Goto, Exporting, Deliver, CreateEventMeta, IgnoreChecks, RecordSeenSubnet,
            CheckActiveSubnet, Dedup, FinalSyncCheck
    <2> QED BY <1>3, <2>1, <2>2
  <1>6. CASE SyncChanges \/ SelectionChanges \/ Tick \/ UNCHANGED vars
    BY <1>3, <1>6 DEF SyncChanges, SelectionChanges, Tick, vars
  <1> QED BY <1>1, <1>2, <1>4, <1>5, <1>6 DEF Next, Step

\* Whichever sinks fail, each is given every exported event, and the summary's
\* counters count each of them once, for any numbers of callbacks and sinks.
THEOREM CountersRight == Spec => []CountersMatchSinks
  <1>1. Init => CountInv
    <2> SUFFICES ASSUME Init PROVE CountInv
      OBVIOUS
    <2>1. CountedExported = {} /\ CountedFailed = {}
      BY DEF Init, CountedExported, CountedFailed
    <2>2. ASSUME NEW d \in Deliveries PROVE LoopInv(d)
      <3>1. tried[d] = <<>> /\ sinkAt[d] = 1 /\ failure[d] = FALSE /\ pc[d] = "waiting"
        BY DEF Init
      <3>2. Len(tried[d]) = 0
        BY <3>1
      <3>3. ~Refused(d)
        BY <3>2 DEF Refused
      <3> QED BY <3>1, <3>2, <3>3 DEF LoopInv, Exporting
    <2> QED BY <2>1, <2>2, FS_EmptySet DEF Init, CountInv
  <1>2. TypeOK /\ CountInv => CountersMatchSinks
    <2> SUFFICES ASSUME TypeOK, CountInv PROVE CountersMatchSinks
      OBVIOUS
    <2>1. ASSUME NEW d \in Deliveries, pc[d] = "exported"
          PROVE  Len(tried[d]) = NSinks
      BY <2>1 DEF CountInv, LoopInv, Exporting
    <2>2. ASSUME \A d \in Deliveries : pc[d] \notin Running
          PROVE  /\ CountedExported = {d \in Deliveries : pc[d] = "exported"}
                 /\ CountedFailed = {d \in Deliveries : Refused(d)}
      <3>1. CountedExported = {d \in Deliveries : pc[d] = "exported"}
        BY <2>2 DEF CountedExported, Running
      <3>2. ASSUME NEW d \in Deliveries
            PROVE  (pc[d] = "exported" /\ failure[d]) <=> Refused(d)
        <4>1. failure[d] <=> Refused(d)
          BY DEF CountInv, LoopInv
        <4>2. Refused(d) => pc[d] \in Exporting
          <5>1. tried[d] = <<>> => ~Refused(d)
            BY DEF Refused
          <5> QED BY <5>1 DEF CountInv, LoopInv
        <4> QED BY <2>2, <4>1, <4>2 DEF Exporting, Running
      <3> QED BY <3>1, <3>2 DEF CountedFailed
    <2> QED BY <2>1, <2>2 DEF CountInv, CountersMatchSinks
  <1> QED BY <1>1, <1>2, CountInvStep, TypeCorrect, PTL DEF Spec
=============================================================================
