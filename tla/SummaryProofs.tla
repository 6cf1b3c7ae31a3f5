---------------------------- MODULE SummaryProofs ----------------------------
(***************************************************************************)
(* Theorems about Summary, for any topics and number of summaries and for    *)
(* any finite numbers of callbacks.                                         *)
(***************************************************************************)
EXTENDS Summary, FiniteSetTheorems, TLAPS

-----------------------------------------------------------------------------
(* Counting callbacks.                                                     *)

AddedTo(t) == {a \in Adders : topic[a] = t /\ adderPC[a] = "done"}
Exported == {x \in Exporters : exporterPC[x] # "exported"}
Ended == {x \in Exporters : exporterPC[x] = "done"}

\* The sets of callbacks are finite.
LEMMA CountsFinite ==
    /\ \A t : IsFiniteSet(AddedTo(t)) /\ Cardinality(AddedTo(t)) \in Nat
    /\ IsFiniteSet(Exported) /\ Cardinality(Exported) \in Nat
    /\ IsFiniteSet(Ended) /\ Cardinality(Ended) \in Nat
  <1>1. /\ \A t : AddedTo(t) \subseteq Adders
        /\ Exported \subseteq Exporters /\ Ended \subseteq Exporters
    BY DEF AddedTo, Exported, Ended
  <1>2. \A t : IsFiniteSet(AddedTo(t))
    BY <1>1, CallbacksAssumption, FS_Subset
  <1>3. IsFiniteSet(Exported) /\ IsFiniteSet(Ended)
    BY <1>1, CallbacksAssumption, FS_Subset
  <1> QED
    BY <1>2, <1>3, FS_CardinalityType

\* A set with one member more has one more.
LEMMA OneMore ==
    ASSUME NEW S, NEW x, IsFiniteSet(S), x \notin S
    PROVE  Cardinality(S \cup {x}) = Cardinality(S) + 1
  BY FS_AddElement

-----------------------------------------------------------------------------
(* The inductive invariants.                                               *)

\* What a callback has loaded was not overcounted when it was loaded, and the
\* counts of callbacks do not fall.
NothingOvercounted ==
    \A t \in Topics :
        /\ printed[t] <= Cardinality(AddedTo(t))
        /\ eventStreamEvents[t] <= Cardinality(AddedTo(t))
        /\ \A a \in Adders : topic[a] = t /\ adderPC[a] = "store" => loaded[a] <= Cardinality(AddedTo(t))

\* A failed event belongs to a callback that has ended.
NothingRepeated ==
    /\ exportedReported + PendingExported <= Cardinality(Exported)
    /\ failedReported + PendingFailed <= Cardinality(Ended)

\* A summary is only begun while the bound allows one more.
PrintsBounded == printPC # "idle" => prints < MaxPrints

Inv == TypeOK /\ PrintsBounded /\ NothingOvercounted /\ NothingRepeated

\* It holds at first, and every step keeps it.
LEMMA InitInv == Init => Inv
  <1> SUFFICES ASSUME Init PROVE Inv
    OBVIOUS
  <1>1. TypeOK
    BY MaxPrintsAssumption DEF Init, TypeOK, None
  <1>2. NothingOvercounted
    BY CountsFinite DEF Init, NothingOvercounted, None
  <1>3. NothingRepeated
    BY CountsFinite DEF Init, NothingRepeated, PendingExported, PendingFailed
  <1>4. PrintsBounded
    BY DEF Init, PrintsBounded
  <1> QED
    BY <1>1, <1>2, <1>3, <1>4 DEF Inv

\* The bound on summaries.
LEMMA NextBounded == TypeOK /\ PrintsBounded /\ [Next]_vars => PrintsBounded'
  BY DEF TypeOK, PrintsBounded, Next, vars, printVars, LoadTopic, StoreTopic, AddEventsExported,
         AddFailedEvents, StartPrint, PrintTopic, DeleteTopic, PrintExported, PrintFailed,
         ResetExported, ResetFailed, FinishPrint

\* The types.
LEMMA NextType == TypeOK /\ PrintsBounded /\ [Next]_vars => TypeOK'
  <1> SUFFICES ASSUME TypeOK, PrintsBounded, [Next]_vars PROVE TypeOK'
    OBVIOUS
  <1> USE DEF TypeOK
  <1>1. ASSUME NEW a \in Adders, LoadTopic(a)
        PROVE  TypeOK'
    BY <1>1 DEF LoadTopic, printVars, reportVars
  <1>2. ASSUME NEW a \in Adders, StoreTopic(a)
        PROVE  TypeOK'
    <2>1. Count(loaded[a]) + 1 \in Nat
      BY DEF Count, None
    <2> QED
      BY <1>2, <2>1 DEF StoreTopic, printVars, reportVars
  <1>3. ASSUME NEW x \in Exporters, AddEventsExported(x) \/ AddFailedEvents(x)
        PROVE  TypeOK'
    BY <1>3 DEF AddEventsExported, AddFailedEvents, adderVars, printVars, reportVars
  <1>4. ASSUME NEW t \in Topics, PrintTopic(t) \/ DeleteTopic(t)
        PROVE  TypeOK'
    <2>1. Count(eventStreamEvents[t]) \in Nat
      BY DEF Count, None
    <2> QED
      BY <1>4, <2>1 DEF PrintTopic, DeleteTopic, adderVars, reportVars
  <1>5. CASE StartPrint \/ FinishPrint
    <2>1. prints' \in 0 .. MaxPrints
      BY <1>5, MaxPrintsAssumption DEF StartPrint, PrintsBounded, FinishPrint
    <2> QED
      BY <1>5, <2>1 DEF StartPrint, FinishPrint, adderVars, reportVars
  <1>6. CASE PrintExported \/ PrintFailed \/ ResetExported \/ ResetFailed
    BY <1>6 DEF PrintExported, PrintFailed, ResetExported, ResetFailed, adderVars, reportVars
  <1>7. CASE UNCHANGED vars
    BY <1>7 DEF vars, adderVars, printVars, reportVars
  <1> QED
    BY <1>1, <1>2, <1>3, <1>4, <1>5, <1>6, <1>7 DEF Next

-----------------------------------------------------------------------------
\* The counts of callbacks that have stored do not fall.
LEMMA AddedGrows ==
    ASSUME TypeOK, [Next]_vars, NEW t \in Topics
    PROVE  Cardinality(AddedTo(t)) <= Cardinality(AddedTo(t)')
  <1>1. topic' = topic
    BY DEF Next, vars, adderVars, LoadTopic, StoreTopic, AddEventsExported, AddFailedEvents,
           StartPrint, PrintTopic, DeleteTopic, PrintExported, PrintFailed, ResetExported,
           ResetFailed, FinishPrint
  <1>2. \A a \in Adders : adderPC[a] = "done" => adderPC'[a] = "done"
    BY DEF TypeOK, Next, vars, adderVars, LoadTopic, StoreTopic, AddEventsExported, AddFailedEvents,
           StartPrint, PrintTopic, DeleteTopic, PrintExported, PrintFailed, ResetExported,
           ResetFailed, FinishPrint
  <1>3. AddedTo(t) \subseteq AddedTo(t)'
    BY <1>1, <1>2 DEF AddedTo
  <1>4. AddedTo(t)' \subseteq Adders
    BY DEF AddedTo
  <1>5. IsFiniteSet(AddedTo(t)')
    BY <1>4, CallbacksAssumption, FS_Subset
  <1> QED
    BY <1>3, <1>5, FS_Subset

\* A store adds one to what was loaded, and its callback to those that added.
LEMMA NextOvercounted == TypeOK /\ NothingOvercounted /\ [Next]_vars => NothingOvercounted'
  <1> SUFFICES ASSUME TypeOK, NothingOvercounted, [Next]_vars, NEW t \in Topics
               PROVE  /\ printed'[t] <= Cardinality(AddedTo(t)')
                      /\ eventStreamEvents'[t] <= Cardinality(AddedTo(t)')
                      /\ \A a \in Adders : topic'[a] = t /\ adderPC'[a] = "store"
                                          => loaded'[a] <= Cardinality(AddedTo(t)')
    BY DEF NothingOvercounted
  <1> DEFINE before == Cardinality(AddedTo(t))
             after == Cardinality(AddedTo(t)')
  <1>1. before \in Nat /\ after \in Nat /\ before <= after
    <2>1. before \in Nat
      BY CountsFinite
    <2>2. after \in Nat
      <3>1. AddedTo(t)' \subseteq Adders
        BY DEF AddedTo
      <3> QED
        BY <3>1, CallbacksAssumption, FS_Subset, FS_CardinalityType
    <2> QED
      BY <2>1, <2>2, AddedGrows
  <1>2. /\ printed[t] <= before /\ eventStreamEvents[t] <= before
        /\ \A a \in Adders : topic[a] = t /\ adderPC[a] = "store" => loaded[a] <= before
    BY DEF NothingOvercounted
  <1>3. /\ printed[t] \in Int /\ eventStreamEvents[t] \in Int
        /\ \A a \in Adders : loaded[a] \in Int
    BY DEF TypeOK, None
  <1>4. /\ printed[t] <= after /\ eventStreamEvents[t] <= after
        /\ \A a \in Adders : topic[a] = t /\ adderPC[a] = "store" => loaded[a] <= after
    <2> HIDE DEF before, after
    <2> QED
      BY <1>1, <1>2, <1>3
  <1> HIDE DEF before
  <1> USE DEF TypeOK
  <1>5. ASSUME NEW a \in Adders, LoadTopic(a)
        PROVE  /\ printed'[t] <= after /\ eventStreamEvents'[t] <= after
               /\ \A b \in Adders : topic'[b] = t /\ adderPC'[b] = "store" => loaded'[b] <= after
    <2> HIDE DEF after
    <2> QED
      BY <1>4, <1>5 DEF LoadTopic, printVars
  <1>6. ASSUME NEW a \in Adders, StoreTopic(a)
        PROVE  /\ printed'[t] <= after /\ eventStreamEvents'[t] <= after
               /\ \A b \in Adders : topic'[b] = t /\ adderPC'[b] = "store" => loaded'[b] <= after
    <2>1. CASE topic[a] = t
      <3>1. AddedTo(t)' = AddedTo(t) \cup {a} /\ a \notin AddedTo(t)
        BY <1>6, <2>1 DEF StoreTopic, AddedTo
      <3>2. after = before + 1
        BY <3>1, CountsFinite, OneMore DEF before
      <3> HIDE DEF after
      <3>3. Count(loaded[a]) + 1 <= after
        BY <1>1, <1>2, <1>3, <1>6, <2>1, <3>2 DEF StoreTopic, Count
      <3> QED
        BY <1>4, <1>6, <2>1, <3>3 DEF StoreTopic, printVars
    <2>2. CASE topic[a] # t
      <3> HIDE DEF after
      <3> QED
        BY <1>4, <1>6, <2>2 DEF StoreTopic, printVars
    <2> QED
      BY <2>1, <2>2
  <1>7. ASSUME NEW k \in Topics, PrintTopic(k) \/ DeleteTopic(k)
        PROVE  /\ printed'[t] <= after /\ eventStreamEvents'[t] <= after
               /\ \A b \in Adders : topic'[b] = t /\ adderPC'[b] = "store" => loaded'[b] <= after
    <2> HIDE DEF after
    <2>1. Count(eventStreamEvents[t]) <= after /\ None <= after
      BY <1>1, <1>4 DEF Count, None
    <2> QED
      BY <1>4, <1>7, <2>1 DEF PrintTopic, DeleteTopic, adderVars
  <1>8. CASE StartPrint
    <2> HIDE DEF after
    <2>1. 0 <= after
      BY <1>1
    <2> QED
      BY <1>4, <1>8, <2>1 DEF StartPrint, adderVars, after
  <1>9. CASE \/ \E x \in Exporters : AddEventsExported(x) \/ AddFailedEvents(x)
             \/ PrintExported \/ PrintFailed \/ ResetExported \/ ResetFailed
             \/ FinishPrint \/ UNCHANGED vars
    <2>1. UNCHANGED <<printed, eventStreamEvents, topic, adderPC, loaded>>
      BY <1>9 DEF AddEventsExported, AddFailedEvents, PrintExported, PrintFailed, ResetExported,
                  ResetFailed, FinishPrint, vars, adderVars, printVars
    <2> QED
      BY <1>4, <2>1
  <1> QED
    BY <1>5, <1>6, <1>7, <1>8, <1>9 DEF Next

-----------------------------------------------------------------------------
\* A print moves what is pending to what is reported; a callback adds to both
\* sides.
LEMMA NextRepeated == TypeOK /\ NothingRepeated /\ [Next]_vars => NothingRepeated'
  <1> SUFFICES ASSUME TypeOK, NothingRepeated, [Next]_vars PROVE NothingRepeated'
    OBVIOUS
  <1> USE DEF TypeOK, PendingExported, PendingFailed
  <1>1. Cardinality(Exported) \in Nat /\ Cardinality(Ended) \in Nat
    BY CountsFinite
  <1>2. ASSUME NEW x \in Exporters, AddEventsExported(x)
        PROVE  NothingRepeated'
    <2>1. Exported' = Exported \cup {x} /\ x \notin Exported
      BY <1>2 DEF AddEventsExported, Exported
    <2>2. Cardinality(Exported') = Cardinality(Exported) + 1
      BY <2>1, CountsFinite, OneMore
    <2>3. Cardinality(Ended') \in Nat /\ Cardinality(Ended) <= Cardinality(Ended')
      <3>1. Ended \subseteq Ended' /\ Ended' \subseteq Exporters
        BY <1>2 DEF AddEventsExported, Ended
      <3> QED
        BY <3>1, CallbacksAssumption, FS_Subset, FS_CardinalityType
    <2> QED
      BY <1>1, <1>2, <2>2, <2>3 DEF AddEventsExported, NothingRepeated, printVars, reportVars
  <1>3. ASSUME NEW x \in Exporters, AddFailedEvents(x)
        PROVE  NothingRepeated'
    <2>1. Ended' = Ended \cup {x} /\ x \notin Ended /\ Exported' = Exported
      BY <1>3 DEF AddFailedEvents, Ended, Exported
    <2>2. Cardinality(Ended') = Cardinality(Ended) + 1
      BY <2>1, CountsFinite, OneMore
    <2> QED
      BY <1>1, <1>3, <2>1, <2>2 DEF AddFailedEvents, NothingRepeated, printVars, reportVars
  <1>4. CASE \/ StartPrint \/ PrintExported \/ PrintFailed \/ ResetExported \/ ResetFailed
             \/ FinishPrint
    <2>1. Exported' = Exported /\ Ended' = Ended
      BY <1>4 DEF StartPrint, PrintExported, PrintFailed, ResetExported, ResetFailed, FinishPrint,
                  Exported, Ended
    <2> QED
      BY <1>1, <1>4, <2>1 DEF StartPrint, PrintExported, PrintFailed, ResetExported, ResetFailed,
                              FinishPrint, NothingRepeated, reportVars
  <1>5. CASE \/ \E a \in Adders : LoadTopic(a) \/ StoreTopic(a)
             \/ \E t \in Topics : PrintTopic(t) \/ DeleteTopic(t)
             \/ UNCHANGED vars
    <2>1. UNCHANGED <<exporterPC, printPC, eventsExported, failedEvents, exportedReported, failedReported>>
      BY <1>5 DEF LoadTopic, StoreTopic, PrintTopic, DeleteTopic, vars, printVars, reportVars
    <2> QED
      BY <2>1 DEF NothingRepeated, Exported, Ended
  <1> QED
    BY <1>2, <1>3, <1>4, <1>5 DEF Next

-----------------------------------------------------------------------------
(* The theorems.                                                           *)

\* The invariant holds in every reachable state.
LEMMA Invariance == Spec => []Inv
  <1>1. Inv /\ [Next]_vars => Inv'
    BY NextType, NextBounded, NextOvercounted, NextRepeated DEF Inv
  <1> QED
    BY <1>1, InitInv, PTL DEF Spec

\* No count leaves its type: no summary reports a negative number, although
\* topics are deleted while callbacks store them.
THEOREM TypeCorrect == Spec => []TypeOK
  <1>1. Inv => TypeOK
    BY DEF Inv
  <1> QED
    BY <1>1, Invariance, PTL

\* AddEventStreamEvents loses events at worst: no summary shows more events of
\* a topic than were received, for any number of callbacks and summaries.
THEOREM NotOvercounted == Spec => []TopicsNotOvercounted
  <1>1. Inv => TopicsNotOvercounted
    BY DEF Inv, NothingOvercounted, TopicsNotOvercounted, Added, AddedTo
  <1> QED
    BY <1>1, Invariance, PTL

\* Print and Reset together report no exported or failed event twice, for any
\* number of callbacks and summaries.
THEOREM ReportedOnce == Spec => []ReportedAtMostOnce
  <1>1. Inv => ReportedAtMostOnce
    <2> SUFFICES ASSUME Inv PROVE ReportedAtMostOnce
      OBVIOUS
    <2>1. Ended \subseteq Exported
      BY DEF Ended, Exported
    <2>2. Cardinality(Ended) <= Cardinality(Exported)
      BY <2>1, CountsFinite, FS_Subset
    <2>3. ExportedAdded = Cardinality(Exported)
      BY DEF ExportedAdded, Exported
    <2> QED
      BY <2>2, <2>3, CountsFinite DEF Inv, TypeOK, NothingRepeated, ReportedAtMostOnce,
                                      PendingExported, PendingFailed
  <1> QED
    BY <1>1, Invariance, PTL
=============================================================================
