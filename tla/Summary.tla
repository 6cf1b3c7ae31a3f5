------------------------------- MODULE Summary -------------------------------
(***************************************************************************)
(* The counters of internal/events/summary.go: event callbacks add to them  *)
(* while the summary goroutine prints and resets them every interval.       *)
(*                                                                         *)
(* eventsExported and failedEvents are atomic integers, each call one step. *)
(* eventStreamEvents is a sync.Map from topics to counts: its Load, Store,  *)
(* Delete and each key visited by Range are single steps, and               *)
(* AddEventStreamEvents is a Load and a Store.                              *)
(*                                                                         *)
(* Each Adder runs one callback: OnEvent adds one to its topic, and an      *)
(* exporting callback adds one exported and perhaps one failed event.       *)
(* A Range visits the keys in any order; it may miss a key stored after it  *)
(* began.                                                                  *)
(***************************************************************************)
EXTENDS Integers, FiniteSets

CONSTANTS
    Topics,
    Adders,       \* callbacks of OnEvent (a bound)
    Exporters,    \* callbacks that export an event (a bound)
    MaxPrints     \* summaries printed (a bound)

ASSUME MaxPrintsAssumption == MaxPrints \in Nat

ASSUME CallbacksAssumption == IsFiniteSet(Adders) /\ IsFiniteSet(Exporters)

None == -1     \* the map has no entry for the topic

VARIABLES
    eventStreamEvents,   \* count of each topic, or None
    eventsExported,
    failedEvents,
    adderPC,             \* of AddEventStreamEvents, by adder
    topic,               \* its topic
    loaded,              \* what its Load returned
    exporterPC,          \* of the end of handleDecoratedEvent
    printPC,             \* of Print and Reset
    toVisit,             \* topics the current Range has yet to visit
    printed,             \* what the current summary reports for each topic
    prints,              \* summaries printed so far
    \* History, over all summaries:
    exportedReported,
    failedReported

adderVars == <<adderPC, topic, loaded>>
printVars == <<printPC, toVisit, printed, prints>>
reportVars == <<exportedReported, failedReported>>
vars == <<eventStreamEvents, eventsExported, failedEvents, adderVars,
          exporterPC, printVars, reportVars>>

TypeOK ==
    /\ eventStreamEvents \in [Topics -> Nat \cup {None}]
    /\ eventsExported \in Nat
    /\ failedEvents \in Nat
    /\ adderPC \in [Adders -> {"load", "store", "done"}]
    /\ topic \in [Adders -> Topics]
    /\ loaded \in [Adders -> Nat \cup {None}]
    /\ exporterPC \in [Exporters -> {"exported", "failed", "done"}]
    /\ printPC \in {"idle", "range", "failed", "resetExported",
                    "resetFailed", "delete"}
    /\ toVisit \in SUBSET Topics
    /\ printed \in [Topics -> Nat]
    /\ prints \in 0 .. MaxPrints
    /\ exportedReported \in Nat
    /\ failedReported \in Nat

Init ==
    /\ eventStreamEvents = [t \in Topics |-> None]
    /\ eventsExported = 0
    /\ failedEvents = 0
    /\ adderPC = [a \in Adders |-> "load"]
    /\ topic \in [Adders -> Topics]
    /\ loaded = [a \in Adders |-> None]
    /\ exporterPC = [x \in Exporters |-> "exported"]
    /\ printPC = "idle"
    /\ toVisit = {}
    /\ printed = [t \in Topics |-> 0]
    /\ prints = 0
    /\ exportedReported = 0
    /\ failedReported = 0

Count(value) == IF value = None THEN 0 ELSE value

-----------------------------------------------------------------------------
(* Callbacks.                                                              *)

LoadTopic(a) ==
    /\ adderPC[a] = "load"
    /\ adderPC' = [adderPC EXCEPT ![a] = "store"]
    /\ loaded' = [loaded EXCEPT ![a] = eventStreamEvents[topic[a]]]
    /\ UNCHANGED <<eventStreamEvents, eventsExported, failedEvents, topic,
                   exporterPC, printVars, reportVars>>

\* Mutant: a store that finds another value is tried again on top of it.
StoreTopic_Retries(a) ==
    /\ adderPC[a] = "store"
    /\ adderPC' = IF eventStreamEvents[topic[a]] = loaded[a]
                 THEN [adderPC EXCEPT ![a] = "done"] ELSE adderPC
    /\ loaded' = [loaded EXCEPT ![a] = eventStreamEvents[topic[a]]]
    /\ eventStreamEvents' = [eventStreamEvents EXCEPT ![topic[a]] = Count(@) + 1]
    /\ UNCHANGED <<eventsExported, failedEvents, topic, exporterPC, printVars, reportVars>>

StoreTopic(a) ==
    /\ adderPC[a] = "store"
    /\ adderPC' = [adderPC EXCEPT ![a] = "done"]
    /\ eventStreamEvents' = [eventStreamEvents EXCEPT ![topic[a]] = Count(loaded[a]) + 1]
    /\ UNCHANGED <<eventsExported, failedEvents, topic, loaded, exporterPC,
                   printVars, reportVars>>

\* handleDecoratedEvent adds an exported event, then a failed one if a sink failed.
AddEventsExported(x) ==
    /\ exporterPC[x] = "exported"
    /\ \E after \in {"failed", "done"} : exporterPC' = [exporterPC EXCEPT ![x] = after]
    /\ eventsExported' = eventsExported + 1
    /\ UNCHANGED <<eventStreamEvents, failedEvents, adderVars, printVars, reportVars>>

AddFailedEvents(x) ==
    /\ exporterPC[x] = "failed"
    /\ exporterPC' = [exporterPC EXCEPT ![x] = "done"]
    /\ failedEvents' = failedEvents + 1
    /\ UNCHANGED <<eventStreamEvents, eventsExported, adderVars, printVars, reportVars>>

-----------------------------------------------------------------------------
(* Print, then Reset.                                                      *)

StartPrint ==
    /\ printPC = "idle"
    /\ prints < MaxPrints
    /\ printPC' = "range"
    /\ toVisit' = Topics
    /\ printed' = [t \in Topics |-> 0]
    /\ UNCHANGED <<eventStreamEvents, eventsExported, failedEvents, adderVars,
                   exporterPC, prints, reportVars>>

\* Mutant: a topic without an entry is printed as it is.
PrintTopic_NoDefault(t) ==
    /\ printPC = "range"
    /\ t \in toVisit
    /\ toVisit' = toVisit \ {t}
    /\ printed' = [printed EXCEPT ![t] = eventStreamEvents[t]]
    /\ UNCHANGED <<eventStreamEvents, eventsExported, failedEvents, adderVars,
                   exporterPC, printPC, prints, reportVars>>

\* One key of the Range in GetEventStreamEvents.
PrintTopic(t) ==
    /\ printPC = "range"
    /\ t \in toVisit
    /\ toVisit' = toVisit \ {t}
    /\ printed' = [printed EXCEPT ![t] = Count(eventStreamEvents[t])]
    /\ UNCHANGED <<eventStreamEvents, eventsExported, failedEvents, adderVars,
                   exporterPC, printPC, prints, reportVars>>

PrintExported ==
    /\ printPC = "range"
    /\ toVisit = {}
    /\ printPC' = "failed"
    /\ exportedReported' = exportedReported + eventsExported
    /\ UNCHANGED <<eventStreamEvents, eventsExported, failedEvents, adderVars,
                   exporterPC, toVisit, printed, prints, failedReported>>

PrintFailed ==
    /\ printPC = "failed"
    /\ printPC' = "resetExported"
    /\ failedReported' = failedReported + failedEvents
    /\ UNCHANGED <<eventStreamEvents, eventsExported, failedEvents, adderVars,
                   exporterPC, toVisit, printed, prints, exportedReported>>

\* Mutant: the exported events are not reset.
ResetExported_Forgotten ==
    /\ printPC = "resetExported"
    /\ printPC' = "resetFailed"
    /\ UNCHANGED <<eventStreamEvents, eventsExported, failedEvents, adderVars,
                   exporterPC, toVisit, printed, prints, reportVars>>

ResetExported ==
    /\ printPC = "resetExported"
    /\ printPC' = "resetFailed"
    /\ eventsExported' = 0
    /\ UNCHANGED <<eventStreamEvents, failedEvents, adderVars, exporterPC,
                   toVisit, printed, prints, reportVars>>

ResetFailed ==
    /\ printPC = "resetFailed"
    /\ printPC' = "delete"
    /\ failedEvents' = 0
    /\ toVisit' = Topics
    /\ UNCHANGED <<eventStreamEvents, eventsExported, adderVars, exporterPC,
                   printed, prints, reportVars>>

\* One key of the Range in Reset.
DeleteTopic(t) ==
    /\ printPC = "delete"
    /\ t \in toVisit
    /\ toVisit' = toVisit \ {t}
    /\ eventStreamEvents' = [eventStreamEvents EXCEPT ![t] = None]
    /\ UNCHANGED <<eventsExported, failedEvents, adderVars, exporterPC, printPC,
                   printed, prints, reportVars>>

FinishPrint ==
    /\ printPC = "delete"
    /\ toVisit = {}
    /\ printPC' = "idle"
    /\ prints' = prints + 1
    /\ UNCHANGED <<eventStreamEvents, eventsExported, failedEvents, adderVars,
                   exporterPC, toVisit, printed, reportVars>>

Next ==
    \/ \E a \in Adders : LoadTopic(a) \/ StoreTopic(a)
    \/ \E x \in Exporters : AddEventsExported(x) \/ AddFailedEvents(x)
    \/ StartPrint
    \/ \E t \in Topics : PrintTopic(t) \/ DeleteTopic(t)
    \/ PrintExported
    \/ PrintFailed
    \/ ResetExported
    \/ ResetFailed
    \/ FinishPrint

Spec == Init /\ [][Next]_vars

-----------------------------------------------------------------------------
(* Properties.                                                             *)

ExportedAdded == Cardinality({x \in Exporters : exporterPC[x] # "exported"})

\* What is reported so far and what the next summary would report.
PendingExported == IF printPC \in {"failed", "resetExported"} THEN 0 ELSE eventsExported

PendingFailed == IF printPC \in {"resetExported", "resetFailed"} THEN 0 ELSE failedEvents

\* No exported event and no failed one is reported by two summaries, however
\* callbacks interleave with a print.  (It may be reported by none.)
ReportedAtMostOnce ==
    /\ exportedReported + PendingExported <= ExportedAdded
    /\ failedReported + PendingFailed <= ExportedAdded

Added(t) == Cardinality({a \in Adders : topic[a] = t /\ adderPC[a] = "done"})

\* AddEventStreamEvents may lose an event or bring back a count that was reset,
\* but no summary shows more events of a topic than were ever received.
TopicsNotOvercounted ==
    \A t \in Topics : printed[t] <= Added(t) /\ eventStreamEvents[t] <= Added(t)
=============================================================================
