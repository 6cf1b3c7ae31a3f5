------------------------------ MODULE Lifecycle ------------------------------
(***************************************************************************)
(* The life of the application's beacon instances (pkg/application/         *)
(* lifecycle.go and beacons.go): start, the monitor goroutine of each       *)
(* instance, the restart it performs when the topic manager signals a       *)
(* mismatch, and shutdown.  The HTTP servers start and stop around them.    *)
(*                                                                         *)
(* A restart replaces the instance's wrapper, cache, metrics, summary and   *)
(* sinks by new ones.  They are numbered: generation 1 comes from           *)
(* initBeacons, generation g+1 from the restart of generation g.  The steps *)
(* of RestartWithoutSingleAttestation are steps of the monitor that calls   *)
(* it, so that shutdown can fall between any two of them.  The instance's    *)
(* cache, metrics and sinks are read by no later step and have no variable.  *)
(*                                                                         *)
(* The beacon node is external: it connects or fails to, it becomes healthy *)
(* or not, and the topic manager may signal while attestations arrive (see  *)
(* TopicManager).  A Start whose context is done fails.                     *)
(***************************************************************************)
EXTENDS Integers, FiniteSets

CONSTANTS
    Instances,     \* beacon nodes of the configuration
    Servers,       \* HTTP servers that have an address
    MaxGen         \* generations (a bound)

ASSUME MaxGenAssumption == MaxGen \in Nat \ {0}

Gens == 1 .. MaxGen
NoNode == 0     \* instance.Node is nil

VARIABLES
    ctxDone,          \* the context given to Start is done
    appPC,            \* of Application.Start and Stop
    serverPC,         \* the HTTP servers and their goroutines
    stopLeft,         \* instances Application.Stop has yet to stop
    node,             \* generation of instance.Node, or NoNode
    wrapper,          \* state of each wrapper
    attestations,     \* the wrapper subscribes to single_attestation
    reconnectClosed,  \* the wrapper's topic manager has signalled
    monitorPC,        \* the monitor goroutine started for each generation
    summaryPC,        \* the summary goroutine started by each generation's monitor
    summaryCancelled, \* summaryCancel has been called for that goroutine's context
    summaryCancel,    \* the generation instance.summaryCancel cancels, or none
    stopMonitorClosed,\* instance.stopMonitor is closed
    cooldown,         \* time.Since(lastReconnect) < cooldownPeriod
    doubleClose       \* history: close was called on a closed stopMonitor

appVars == <<ctxDone, appPC, serverPC, stopLeft>>
wrapperVars == <<wrapper, attestations, reconnectClosed>>
summaryVars == <<summaryPC, summaryCancelled, summaryCancel>>
restartVars == <<stopMonitorClosed, cooldown, doubleClose>>
vars == <<appVars, node, wrapperVars, monitorPC, summaryVars, restartVars>>

RestartPCs == {"cooldown", "stopNode", "forget", "create", "start", "replace"}

TypeOK ==
    /\ ctxDone \in BOOLEAN
    /\ appPC \in {"new", "connecting", "failed", "running", "stopping", "stopped", "panicked"}
    /\ serverPC \in [Servers -> {"off", "started", "serving", "failed", "closed"}]
    /\ stopLeft \in SUBSET Instances
    /\ node \in [Instances -> Gens \cup {NoNode}]
    /\ wrapper \in [Instances -> [Gens -> {"none", "created", "up", "failed", "stopped"}]]
    /\ attestations \in [Instances -> [Gens -> BOOLEAN]]
    /\ reconnectClosed \in [Instances -> [Gens -> BOOLEAN]]
    /\ monitorPC \in [Instances -> [Gens -> {"none", "watch", "exited"} \cup RestartPCs]]
    /\ summaryPC \in [Instances -> [Gens -> {"none", "running", "returned"}]]
    /\ summaryCancelled \in [Instances -> [Gens -> BOOLEAN]]
    /\ summaryCancel \in [Instances -> Gens \cup {NoNode}]
    /\ stopMonitorClosed \in [Instances -> BOOLEAN]
    /\ cooldown \in [Instances -> BOOLEAN]
    /\ doubleClose \in BOOLEAN

\* What New makes: no instance has a node yet.
Init ==
    /\ ctxDone = FALSE
    /\ appPC = "new"
    /\ serverPC = [s \in Servers |-> "off"]
    /\ stopLeft = {}
    /\ node = [i \in Instances |-> NoNode]
    /\ wrapper = [i \in Instances |-> [g \in Gens |-> "none"]]
    /\ attestations = [i \in Instances |-> [g \in Gens |-> FALSE]]
    /\ reconnectClosed = [i \in Instances |-> [g \in Gens |-> FALSE]]
    /\ monitorPC = [i \in Instances |-> [g \in Gens |-> "none"]]
    /\ summaryPC = [i \in Instances |-> [g \in Gens |-> "none"]]
    /\ summaryCancelled = [i \in Instances |-> [g \in Gens |-> FALSE]]
    /\ summaryCancel = [i \in Instances |-> NoNode]
    /\ stopMonitorClosed = [i \in Instances |-> FALSE]
    /\ cooldown = [i \in Instances |-> FALSE]
    /\ doubleClose = FALSE

\* Goroutines run until the process ends: main returns after Stop or a failed
\* Start.
Alive == appPC \notin {"failed", "stopped", "panicked"}

-----------------------------------------------------------------------------
(* Wrappers.                                                               *)

\* Mutant: Start does not look at its context.
WrapperStarts_IgnoresContext(i, g) ==
    /\ wrapper' = [wrapper EXCEPT ![i][g] = "up"]
    /\ UNCHANGED <<attestations, reconnectClosed>>

\* BeaconWrapper.Start: the sinks, then the beacon node.  It may fail at either.
WrapperStarts(i, g) ==
    /\ ~ctxDone
    /\ wrapper' = [wrapper EXCEPT ![i][g] = "up"]
    /\ UNCHANGED <<attestations, reconnectClosed>>

WrapperFails(i, g) ==
    /\ wrapper' = [wrapper EXCEPT ![i][g] = "failed"]
    /\ UNCHANGED <<attestations, reconnectClosed>>

\* BeaconWrapper.Stop.  The Stop it calls of each sink only logs.
WrapperStops(i, g) ==
    /\ wrapper' = [wrapper EXCEPT ![i][g] = "stopped"]
    /\ UNCHANGED <<attestations, reconnectClosed>>

\* External: the topic manager of a connected wrapper signals a mismatch, which
\* takes attestations.
SignalReconnection(i, g) ==
    /\ wrapper[i][g] = "up"
    /\ attestations[i][g]
    /\ ~reconnectClosed[i][g]
    /\ reconnectClosed' = [reconnectClosed EXCEPT ![i][g] = TRUE]
    /\ UNCHANGED <<appVars, node, wrapper, attestations,
                   monitorPC, summaryVars, restartVars>>

-----------------------------------------------------------------------------
(* Application.Start and Stop.                                             *)

\* initBeacons makes every instance, the servers' goroutines and the caches are
\* started.  Whether single_attestation is enabled depends on the node's subnets.
StartComponents ==
    /\ appPC = "new"
    /\ appPC' = "connecting"
    /\ node' = [i \in Instances |-> 1]
    /\ wrapper' = [i \in Instances |-> [wrapper[i] EXCEPT ![1] = "created"]]
    /\ \E subscribed \in [Instances -> BOOLEAN] :
         attestations' = [i \in Instances |-> [attestations[i] EXCEPT ![1] = subscribed[i]]]
    /\ serverPC' = [s \in Servers |-> "started"]
    /\ UNCHANGED <<ctxDone, stopLeft, reconnectClosed, monitorPC, summaryVars, restartVars>>

\* The clock drift service, a sink or a beacon node cannot be made.
StartFails ==
    /\ appPC = "new"
    /\ appPC' = "failed"
    /\ UNCHANGED <<ctxDone, serverPC, stopLeft, node, wrapperVars, monitorPC,
                   summaryVars, restartVars>>

\* ListenAndServe in the server's goroutine: a failure is only logged.
ServerListens(s) ==
    /\ Alive
    /\ serverPC[s] = "started"
    /\ \E outcome \in {"serving", "failed"} : serverPC' = [serverPC EXCEPT ![s] = outcome]
    /\ UNCHANGED <<ctxDone, appPC, stopLeft, node, wrapperVars, monitorPC,
                   summaryVars, restartVars>>

\* A goroutine of connectBeacons, in the foreground or, later, the background.
Connect(i) ==
    /\ Alive
    /\ wrapper[i][1] = "created"
    /\ node[i] = 1
    /\ WrapperStarts(i, 1) \/ WrapperFails(i, 1)
    /\ UNCHANGED <<appVars, node, monitorPC, summaryVars, restartVars>>

\* connectBeacons returns nil once a node is connected (ConnectBeacons); then a
\* monitor is started for every instance.
ConnectReturns ==
    /\ appPC = "connecting"
    /\ \E i \in Instances : wrapper[i][1] = "up"
    /\ appPC' = "running"
    /\ monitorPC' = [i \in Instances |-> [monitorPC[i] EXCEPT ![1] = "watch"]]
    /\ UNCHANGED <<ctxDone, serverPC, stopLeft, node, wrapperVars, summaryVars, restartVars>>

\* It returns an error when all failed or the context is done, and on a timeout
\* even if a node has connected whose report is not received yet.
ConnectFails ==
    /\ appPC = "connecting"
    /\ appPC' = "failed"
    /\ UNCHANGED <<ctxDone, serverPC, stopLeft, node, wrapperVars, monitorPC,
                   summaryVars, restartVars>>

CancelContext ==
    /\ ~ctxDone
    /\ Alive
    /\ ctxDone' = TRUE
    /\ UNCHANGED <<appPC, serverPC, stopLeft, node, wrapperVars, monitorPC,
                   summaryVars, restartVars>>

\* main waits for the context before it calls Stop.
BeginStop ==
    /\ appPC = "running"
    /\ ctxDone
    /\ appPC' = "stopping"
    /\ stopLeft' = Instances
    /\ UNCHANGED <<ctxDone, serverPC, node, wrapperVars, monitorPC, summaryVars, restartVars>>

\* instance.Node.Stop, in the order of the map: a nil Node panics.
StopInstance(i) ==
    /\ appPC = "stopping"
    /\ i \in stopLeft
    /\ stopLeft' = stopLeft \ {i}
    /\ IF node[i] = NoNode
       THEN appPC' = "panicked" /\ UNCHANGED wrapperVars
       ELSE WrapperStops(i, node[i]) /\ UNCHANGED appPC
    /\ UNCHANGED <<ctxDone, serverPC, node, monitorPC, summaryVars, restartVars>>

\* stopServers.  A server that has been shut down serves no more, even if its
\* goroutine has yet to call ListenAndServe.
FinishStop ==
    /\ appPC = "stopping"
    /\ stopLeft = {}
    /\ appPC' = "stopped"
    /\ serverPC' = [s \in Servers |-> IF serverPC[s] = "failed" THEN "failed" ELSE "closed"]
    /\ UNCHANGED <<ctxDone, stopLeft, node, wrapperVars, monitorPC,
                   summaryVars, restartVars>>

-----------------------------------------------------------------------------
(* The monitor: one iteration takes any of the cases that are ready.       *)

GotoMonitor(i, g, label) == monitorPC' = [monitorPC EXCEPT ![i][g] = label]

\* Mutant: the monitor does not look at the context.
MonitorStops_IgnoresContext(i, g) ==
    /\ monitorPC[i][g] = "watch"
    /\ stopMonitorClosed[i]
    /\ GotoMonitor(i, g, "exited")
    /\ UNCHANGED <<appVars, node, wrapperVars, summaryVars, restartVars>>

MonitorStops(i, g) ==
    /\ monitorPC[i][g] = "watch"
    /\ ctxDone \/ stopMonitorClosed[i]
    /\ GotoMonitor(i, g, "exited")
    /\ UNCHANGED <<appVars, node, wrapperVars, summaryVars, restartVars>>

\* The ticker finds the node healthy and starts the summary, once per monitor.
MonitorStartsSummary(i, g) ==
    /\ monitorPC[i][g] = "watch"
    /\ summaryCancel[i] # g
    /\ node[i] # NoNode
    /\ wrapper[i][node[i]] = "up"
    /\ summaryCancel' = [summaryCancel EXCEPT ![i] = g]
    /\ summaryPC' = [summaryPC EXCEPT ![i][g] = "running"]
    /\ UNCHANGED <<appVars, node, wrapperVars, monitorPC, summaryCancelled, restartVars>>

\* Mutant: the signal is looked at only once the summary has started.
MonitorSignalled_AfterSummary(i, g) ==
    /\ monitorPC[i][g] = "watch"
    /\ summaryCancel[i] = g
    /\ reconnectClosed[i][g]
    /\ GotoMonitor(i, g, "cooldown")
    /\ UNCHANGED <<appVars, node, wrapperVars, summaryVars, restartVars>>

MonitorSignalled(i, g) ==
    /\ monitorPC[i][g] = "watch"
    /\ reconnectClosed[i][g]
    /\ GotoMonitor(i, g, "cooldown")
    /\ UNCHANGED <<appVars, node, wrapperVars, summaryVars, restartVars>>

-----------------------------------------------------------------------------
(* The summary goroutine (internal/events/summary.go).  A Print is a step   *)
(* of Summary and changes nothing here: a running goroutine may be in one,  *)
(* and its select may choose another even if its context is done.           *)

\* Mutant: the summary is given the application's context.
SummaryReturns_OnShutdownOnly(i, g) ==
    /\ summaryPC[i][g] = "running"
    /\ ctxDone
    /\ summaryPC' = [summaryPC EXCEPT ![i][g] = "returned"]
    /\ UNCHANGED <<appVars, node, wrapperVars, monitorPC, summaryCancelled, summaryCancel,
                   restartVars>>

\* Its context is done when the application's is, or once summaryCancel is called.
SummaryReturns(i, g) ==
    /\ summaryPC[i][g] = "running"
    /\ ctxDone \/ summaryCancelled[i][g]
    /\ summaryPC' = [summaryPC EXCEPT ![i][g] = "returned"]
    /\ UNCHANGED <<appVars, node, wrapperVars, monitorPC, summaryCancelled, summaryCancel,
                   restartVars>>

-----------------------------------------------------------------------------
(* RestartWithoutSingleAttestation.  Whatever it returns, the monitor exits. *)

\* The summaries' contexts of instance i that are done once summaryCancel, if there
\* is one, is called.  The goroutine returns later, in a step of its own.
\* Mutant: it is not called.
AfterSummaryCancel_NotCalled(i) == summaryCancelled[i]

AfterSummaryCancel(i) == [g \in Gens |-> summaryCancelled[i][g] \/ g = summaryCancel[i]]

\* "Skipping reconnection due to cooldown period", or summaryCancel is called and
\* stopMonitor closed.  The first happens to no monitor (RestartedAtMostOnce).
RestartBegins(i, g) ==
    /\ monitorPC[i][g] = "cooldown"
    /\ IF cooldown[i]
       THEN /\ GotoMonitor(i, g, "exited")
            /\ UNCHANGED <<summaryCancelled, doubleClose, stopMonitorClosed>>
       ELSE /\ summaryCancelled' = [summaryCancelled EXCEPT ![i] = AfterSummaryCancel(i)]
            /\ doubleClose' = (doubleClose \/ stopMonitorClosed[i])
            /\ stopMonitorClosed' = [stopMonitorClosed EXCEPT ![i] = TRUE]
            /\ GotoMonitor(i, g, "stopNode")
    /\ UNCHANGED <<appVars, node, wrapperVars, summaryPC, summaryCancel, cooldown>>

RestartStopsNode(i, g) ==
    /\ monitorPC[i][g] = "stopNode"
    /\ WrapperStops(i, node[i])
    /\ GotoMonitor(i, g, "forget")
    /\ UNCHANGED <<appVars, node, summaryVars, restartVars>>

\* Mutant: the instance is deleted from the map.
RestartForgetsNode_Deletes(i, g) ==
    /\ monitorPC[i][g] = "forget"
    /\ node' = [j \in Instances \ {i} |-> node[j]]
    /\ GotoMonitor(i, g, "create")
    /\ UNCHANGED <<appVars, wrapperVars, summaryVars, restartVars>>

RestartForgetsNode(i, g) ==
    /\ monitorPC[i][g] = "forget"
    /\ node' = [node EXCEPT ![i] = NoNode]
    /\ GotoMonitor(i, g, "create")
    /\ UNCHANGED <<appVars, wrapperVars, summaryVars, restartVars>>

\* Mutant: the topic is not excluded.
SubscribesAttestations_All(g) == TRUE

\* createBeaconInstance with single_attestation excluded.
SubscribesAttestations(g) == FALSE

RestartCreates(i, g) ==
    /\ monitorPC[i][g] = "create"
    /\ g + 1 \in Gens
    /\ wrapper' = [wrapper EXCEPT ![i][g + 1] = "created"]
    /\ attestations' = [attestations EXCEPT ![i][g + 1] = SubscribesAttestations(g + 1)]
    /\ GotoMonitor(i, g, "start")
    /\ UNCHANGED <<appVars, node, reconnectClosed, summaryVars, restartVars>>

\* Mutant: after a failed restart the monitor goes on watching.
AfterFailedRestart_Watches == "watch"

AfterFailedRestart == "exited"

RestartCreateFails(i, g) ==
    /\ monitorPC[i][g] = "create"
    /\ GotoMonitor(i, g, AfterFailedRestart)
    /\ UNCHANGED <<appVars, node, wrapperVars, summaryVars, restartVars>>

\* newInstance.Node.Start, which blocks until the node is healthy and has no
\* timeout: it need not return as long as the context lives.
RestartStarts(i, g) ==
    /\ monitorPC[i][g] = "start"
    /\ WrapperStarts(i, g + 1)
    /\ GotoMonitor(i, g, "replace")
    /\ UNCHANGED <<appVars, node, summaryVars, restartVars>>

RestartStartFails(i, g) ==
    /\ monitorPC[i][g] = "start"
    /\ WrapperFails(i, g + 1)
    /\ GotoMonitor(i, g, AfterFailedRestart)
    /\ UNCHANGED <<appVars, node, summaryVars, restartVars>>

\* Mutant: the old monitor does not return.
RestartReplaces_KeepsMonitor(i, g) ==
    /\ monitorPC[i][g] = "replace"
    /\ node' = [node EXCEPT ![i] = g + 1]
    /\ summaryCancel' = [summaryCancel EXCEPT ![i] = NoNode]
    /\ stopMonitorClosed' = [stopMonitorClosed EXCEPT ![i] = FALSE]
    /\ cooldown' = [cooldown EXCEPT ![i] = TRUE]
    /\ monitorPC' = [monitorPC EXCEPT ![i][g] = "watch", ![i][g + 1] = "watch"]
    /\ UNCHANGED <<appVars, wrapperVars, summaryPC, summaryCancelled, doubleClose>>

\* The instance takes over the new components, and a
\* monitor is started for them.
RestartReplaces(i, g) ==
    /\ monitorPC[i][g] = "replace"
    /\ node' = [node EXCEPT ![i] = g + 1]
    /\ summaryCancel' = [summaryCancel EXCEPT ![i] = NoNode]
    /\ stopMonitorClosed' = [stopMonitorClosed EXCEPT ![i] = FALSE]
    /\ cooldown' = [cooldown EXCEPT ![i] = TRUE]
    /\ monitorPC' = [monitorPC EXCEPT ![i][g] = "exited", ![i][g + 1] = "watch"]
    /\ UNCHANGED <<appVars, wrapperVars, summaryPC, summaryCancelled, doubleClose>>

CooldownElapses(i) ==
    /\ cooldown[i]
    /\ cooldown' = [cooldown EXCEPT ![i] = FALSE]
    /\ UNCHANGED <<appVars, node, wrapperVars, monitorPC, summaryVars,
                   stopMonitorClosed, doubleClose>>

-----------------------------------------------------------------------------
\* The steps that the monitor takes by itself.
RestartRuns(i, g) ==
    \/ RestartBegins(i, g)
    \/ RestartStopsNode(i, g)
    \/ RestartForgetsNode(i, g)
    \/ RestartCreates(i, g)
    \/ RestartCreateFails(i, g)
    \/ RestartReplaces(i, g)

Restart(i, g) ==
    \/ RestartRuns(i, g)
    \/ RestartStarts(i, g)
    \/ RestartStartFails(i, g)

\* Once main returns or panics the process, and everything in it, is gone.
Next ==
    \/ StartComponents
    \/ StartFails
    \/ \E s \in Servers : ServerListens(s)
    \/ \E i \in Instances : Connect(i)
    \/ ConnectReturns
    \/ ConnectFails
    \/ CancelContext
    \/ BeginStop
    \/ \E i \in Instances : StopInstance(i)
    \/ FinishStop
    \/ /\ Alive
       /\ \E i \in Instances :
            \/ CooldownElapses(i)
            \/ \E g \in Gens :
                 \/ SignalReconnection(i, g)
                 \/ MonitorStops(i, g)
                 \/ MonitorStartsSummary(i, g)
                 \/ MonitorSignalled(i, g)
                 \/ SummaryReturns(i, g)
                 \/ Restart(i, g)

Spec == Init /\ [][Next]_vars

\* The steps of running goroutines.  A new wrapper's Start is the exception: only
\* once the context is done does it have to return, with an error.  Go's select is
\* fair: a summary whose context is done does not take the ticker for ever.
Fairness ==
    \A i \in Instances, g \in Gens :
        /\ WF_vars(Alive /\ (MonitorStops(i, g) \/ MonitorSignalled(i, g)))
        /\ WF_vars(Alive /\ RestartRuns(i, g))
        /\ WF_vars(Alive /\ ctxDone /\ RestartStartFails(i, g))
        /\ WF_vars(Alive /\ SummaryReturns(i, g))

FairSpec == Spec /\ Fairness

-----------------------------------------------------------------------------
(* Properties.                                                             *)

Monitoring(i, g) == monitorPC[i][g] \notin {"none", "exited"}

\* An instance never has two monitors, so never two restarts at once, and never
\* two connections to its node: the old wrapper is stopped before the new starts.
OneMonitorOneConnection ==
    \A i \in Instances :
        /\ Cardinality({g \in Gens : Monitoring(i, g)}) <= 1
        /\ Cardinality({g \in Gens : wrapper[i][g] = "up"}) <= 1

\* An instance is restarted at most once: a wrapper that came from a restart does
\* not subscribe to the topic whose attestations make its topic manager signal.
\* So no signal meets the cooldown of an earlier restart, whose monitor would exit
\* without a replacement.
RestartedAtMostOnce ==
    \A i \in Instances, g \in Gens : g > 2 => wrapper[i][g] = "none"

SummaryRunning(i, g) == summaryPC[i][g] = "running"

\* A summary goroutine that nobody has told to end is that of the instance's node,
\* and the one instance.summaryCancel ends.  A restart overwrites both, so a summary
\* it had not cancelled before would print beside the new one for ever.
OneSummary ==
    \A i \in Instances, g \in Gens :
        SummaryRunning(i, g) /\ ~summaryCancelled[i][g] => node[i] = g /\ summaryCancel[i] = g

\* The summary a restart puts away may print once more or be in the middle of it,
\* but it ends, though its select may take a tick before it sees the cancellation.
CancelledSummariesEnd ==
    \A i \in Instances :
        (\E g \in Gens : summaryCancelled[i][g])
            ~> \/ \A g \in Gens : summaryCancelled[i][g] => ~SummaryRunning(i, g)
               \/ ~Alive

\* stopMonitor is never closed twice, which would panic.
NoDoubleClose == ~doubleClose

\* When Stop has returned, no wrapper is connected and no server serves.
StoppedMeansDisconnected ==
    appPC = "stopped" =>
        /\ \A i \in Instances, g \in Gens : wrapper[i][g] # "up"
        /\ \A s \in Servers : serverPC[s] # "serving"

\* A signal is acted on: the wrapper that gave it is stopped, whatever else the
\* monitor has to do, and the monitor ends or has got to the start of a new wrapper.
\* That start may last as long as the context lives.
SignalsAreHandled ==
    \A i \in Instances, g \in Gens :
        Monitoring(i, g) /\ reconnectClosed[i][g]
            ~> \/ wrapper[i][g] = "stopped" /\ monitorPC[i][g] \in {"start", "exited"}
               \/ ctxDone
               \/ ~Alive

\* When the context is done, every monitor and every summary ends, wherever the
\* cancellation found them.
ShutdownEndsGoroutines ==
    ctxDone ~> \/ \A i \in Instances, g \in Gens : ~Monitoring(i, g) /\ ~SummaryRunning(i, g)
               \/ ~Alive

\* "Stop gracefully shuts down all components of the application."
StopNeverPanics == appPC # "panicked"
=============================================================================
