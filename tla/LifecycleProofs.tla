---------------------------- MODULE LifecycleProofs ----------------------------
(***************************************************************************)
(* Theorems about Lifecycle, for any beacon nodes, servers and bound on the  *)
(* generations: what holds however shutdown falls between the steps of a    *)
(* restart.                                                                *)
(***************************************************************************)
EXTENDS Lifecycle, FiniteSetTheorems, TLAPS

-----------------------------------------------------------------------------
(* The inductive invariant: an instance goes through four phases.          *)

\* What is left for a later generation: nothing.
Untouched(i, g) == wrapper[i][g] = "none" /\ monitorPC[i][g] = "none"

\* A summary goroutine that nobody has told to end.
LiveSummary(i, g) == summaryPC[i][g] = "running" /\ ~summaryCancelled[i][g]

\* The wrapper of initBeacons and its monitor.
FirstPhase(i) ==
    /\ monitorPC[i][1] \in {"none", "watch", "cooldown", "exited"}
    /\ node[i] = 1 \/ (node[i] = NoNode /\ monitorPC[i][1] = "none")
    /\ \A g \in Gens : g > 1 => Untouched(i, g)
    /\ ~stopMonitorClosed[i] /\ ~cooldown[i]
    /\ \A g \in Gens : LiveSummary(i, g) => g = 1 /\ node[i] = 1 /\ summaryCancel[i] = 1

\* The restart, from the close of stopMonitor to the new monitor.
RestartPhase(i) ==
    LET at == monitorPC[i][1] IN
    /\ at \in {"stopNode", "forget", "create", "start", "replace"}
    /\ node[i] = IF at \in {"stopNode", "forget"} THEN 1 ELSE NoNode
    /\ at # "stopNode" => wrapper[i][1] = "stopped"
    /\ \A g \in Gens : g > 1 =>
         /\ monitorPC[i][g] = "none"
         /\ g > 2 \/ at \notin {"start", "replace"} => wrapper[i][g] = "none"
    /\ at \in {"start", "replace"} => 2 \in Gens
    /\ at = "start" => wrapper[i][2] = "created"
    /\ at = "replace" => wrapper[i][2] = "up"
    /\ ~cooldown[i]
    /\ \A g \in Gens : ~LiveSummary(i, g)

\* A restart that failed leaves no node.
FailedPhase(i) ==
    /\ monitorPC[i][1] = "exited"
    /\ node[i] = NoNode
    /\ wrapper[i][1] = "stopped"
    /\ \A g \in Gens : g > 1 =>
         /\ monitorPC[i][g] = "none"
         /\ wrapper[i][g] # "up"
         /\ g > 2 => wrapper[i][g] = "none"
    /\ \A g \in Gens : ~LiveSummary(i, g)

\* The wrapper of the restart and its monitor.
SecondPhase(i) ==
    /\ 2 \in Gens
    /\ monitorPC[i][1] = "exited" /\ monitorPC[i][2] \in {"watch", "exited"}
    /\ node[i] = 2
    /\ wrapper[i][1] = "stopped" /\ wrapper[i][2] \in {"up", "stopped"}
    /\ \A g \in Gens : g > 2 => Untouched(i, g)
    /\ ~stopMonitorClosed[i]
    /\ \A g \in Gens : LiveSummary(i, g) => g = 2 /\ summaryCancel[i] = 2

\* Only the first wrapper subscribes to attestations, so only its topic manager
\* signals and only its monitor restarts.
SignalsOnlyFirst(i) ==
    /\ \A g \in Gens : g > 1 => ~attestations[i][g] /\ ~reconnectClosed[i][g]
    /\ \A g \in Gens : monitorPC[i][g] \in RestartPCs => reconnectClosed[i][g]

Phase(i) ==
    /\ SignalsOnlyFirst(i)
    /\ FirstPhase(i) \/ RestartPhase(i) \/ FailedPhase(i) \/ SecondPhase(i)

\* Where Application.Start is bounds what the instances have done.
Starting ==
    \A i \in Instances :
        /\ appPC \in {"new", "connecting"} => monitorPC[i][1] = "none"
        /\ appPC = "new" => node[i] = NoNode
        /\ appPC = "connecting" => node[i] = 1

\* What Stop has stopped stays stopped: the context is done by then.
Stopping ==
    appPC \in {"stopping", "stopped"} =>
        /\ ctxDone
        /\ \A i \in Instances \ stopLeft, g \in Gens : wrapper[i][g] # "up"
        /\ appPC = "stopped" =>
             stopLeft = {} /\ \A s \in Servers : serverPC[s] # "serving"

Inv ==
    /\ TypeOK
    /\ \A i \in Instances : Phase(i)
    /\ Starting
    /\ Stopping
    /\ NoDoubleClose

-----------------------------------------------------------------------------
(* Steps of one instance.                                                  *)

InstanceOf(i) ==
    <<node[i], wrapper[i], attestations[i], reconnectClosed[i], monitorPC[i],
      summaryPC[i], summaryCancelled[i], summaryCancel[i], stopMonitorClosed[i], cooldown[i]>>

InstanceStep(i, g) ==
    \/ SignalReconnection(i, g)
    \/ MonitorStops(i, g)
    \/ MonitorStartsSummary(i, g)
    \/ MonitorSignalled(i, g)
    \/ SummaryReturns(i, g)
    \/ Restart(i, g)

\* Generations are counted from 1, and no node is none of them.
LEMMA Generations == 1 \in Gens /\ Gens \subseteq Nat \ {0} /\ NoNode \notin Gens
  BY MaxGenAssumption DEF Gens, NoNode

\* The phase depends on the instance alone.
LEMMA SamePhase ==
    ASSUME NEW i, Phase(i), InstanceOf(i)' = InstanceOf(i)
    PROVE  Phase(i)'
  BY DEF Phase, SignalsOnlyFirst, FirstPhase, RestartPhase, FailedPhase, SecondPhase, Untouched, LiveSummary,
         InstanceOf

\* A step of one instance leaves the others and the application alone.
LEMMA Others ==
    ASSUME TypeOK, NEW i \in Instances, NEW g \in Gens, InstanceStep(i, g)
    PROVE  UNCHANGED appVars /\ \A j \in Instances \ {i} : InstanceOf(j)' = InstanceOf(j)
  <1> USE DEF TypeOK, InstanceOf, wrapperVars, summaryVars, restartVars, GotoMonitor
  <1>1. CASE SignalReconnection(i, g)
    BY <1>1 DEF SignalReconnection
  <1>2. CASE MonitorStops(i, g) \/ MonitorSignalled(i, g)
    BY <1>2 DEF MonitorStops, MonitorSignalled
  <1>3. CASE MonitorStartsSummary(i, g) \/ SummaryReturns(i, g)
    BY <1>3 DEF MonitorStartsSummary, SummaryReturns
  <1>4. CASE RestartBegins(i, g)
    BY <1>4 DEF RestartBegins
  <1>5. CASE RestartStopsNode(i, g) \/ RestartForgetsNode(i, g)
    BY <1>5 DEF RestartStopsNode, RestartForgetsNode, WrapperStops
  <1>6. CASE RestartCreates(i, g) \/ RestartCreateFails(i, g)
    BY <1>6 DEF RestartCreates, RestartCreateFails
  <1>7. CASE RestartStarts(i, g) \/ RestartStartFails(i, g)
    BY <1>7 DEF RestartStarts, RestartStartFails, WrapperStarts, WrapperFails
  <1>8. CASE RestartReplaces(i, g)
    BY <1>8 DEF RestartReplaces
  <1> QED
    BY <1>1, <1>2, <1>3, <1>4, <1>5, <1>6, <1>7, <1>8 DEF InstanceStep, Restart, RestartRuns

\* The topic manager, the monitor and the summary stay in their phase.
LEMMA MonitorPhase ==
    ASSUME TypeOK, NEW i \in Instances, NEW g \in Gens, Phase(i),
           \/ SignalReconnection(i, g) \/ MonitorStops(i, g) \/ MonitorStartsSummary(i, g)
           \/ MonitorSignalled(i, g) \/ SummaryReturns(i, g)
    PROVE  Phase(i)'
  <1> USE Generations DEF TypeOK, Phase, SignalsOnlyFirst, FirstPhase, RestartPhase, FailedPhase,
          SecondPhase, Untouched, LiveSummary, RestartPCs, wrapperVars, summaryVars, restartVars, GotoMonitor
  <1>1. CASE SignalReconnection(i, g)
    BY <1>1 DEF SignalReconnection
  <1>2. CASE MonitorStops(i, g)
    BY <1>2 DEF MonitorStops
  <1>3. CASE MonitorStartsSummary(i, g)
    BY <1>3 DEF MonitorStartsSummary
  <1>4. CASE MonitorSignalled(i, g)
    BY <1>4 DEF MonitorSignalled
  <1>5. CASE SummaryReturns(i, g)
    BY <1>5 DEF SummaryReturns
  <1> QED
    BY <1>1, <1>2, <1>3, <1>4, <1>5

\* A monitor that restarts is the first one.
LEMMA RestartsFirst ==
    ASSUME TypeOK, NEW i \in Instances, NEW g \in Gens, Phase(i), monitorPC[i][g] \in RestartPCs
    PROVE  /\ g = 1
           /\ monitorPC[i][1] = "cooldown" => FirstPhase(i)
           /\ monitorPC[i][1] # "cooldown" => RestartPhase(i)
  BY Generations DEF Phase, SignalsOnlyFirst, FirstPhase, RestartPhase, FailedPhase, SecondPhase,
                     Untouched, RestartPCs

\* A step of a restart, but the last, moves its own monitor alone.
LEMMA RestartMoves ==
    ASSUME NEW i \in Instances, NEW g \in Gens, Restart(i, g), ~RestartReplaces(i, g)
    PROVE  \E label \in RestartPCs \cup {"exited"} :
             monitorPC' = [monitorPC EXCEPT ![i][g] = label]
  <1> USE DEF GotoMonitor, RestartPCs
  <1>1. CASE RestartBegins(i, g)
    BY <1>1 DEF RestartBegins
  <1>2. CASE RestartStopsNode(i, g) \/ RestartForgetsNode(i, g) \/ RestartCreates(i, g)
    BY <1>2 DEF RestartStopsNode, RestartForgetsNode, RestartCreates
  <1>3. CASE RestartCreateFails(i, g) \/ RestartStarts(i, g) \/ RestartStartFails(i, g)
    BY <1>3 DEF RestartCreateFails, RestartStarts, RestartStartFails, AfterFailedRestart
  <1> QED
    BY <1>1, <1>2, <1>3 DEF Restart, RestartRuns

\* A restart goes from phase to phase.
LEMMA RestartsPhase ==
    ASSUME TypeOK, NEW i \in Instances, NEW g \in Gens, Phase(i), Restart(i, g)
    PROVE  Phase(i)'
  <1>1. g = 1 /\ monitorPC[i][1] \in RestartPCs
    BY RestartsFirst DEF Restart, RestartRuns, RestartBegins, RestartStopsNode, RestartForgetsNode,
         RestartCreates, RestartCreateFails, RestartStarts, RestartStartFails, RestartReplaces,
         RestartPCs
  <1>2. SignalsOnlyFirst(i)'
    <2>1. SignalsOnlyFirst(i) /\ reconnectClosed[i][1]
      BY <1>1, Generations DEF Phase, SignalsOnlyFirst
    <2>2. reconnectClosed' = reconnectClosed
      BY DEF Restart, RestartRuns, RestartBegins, RestartStopsNode, RestartForgetsNode, RestartCreates,
           RestartCreateFails, RestartStarts, RestartStartFails, RestartReplaces, WrapperStops,
           WrapperStarts, WrapperFails, wrapperVars
    <2>3. \A h \in Gens : h > 1 => ~attestations'[i][h]
      <3>1. CASE RestartCreates(i, g)
        BY <2>1, <3>1 DEF RestartCreates, TypeOK, SignalsOnlyFirst, SubscribesAttestations
      <3>2. CASE ~RestartCreates(i, g)
        <4>1. attestations' = attestations
          BY <3>2 DEF Restart, RestartRuns, RestartBegins, RestartStopsNode, RestartForgetsNode,
               RestartCreateFails, RestartStarts, RestartStartFails, RestartReplaces, WrapperStops,
               WrapperStarts, WrapperFails, wrapperVars
        <4> QED
          BY <2>1, <4>1 DEF SignalsOnlyFirst
      <3> QED
        BY <3>1, <3>2
    <2>4. ASSUME NEW h \in Gens, h # 1
          PROVE  monitorPC'[i][h] \notin RestartPCs
      <3>1. monitorPC[i][h] \notin RestartPCs
        BY <2>1, <2>4, Generations DEF SignalsOnlyFirst, Gens
      <3>2. CASE RestartReplaces(i, g)
        BY <1>1, <2>4, <3>1, <3>2, Generations DEF RestartReplaces, TypeOK, RestartPCs
      <3>3. CASE ~RestartReplaces(i, g)
        <4>1. PICK label : monitorPC' = [monitorPC EXCEPT ![i][1] = label]
          BY <1>1, <3>3, RestartMoves
        <4> QED
          BY <2>4, <3>1, <4>1, Generations DEF TypeOK
      <3> QED
        BY <3>2, <3>3
    <2> QED
      BY <2>1, <2>2, <2>3, <2>4, Generations DEF SignalsOnlyFirst, Gens
  <1>3. CASE RestartBegins(i, 1)
    <2>1. FirstPhase(i)
      BY <1>1, <1>3, RestartsFirst DEF RestartBegins
    <2>2. /\ monitorPC' = [monitorPC EXCEPT ![i][1] = "stopNode"]
          /\ summaryCancelled' = [summaryCancelled EXCEPT ![i] = AfterSummaryCancel(i)]
          /\ UNCHANGED <<node, wrapper, summaryPC, cooldown>>
      BY <1>3, <2>1 DEF RestartBegins, FirstPhase, GotoMonitor, wrapperVars
    <2>3. \A h \in Gens : ~LiveSummary(i, h)'
      <3>1. \A h \in Gens : summaryCancelled'[i][h] = (summaryCancelled[i][h] \/ h = summaryCancel[i])
        BY <2>2 DEF TypeOK, AfterSummaryCancel
      <3>2. \A h \in Gens : summaryPC[i][h] = "running" /\ ~summaryCancelled[i][h] => h = summaryCancel[i]
        BY <2>1 DEF FirstPhase, LiveSummary
      <3> QED
        BY <2>2, <3>1, <3>2 DEF LiveSummary
    <2>4. RestartPhase(i)'
      <3>1. node[i] = 1
        BY <1>3, <2>1 DEF RestartBegins, FirstPhase
      <3> QED
        BY <2>1, <2>2, <2>3, <3>1, Generations DEF TypeOK, FirstPhase, RestartPhase, Untouched
    <2> QED
      BY <1>2, <2>4 DEF Phase
  <1>4. CASE ~RestartBegins(i, 1)
    <2>1. RestartPhase(i)
      BY <1>1, <1>4, RestartsFirst DEF Restart, RestartRuns, RestartStopsNode, RestartForgetsNode,
           RestartCreates, RestartCreateFails, RestartStarts, RestartStartFails, RestartReplaces
    <2> USE <1>2, <2>1, Generations DEF TypeOK, Phase, RestartPhase, LiveSummary, wrapperVars, summaryVars, restartVars,
          GotoMonitor
    <2>2. CASE RestartStopsNode(i, 1)
      <3>1. RestartPhase(i)'
        BY <2>2 DEF RestartStopsNode, WrapperStops
      <3> QED
        BY <3>1
    <2>3. CASE RestartForgetsNode(i, 1)
      <3>1. RestartPhase(i)'
        BY <2>3 DEF RestartForgetsNode
      <3> QED
        BY <3>1
    <2>4. CASE RestartCreates(i, 1)
      <3>1. RestartPhase(i)'
        BY <2>4 DEF RestartCreates
      <3> QED
        BY <3>1
    <2>5. CASE RestartCreateFails(i, 1)
      <3>1. FailedPhase(i)'
        BY <2>5 DEF RestartCreateFails, AfterFailedRestart, FailedPhase
      <3> QED
        BY <3>1
    <2>6. CASE RestartStarts(i, 1)
      <3>1. RestartPhase(i)'
        BY <2>6 DEF RestartStarts, WrapperStarts
      <3> QED
        BY <3>1
    <2>7. CASE RestartStartFails(i, 1)
      <3>1. FailedPhase(i)'
        BY <2>7 DEF RestartStartFails, WrapperFails, AfterFailedRestart, FailedPhase
      <3> QED
        BY <3>1
    <2>8. CASE RestartReplaces(i, 1)
      <3>1. SecondPhase(i)'
        BY <2>8 DEF RestartReplaces, SecondPhase, Untouched
      <3> QED
        BY <3>1
    <2> QED
      BY <1>1, <1>4, <2>2, <2>3, <2>4, <2>5, <2>6, <2>7, <2>8 DEF Restart, RestartRuns
  <1> QED
    BY <1>1, <1>3, <1>4

\* What else a step of an instance keeps: an instance without a monitor has none
\* after it, and no wrapper connects once the context is done.
LEMMA InstanceKeeps ==
    ASSUME TypeOK, NEW i \in Instances, NEW g \in Gens, Phase(i), InstanceStep(i, g)
    PROVE  /\ monitorPC[i][1] = "none" => monitorPC'[i][1] = "none" /\ node'[i] = node[i]
           /\ ctxDone => \A k \in Gens : wrapper'[i][k] = "up" => wrapper[i][k] = "up"
  <1>1. ASSUME monitorPC[i][1] = "none"
        PROVE  monitorPC'[i][1] = "none" /\ node'[i] = node[i]
    <2>1. monitorPC[i][g] = "none"
      BY <1>1, Generations DEF Phase, FirstPhase, RestartPhase, FailedPhase, SecondPhase, Untouched
    <2> QED
      BY <1>1, <2>1 DEF InstanceStep, SignalReconnection, MonitorStops, MonitorStartsSummary,
           MonitorSignalled, SummaryReturns, Restart, RestartRuns, RestartBegins, RestartStopsNode,
           RestartForgetsNode, RestartCreates, RestartCreateFails, RestartStarts,
           RestartStartFails, RestartReplaces
  <1>2. ASSUME ctxDone, NEW k \in Gens, wrapper'[i][k] = "up"
        PROVE  wrapper[i][k] = "up"
    BY <1>2 DEF TypeOK, wrapperVars, InstanceStep, SignalReconnection, MonitorStops,
         MonitorStartsSummary, MonitorSignalled, SummaryReturns, Restart, RestartRuns, RestartBegins,
         RestartStopsNode, RestartForgetsNode, RestartCreates, RestartCreateFails, RestartStarts,
         RestartStartFails, RestartReplaces, WrapperStops, WrapperStarts, WrapperFails
  <1> QED
    BY <1>1, <1>2

\* stopMonitor is closed only where it is open.
LEMMA ClosedOnce ==
    ASSUME NoDoubleClose, NEW i \in Instances, NEW g \in Gens, TypeOK, Phase(i), InstanceStep(i, g)
    PROVE  NoDoubleClose'
  <1>1. CASE RestartBegins(i, g)
    <2>1. FirstPhase(i)
      BY <1>1, RestartsFirst DEF RestartBegins, RestartPCs
    <2> QED
      BY <1>1, <2>1 DEF RestartBegins, FirstPhase, NoDoubleClose
  <1>2. CASE ~RestartBegins(i, g)
    BY <1>2 DEF NoDoubleClose, restartVars, InstanceStep, SignalReconnection, MonitorStops,
         MonitorStartsSummary, MonitorSignalled, SummaryReturns, Restart, RestartRuns, RestartStopsNode,
         RestartForgetsNode, RestartCreates, RestartCreateFails, RestartStarts,
         RestartStartFails, RestartReplaces
  <1> QED
    BY <1>1, <1>2

\* The types of the variables with an entry for each generation.
MonitorType == monitorPC \in [Instances -> [Gens -> {"none", "watch", "exited"} \cup RestartPCs]]
WrapperType == wrapper \in [Instances -> [Gens -> {"none", "created", "up", "failed", "stopped"}]]
SummaryType ==
    /\ summaryPC \in [Instances -> [Gens -> {"none", "running", "returned"}]]
    /\ summaryCancelled \in [Instances -> [Gens -> BOOLEAN]]

\* Changing one entry to another of its type keeps the type.
LEMMA TableType ==
    ASSUME NEW V, NEW f \in [Instances -> [Gens -> V]], NEW i \in Instances, NEW g, NEW v \in V
    PROVE  [f EXCEPT ![i][g] = v] \in [Instances -> [Gens -> V]]
  <1>1. [f[i] EXCEPT ![g] = v] \in [Gens -> V]
    OBVIOUS
  <1> QED
    BY <1>1

\* A monitor goes to a label of its own.
LEMMA GotoType ==
    ASSUME TypeOK, NEW i \in Instances, NEW g \in Gens,
           NEW label \in {"none", "watch", "exited"} \cup RestartPCs, GotoMonitor(i, g, label)
    PROVE  MonitorType'
  BY TableType DEF TypeOK, GotoMonitor, MonitorType

\* What becomes of a wrapper is in its type.
LEMMA WrapperChange ==
    ASSUME TypeOK, NEW i \in Instances, NEW g,
           \/ WrapperStarts(i, g) \/ WrapperFails(i, g) \/ WrapperStops(i, g)
           \/ wrapper' = [wrapper EXCEPT ![i][g] = "created"]
    PROVE  WrapperType'
  <1> DEFINE States == {"none", "created", "up", "failed", "stopped"}
  <1>1. wrapper \in [Instances -> [Gens -> States]]
    BY DEF TypeOK
  <1>2. PICK v \in States : wrapper' = [wrapper EXCEPT ![i][g] = v]
    BY DEF WrapperStarts, WrapperFails, WrapperStops
  <1>3. wrapper' \in [Instances -> [Gens -> States]]
    <2> HIDE DEF States
    <2> QED
      BY <1>1, <1>2, TableType
  <1> QED
    BY <1>3 DEF WrapperType

\* Types, which need the phase where the next generation is installed.
LEMMA InstanceType ==
    ASSUME TypeOK, NEW i \in Instances, NEW g \in Gens, Phase(i), InstanceStep(i, g)
    PROVE  TypeOK'
  <1> USE DEF TypeOK, wrapperVars, summaryVars, restartVars, appVars
  <1>1. CASE SignalReconnection(i, g)
    BY <1>1 DEF SignalReconnection
  <1>2. CASE MonitorStops(i, g) \/ MonitorSignalled(i, g)
    <2>1. MonitorType'
      BY <1>2, GotoType DEF MonitorStops, MonitorSignalled, RestartPCs
    <2> QED
      BY <1>2, <2>1 DEF MonitorStops, MonitorSignalled, MonitorType
  <1>3. CASE MonitorStartsSummary(i, g) \/ SummaryReturns(i, g)
    <2>1. SummaryType'
      <3> DEFINE States == {"none", "running", "returned"}
      <3>1. PICK v \in States : summaryPC' = [summaryPC EXCEPT ![i][g] = v]
        BY <1>3 DEF MonitorStartsSummary, SummaryReturns
      <3>2. summaryPC \in [Instances -> [Gens -> States]]
        OBVIOUS
      <3>3. summaryPC' \in [Instances -> [Gens -> States]]
        <4> HIDE DEF States
        <4> QED
          BY <3>1, <3>2, TableType
      <3>4. summaryCancelled' = summaryCancelled
        BY <1>3 DEF MonitorStartsSummary, SummaryReturns
      <3> QED
        BY <3>3, <3>4 DEF SummaryType
    <2>2. summaryCancel' \in [Instances -> Gens \cup {NoNode}]
      BY <1>3 DEF MonitorStartsSummary, SummaryReturns
    <2> QED
      BY <1>3, <2>1, <2>2 DEF MonitorStartsSummary, SummaryReturns, SummaryType
  <1>4. CASE RestartBegins(i, g)
    <2>1. MonitorType'
      BY <1>4, GotoType DEF RestartBegins, RestartPCs
    <2>2. SummaryType'
      <3>1. AfterSummaryCancel(i) \in [Gens -> BOOLEAN]
        BY DEF AfterSummaryCancel
      <3> QED
        BY <1>4, <3>1 DEF RestartBegins, SummaryType
    <2> QED
      BY <1>4, <2>1, <2>2 DEF RestartBegins, MonitorType, SummaryType
  <1>5. CASE RestartStopsNode(i, g) \/ RestartForgetsNode(i, g)
    <2>1. MonitorType'
      BY <1>5, GotoType DEF RestartStopsNode, RestartForgetsNode, RestartPCs
    <2>2. WrapperType'
      BY <1>5, WrapperChange DEF RestartStopsNode, RestartForgetsNode, WrapperType
    <2> QED
      BY <1>5, <2>1, <2>2 DEF RestartStopsNode, RestartForgetsNode, WrapperStops, MonitorType, WrapperType
  <1>6. CASE RestartCreates(i, g) \/ RestartCreateFails(i, g)
    <2>1. MonitorType'
      BY <1>6, GotoType DEF RestartCreates, RestartCreateFails, AfterFailedRestart, RestartPCs
    <2>2. WrapperType'
      BY <1>6, WrapperChange DEF RestartCreates, RestartCreateFails, WrapperType
    <2>3. attestations' \in [Instances -> [Gens -> BOOLEAN]]
      <3>1. CASE RestartCreates(i, g)
        <4>1. attestations' = [attestations EXCEPT ![i][g + 1] = FALSE]
          BY <3>1 DEF RestartCreates, SubscribesAttestations
        <4> QED
          BY <4>1, TableType
      <3> QED
        BY <1>6, <3>1 DEF RestartCreateFails
    <2> QED
      BY <1>6, <2>1, <2>2, <2>3 DEF RestartCreates, RestartCreateFails, MonitorType, WrapperType
  <1>7. CASE RestartStarts(i, g) \/ RestartStartFails(i, g)
    <2>1. MonitorType'
      BY <1>7, GotoType DEF RestartStarts, RestartStartFails, AfterFailedRestart, RestartPCs
    <2>2. WrapperType'
      BY <1>7, WrapperChange DEF RestartStarts, RestartStartFails
    <2> QED
      BY <1>7, <2>1, <2>2 DEF RestartStarts, RestartStartFails, WrapperStarts, WrapperFails,
           MonitorType, WrapperType
  <1>8. CASE RestartReplaces(i, g)
    <2>1. g = 1 /\ RestartPhase(i)
      BY <1>8, RestartsFirst DEF RestartReplaces, RestartPCs
    <2>2. g + 1 \in Gens
      BY <1>8, <2>1 DEF RestartReplaces, RestartPhase
    <2>3. node' \in [Instances -> Gens \cup {NoNode}]
      BY <1>8, <2>2 DEF RestartReplaces
    <2>4. MonitorType'
      BY <1>8 DEF RestartReplaces, MonitorType
    <2> QED
      BY <1>8, <2>3, <2>4 DEF RestartReplaces, MonitorType
  <1> QED
    BY <1>1, <1>2, <1>3, <1>4, <1>5, <1>6, <1>7, <1>8 DEF InstanceStep, Restart, RestartRuns

\* A step of an instance keeps the invariant.
LEMMA InstanceInv ==
    ASSUME Inv, Alive, NEW i \in Instances, NEW g \in Gens, InstanceStep(i, g)
    PROVE  Inv'
  <1> USE DEF Inv
  <1>1. TypeOK' /\ NoDoubleClose'
    BY InstanceType, ClosedOnce
  <1>2. ASSUME NEW j \in Instances
        PROVE  Phase(j)'
    <2>1. CASE j = i
      BY <2>1, MonitorPhase, RestartsPhase DEF InstanceStep
    <2>2. CASE j # i
      BY <2>2, Others, SamePhase
    <2> QED
      BY <2>1, <2>2
  <1>3. ASSUME NEW j \in Instances
        PROVE  /\ monitorPC[j][1] = "none" => monitorPC'[j][1] = "none" /\ node'[j] = node[j]
               /\ ctxDone => \A k \in Gens : wrapper'[j][k] = "up" => wrapper[j][k] = "up"
    <2>1. CASE j = i
      BY <2>1, InstanceKeeps
    <2>2. CASE j # i
      BY <2>2, Others DEF InstanceOf
    <2> QED
      BY <2>1, <2>2
  <1>4. UNCHANGED <<ctxDone, appPC, serverPC, stopLeft>>
    BY Others DEF appVars
  <1>5. Starting'
    BY <1>3, <1>4 DEF Starting
  <1>6. Stopping'
    BY <1>3, <1>4 DEF Stopping, Alive
  <1> QED
    BY <1>1, <1>2, <1>5, <1>6

-----------------------------------------------------------------------------
(* Steps of the application.                                               *)

\* The steps of the application keep the types.
LEMMA ApplicationType ==
    ASSUME TypeOK,
           \/ StartComponents \/ StartFails \/ ConnectReturns \/ ConnectFails \/ CancelContext
           \/ BeginStop \/ FinishStop
           \/ \E s \in Servers : ServerListens(s)
           \/ \E i \in Instances : Connect(i) \/ StopInstance(i) \/ CooldownElapses(i)
           \/ UNCHANGED vars
    PROVE  TypeOK'
  <1> USE Generations DEF TypeOK, wrapperVars, summaryVars, restartVars, appVars
  <1>1. CASE StartComponents
    BY <1>1 DEF StartComponents
  <1>2. CASE StartFails \/ ConnectFails \/ CancelContext \/ BeginStop
    BY <1>2 DEF StartFails, ConnectFails, CancelContext, BeginStop
  <1>3. CASE ConnectReturns
    BY <1>3 DEF ConnectReturns
  <1>4. CASE FinishStop \/ \E s \in Servers : ServerListens(s)
    BY <1>4 DEF FinishStop, ServerListens
  <1>5. ASSUME NEW i \in Instances, Connect(i) \/ StopInstance(i) \/ CooldownElapses(i)
        PROVE  TypeOK'
    <2>1. WrapperType'
      BY <1>5, WrapperChange DEF Connect, StopInstance, CooldownElapses, WrapperType
    <2> QED
      BY <1>5, <2>1 DEF Connect, StopInstance, CooldownElapses, WrapperStarts, WrapperFails,
           WrapperStops, WrapperType
  <1>6. CASE UNCHANGED vars
    BY <1>6 DEF vars
  <1> QED
    BY <1>1, <1>2, <1>3, <1>4, <1>5, <1>6

\* Starting the components and the monitors is the first phase.
LEMMA StartInv ==
    ASSUME Inv, StartComponents \/ ConnectReturns
    PROVE  Inv'
  <1> USE DEF Inv
  <1>1. TypeOK'
    BY ApplicationType
  <1>2. ASSUME NEW i \in Instances
        PROVE  Phase(i)'
    <2>1. FirstPhase(i) /\ monitorPC[i][1] = "none"
      BY Generations DEF StartComponents, ConnectReturns, Starting, Phase, RestartPhase,
           FailedPhase, SecondPhase
    <2>2. SignalsOnlyFirst(i)
      BY DEF Phase
    <2>3. FirstPhase(i)'
      BY <2>1, Generations DEF TypeOK, StartComponents, ConnectReturns, Starting, FirstPhase, LiveSummary,
           Untouched, wrapperVars, summaryVars, restartVars
    <2>4. SignalsOnlyFirst(i)'
      <3>1. reconnectClosed' = reconnectClosed
        BY DEF StartComponents, ConnectReturns, wrapperVars
      <3>2. \A g \in Gens : g > 1 => attestations'[i][g] = attestations[i][g]
        BY Generations DEF TypeOK, StartComponents, ConnectReturns, wrapperVars
      <3>3. \A g \in Gens : monitorPC'[i][g] = monitorPC[i][g] \/ monitorPC'[i][g] = "watch"
        BY Generations DEF TypeOK, StartComponents, ConnectReturns
      <3> QED
        BY <2>2, <3>1, <3>2, <3>3 DEF SignalsOnlyFirst, RestartPCs
    <2> QED
      BY <2>3, <2>4 DEF Phase
  <1>3. Starting'
    BY Generations DEF TypeOK, StartComponents, ConnectReturns, Starting
  <1>4. Stopping' /\ NoDoubleClose'
    BY DEF StartComponents, ConnectReturns, Stopping, NoDoubleClose, restartVars
  <1> QED
    BY <1>1, <1>2, <1>3, <1>4

\* Connecting, stopping and the cooldown change one instance within its phase.
LEMMA WrapperInv ==
    ASSUME Inv, NEW i \in Instances,
           \/ Connect(i)
           \/ StopInstance(i)
           \/ Alive /\ CooldownElapses(i)
    PROVE  Inv'
  <1> USE DEF Inv
  <1>1. TypeOK'
    BY ApplicationType
  <1>2. ASSUME NEW j \in Instances \ {i}
        PROVE  Phase(j)'
    <2>1. InstanceOf(j)' = InstanceOf(j)
      BY DEF TypeOK, InstanceOf, Connect, StopInstance, CooldownElapses, WrapperStarts,
           WrapperFails, WrapperStops, wrapperVars, summaryVars, restartVars
    <2> QED
      BY <2>1, SamePhase
  <1>3. Phase(i)'
    <2> USE Generations DEF TypeOK, Phase, SignalsOnlyFirst, FirstPhase, RestartPhase, FailedPhase,
            SecondPhase, Untouched, LiveSummary, wrapperVars, summaryVars, restartVars
    <2>1. CASE Connect(i)
      BY <2>1 DEF Connect, WrapperStarts, WrapperFails
    <2>2. CASE StopInstance(i)
      BY <2>2 DEF StopInstance, WrapperStops
    <2>3. CASE CooldownElapses(i)
      BY <2>3 DEF CooldownElapses
    <2> QED
      BY <2>1, <2>2, <2>3
  <1>4. Starting'
    BY DEF TypeOK, Starting, Connect, StopInstance, CooldownElapses, appVars
  <1>5. Stopping'
    <2>1. CASE Connect(i)
      <3>1. UNCHANGED <<ctxDone, appPC, serverPC, stopLeft>>
        BY <2>1 DEF Connect, appVars
      <3>2. ASSUME ctxDone, NEW j \in Instances, NEW g \in Gens, wrapper'[j][g] = "up"
            PROVE  wrapper[j][g] = "up"
        <4>1. wrapper' = [wrapper EXCEPT ![i][1] = "failed"]
          BY <2>1, <3>2 DEF Connect, WrapperStarts, WrapperFails
        <4>2. wrapper \in [Instances -> [Gens -> {"none", "created", "up", "failed", "stopped"}]]
          BY DEF TypeOK
        <4> QED
          BY <3>2, <4>1, <4>2
      <3> QED
        BY <3>1, <3>2 DEF Stopping
    <2>2. CASE StopInstance(i)
      <3>1. ASSUME node[i] # NoNode, NEW g \in Gens
            PROVE  wrapper'[i][g] # "up"
        <4>1. wrapper' = [wrapper EXCEPT ![i][node[i]] = "stopped"]
          BY <2>2, <3>1 DEF StopInstance, WrapperStops
        <4>2. node[i] \in Gens /\ (g # node[i] => wrapper[i][g] # "up")
          <5>1. node[i] \in Gens
            BY <3>1 DEF TypeOK
          <5>2. FirstPhase(i) \/ SecondPhase(i) \/ RestartPhase(i)
            BY <3>1 DEF Phase, FailedPhase
          <5>3. ASSUME FirstPhase(i), g # node[i] PROVE wrapper[i][g] # "up"
            BY <3>1, <5>3, Generations DEF FirstPhase, Untouched
          <5>4. ASSUME SecondPhase(i), g # node[i] PROVE wrapper[i][g] # "up"
            BY <5>4, Generations DEF SecondPhase, Untouched
          <5>5. ASSUME RestartPhase(i), g # node[i] PROVE wrapper[i][g] # "up"
            BY <3>1, <5>5, Generations DEF RestartPhase
          <5> QED
            BY <5>1, <5>2, <5>3, <5>4, <5>5
        <4>3. wrapper \in [Instances -> [Gens -> {"none", "created", "up", "failed", "stopped"}]]
          BY DEF TypeOK
        <4> QED
          BY <4>1, <4>2, <4>3
      <3>2. ASSUME NEW j \in Instances, NEW g \in Gens, wrapper'[j][g] = "up"
            PROVE  wrapper[j][g] = "up"
        <4>1. wrapper' = wrapper \/ wrapper' = [wrapper EXCEPT ![i][node[i]] = "stopped"]
          BY <2>2 DEF StopInstance, WrapperStops, wrapperVars
        <4>2. wrapper \in [Instances -> [Gens -> {"none", "created", "up", "failed", "stopped"}]]
          BY DEF TypeOK
        <4> QED
          BY <3>2, <4>1, <4>2
      <3>3. /\ appPC' \in {"stopping", "panicked"} /\ appPC = "stopping" /\ ctxDone' = ctxDone
            /\ stopLeft' = stopLeft \ {i} /\ (appPC' = "stopping" => node[i] # NoNode)
        BY <2>2 DEF TypeOK, StopInstance, WrapperStops
      <3> QED
        BY <3>1, <3>2, <3>3 DEF Stopping
    <2>3. CASE CooldownElapses(i)
      BY <2>3 DEF Stopping, CooldownElapses, appVars, wrapperVars
    <2> QED
      BY <2>1, <2>2, <2>3
  <1>6. NoDoubleClose'
    BY DEF NoDoubleClose, Connect, StopInstance, CooldownElapses, restartVars
  <1> QED
    BY <1>1, <1>2, <1>3, <1>4, <1>5, <1>6

\* The remaining steps change no instance.
LEMMA ApplicationInv ==
    ASSUME Inv,
           \/ StartFails \/ ConnectFails \/ CancelContext \/ BeginStop \/ FinishStop
           \/ \E s \in Servers : ServerListens(s)
           \/ UNCHANGED vars
    PROVE  Inv'
  <1> USE DEF Inv
  <1>1. TypeOK'
    BY ApplicationType
  <1>2. UNCHANGED <<node, wrapper, attestations, reconnectClosed, monitorPC, summaryPC, summaryCancelled,
                    summaryCancel, stopMonitorClosed, cooldown, doubleClose>>
    BY DEF StartFails, ConnectFails, CancelContext, BeginStop, FinishStop, ServerListens, vars,
         wrapperVars, summaryVars, restartVars
  <1>3. \A i \in Instances : Phase(i)'
    BY <1>2, SamePhase DEF InstanceOf
  <1>4. Starting' /\ NoDoubleClose'
    BY <1>2 DEF Starting, NoDoubleClose, StartFails, ConnectFails, CancelContext, BeginStop,
         FinishStop, ServerListens, vars, appVars
  <1>5. Stopping'
    BY <1>2 DEF TypeOK, Stopping, Alive, StartFails, ConnectFails, CancelContext, BeginStop,
         FinishStop, ServerListens, vars, appVars
  <1> QED
    BY <1>1, <1>3, <1>4, <1>5

-----------------------------------------------------------------------------
(* The theorems.                                                           *)

\* The invariant holds in every reachable state.
LEMMA Invariance == Spec => []Inv
  <1>1. Init => Inv
    <2> SUFFICES ASSUME Init PROVE Inv
      OBVIOUS
    <2>1. TypeOK
      BY DEF Init, TypeOK
    <2>2. \A i \in Instances : Phase(i)
      BY Generations DEF Init, Phase, SignalsOnlyFirst, FirstPhase, Untouched, LiveSummary, RestartPCs
    <2>3. Starting /\ Stopping /\ NoDoubleClose
      BY Generations DEF Init, Starting, Stopping, NoDoubleClose
    <2> QED
      BY <2>1, <2>2, <2>3 DEF Inv
  <1>2. Inv /\ [Next]_vars => Inv'
    BY InstanceInv, StartInv, WrapperInv, ApplicationInv DEF Next, InstanceStep
  <1> QED
    BY <1>1, <1>2, PTL DEF Spec

\* Types, among them that a generation is installed only if there is one.
THEOREM TypeCorrect == Spec => []TypeOK
  <1>1. Inv => TypeOK
    BY DEF Inv
  <1> QED
    BY <1>1, Invariance, PTL

\* At most one of a set of generations whose members are all equal.
LEMMA AtMostOne ==
    ASSUME NEW S, NEW x, S \subseteq {x}
    PROVE  Cardinality(S) <= 1
  <1>1. IsFiniteSet({x}) /\ Cardinality({x}) = 1
    BY FS_Singleton
  <1> QED
    BY <1>1, FS_Subset

\* An instance has one monitor and one connection to its node at most, although
\* a restart runs in the monitor it replaces.
THEOREM OneConnection == Spec => []OneMonitorOneConnection
  <1>1. ASSUME Inv, NEW i \in Instances
        PROVE  /\ Cardinality({g \in Gens : Monitoring(i, g)}) <= 1
               /\ Cardinality({g \in Gens : wrapper[i][g] = "up"}) <= 1
    <2> USE <1>1, Generations DEF Inv, Phase, FirstPhase, RestartPhase, FailedPhase, SecondPhase,
          Untouched
    <2>1. \E x : {g \in Gens : Monitoring(i, g)} \subseteq {x}
      <3>1. \/ {g \in Gens : Monitoring(i, g)} \subseteq {1}
            \/ {g \in Gens : Monitoring(i, g)} \subseteq {2}
        BY DEF Monitoring, Gens
      <3> QED
        BY <3>1
    <2>2. \E x : {g \in Gens : wrapper[i][g] = "up"} \subseteq {x}
      <3>1. \/ {g \in Gens : wrapper[i][g] = "up"} \subseteq {1}
            \/ {g \in Gens : wrapper[i][g] = "up"} \subseteq {2}
        BY DEF Gens
      <3> QED
        BY <3>1
    <2> QED
      BY <2>1, <2>2, AtMostOne
  <1>2. Inv => OneMonitorOneConnection
    BY <1>1 DEF OneMonitorOneConnection
  <1> QED
    BY <1>2, Invariance, PTL

\* No wrapper that came from a restart is restarted again.
THEOREM RestartedOnce == Spec => []RestartedAtMostOnce
  <1>1. Inv => RestartedAtMostOnce
    BY Generations DEF Inv, Phase, FirstPhase, RestartPhase, FailedPhase, SecondPhase, Untouched,
         RestartedAtMostOnce, Gens
  <1> QED
    BY <1>1, Invariance, PTL

\* A restart tells every summary of the wrapper it replaces to end before it gives
\* up the means to: no other summary than that of the instance's node goes on.
THEOREM SummaryAlone == Spec => []OneSummary
  <1>1. Inv => OneSummary
    BY DEF Inv, Phase, FirstPhase, RestartPhase, FailedPhase, SecondPhase, LiveSummary,
       OneSummary, SummaryRunning
  <1> QED
    BY <1>1, Invariance, PTL

\* A restart that failed leaves stopMonitor closed, and nothing closes it again.
THEOREM NoCloseTwice == Spec => []NoDoubleClose
  <1>1. Inv => NoDoubleClose
    BY DEF Inv
  <1> QED
    BY <1>1, Invariance, PTL

\* Wherever shutdown falls in a start or a restart, Stop returns only with every
\* wrapper disconnected and every server down, or it panics.
THEOREM Disconnected == Spec => []StoppedMeansDisconnected
  <1>1. Inv => StoppedMeansDisconnected
    BY DEF Inv, Stopping, StoppedMeansDisconnected
  <1> QED
    BY <1>1, Invariance, PTL

-----------------------------------------------------------------------------
(* Why Stop may panic.                                                     *)

\* Once the components have started, an instance without a node is one whose topic
\* manager has signalled and whose restart, begun by its monitor, has not ended well.
MissingExplained ==
    /\ appPC \in {"running", "stopping", "stopped", "panicked"} =>
         \A i \in Instances : monitorPC[i][1] # "none"
    /\ \A i \in Instances :
         node[i] = NoNode => appPC \in {"new", "failed"} \/ reconnectClosed[i][1]
    /\ appPC = "panicked" => \E i \in Instances : node[i] = NoNode

\* No step of the application takes a node away from an instance.
LEMMA ApplicationMissing ==
    ASSUME Inv, MissingExplained,
           \/ StartComponents \/ StartFails \/ ConnectReturns \/ ConnectFails \/ CancelContext
           \/ BeginStop \/ FinishStop
           \/ \E s \in Servers : ServerListens(s)
           \/ \E i \in Instances : Connect(i) \/ StopInstance(i)
           \/ Alive /\ \E i \in Instances : CooldownElapses(i)
           \/ UNCHANGED vars
    PROVE  MissingExplained'
  <1> USE DEF MissingExplained
  <1>1. CASE StartComponents
    BY <1>1, Generations DEF StartComponents
  <1>2. CASE ConnectReturns
    <2>1. \A i \in Instances : monitorPC'[i][1] = "watch"
      BY <1>2, Generations DEF ConnectReturns, Inv, TypeOK
    <2> QED
      BY <1>2, <2>1 DEF ConnectReturns, wrapperVars
  <1>3. CASE StartFails \/ ConnectFails \/ CancelContext \/ BeginStop \/ FinishStop
    BY <1>3 DEF StartFails, ConnectFails, CancelContext, BeginStop, FinishStop, Alive, wrapperVars
  <1>4. CASE \/ \E s \in Servers : ServerListens(s)
             \/ Alive /\ \E i \in Instances : CooldownElapses(i)
             \/ UNCHANGED vars
    BY <1>4 DEF ServerListens, CooldownElapses, vars, appVars, wrapperVars
  <1>5. ASSUME NEW i \in Instances, Connect(i)
        PROVE  MissingExplained'
    BY <1>5 DEF Connect, WrapperStarts, WrapperFails, appVars
  <1>6. ASSUME NEW i \in Instances, StopInstance(i)
        PROVE  MissingExplained'
    BY <1>6 DEF StopInstance, WrapperStops, wrapperVars
  <1> QED
    BY <1>1, <1>2, <1>3, <1>4, <1>5, <1>6

\* Only RestartForgetsNode takes a node away, and only a signal leads there.
LEMMA InstanceMissing ==
    ASSUME Inv, MissingExplained, Alive, NEW i \in Instances, NEW g \in Gens, InstanceStep(i, g)
    PROVE  MissingExplained'
  <1>1. UNCHANGED appVars /\ \A j \in Instances \ {i} : InstanceOf(j)' = InstanceOf(j)
    BY Others DEF Inv
  <1>2. \A j \in Instances \ {i} :
          node'[j] = node[j] /\ monitorPC'[j] = monitorPC[j] /\ reconnectClosed'[j] = reconnectClosed[j]
    BY <1>1 DEF InstanceOf
  <1>3. monitorPC[i][1] # "none" => monitorPC'[i][1] # "none"
    <2>1. monitorPC \in [Instances -> [Gens -> {"none", "watch", "exited"} \cup RestartPCs]]
      BY DEF Inv, TypeOK
    <2>2. CASE RestartReplaces(i, g)
      BY <2>1, <2>2, Generations DEF RestartReplaces
    <2>3. CASE Restart(i, g) /\ ~RestartReplaces(i, g)
      <3>1. PICK label \in RestartPCs \cup {"exited"} :
              monitorPC' = [monitorPC EXCEPT ![i][g] = label]
        BY <2>3, RestartMoves
      <3> QED
        BY <2>1, <3>1, Generations DEF RestartPCs
    <2>4. CASE ~Restart(i, g)
      BY <2>1, <2>4, Generations DEF InstanceStep, SignalReconnection, MonitorStops,
         MonitorStartsSummary, MonitorSignalled, SummaryReturns, GotoMonitor
    <2> QED
      BY <2>2, <2>3, <2>4
  <1>4. reconnectClosed[i][1] => reconnectClosed'[i][1]
    <2>1. CASE SignalReconnection(i, g)
      BY <2>1, Generations DEF SignalReconnection, Inv, TypeOK
    <2>2. CASE Restart(i, g)
      <3>1. reconnectClosed' = reconnectClosed
        BY <2>2 DEF Restart, RestartRuns, RestartBegins, RestartStopsNode, RestartForgetsNode, RestartCreates,
             RestartCreateFails, RestartStarts, RestartStartFails, RestartReplaces, WrapperStops,
             WrapperStarts, WrapperFails, wrapperVars
      <3> QED
        BY <3>1
    <2>3. CASE ~SignalReconnection(i, g) /\ ~Restart(i, g)
      BY <2>3 DEF InstanceStep, MonitorStops, MonitorStartsSummary, MonitorSignalled, SummaryReturns,
           wrapperVars
    <2> QED
      BY <2>1, <2>2, <2>3
  <1>5. node'[i] = NoNode => node[i] = NoNode \/ reconnectClosed'[i][1]
    <2>1. CASE RestartForgetsNode(i, g)
      <3>1. reconnectClosed[i][g] /\ g = 1
        BY <2>1, Generations DEF RestartForgetsNode, Inv, Phase, SignalsOnlyFirst, RestartPCs, Gens
      <3> QED
        BY <3>1, <1>4
    <2>2. CASE RestartReplaces(i, g)
      BY <2>2, MaxGenAssumption DEF RestartReplaces, Inv, TypeOK, Gens, NoNode
    <2>3. CASE ~RestartForgetsNode(i, g) /\ ~RestartReplaces(i, g)
      BY <2>3 DEF InstanceStep, SignalReconnection, MonitorStops, MonitorStartsSummary,
         MonitorSignalled, SummaryReturns, Restart, RestartRuns, RestartBegins, RestartStopsNode, RestartCreates,
         RestartCreateFails, RestartStarts, RestartStartFails
    <2> QED
      BY <2>1, <2>2, <2>3
  <1> QED
    BY <1>1, <1>2, <1>3, <1>4, <1>5 DEF MissingExplained, appVars, Alive

\* So it is in every state of every run.
LEMMA MissingHolds == Spec => []MissingExplained
  <1>1. Init => MissingExplained
    BY DEF Init, MissingExplained
  <1>2. Inv /\ MissingExplained /\ [Next]_vars => MissingExplained'
    BY ApplicationMissing, InstanceMissing DEF Next, InstanceStep
  <1> QED
    BY <1>1, <1>2, Invariance, PTL DEF Spec

\* Stop has met an instance whose restart was under way or had failed.
PanicsInRestart ==
    appPC = "panicked" =>
        \E i \in Instances :
            /\ node[i] = NoNode
            /\ reconnectClosed[i][1]
            /\ monitorPC[i][1] \in {"create", "start", "replace", "exited"}

\* The panic that StopNeverPanics finds has no other cause: Application.Stop panics
\* only if a mismatch was signalled and the restart it led to has put the old node
\* away and not installed a new one.
THEOREM PanicNeedsRestart == Spec => []PanicsInRestart
  <1>1. Inv /\ MissingExplained => PanicsInRestart
    <2> SUFFICES ASSUME Inv, MissingExplained, appPC = "panicked"
                 PROVE  \E i \in Instances :
                          /\ node[i] = NoNode
                          /\ reconnectClosed[i][1]
                          /\ monitorPC[i][1] \in {"create", "start", "replace", "exited"}
      BY DEF PanicsInRestart
    <2>1. PICK i \in Instances : node[i] = NoNode
      BY DEF MissingExplained
    <2>2. reconnectClosed[i][1] /\ monitorPC[i][1] # "none"
      BY <2>1 DEF MissingExplained
    <2>3. monitorPC[i][1] \in {"create", "start", "replace", "exited"}
      BY <2>1, <2>2, Generations DEF Inv, Phase, FirstPhase, RestartPhase, FailedPhase,
         SecondPhase, NoNode
    <2> QED
      BY <2>1, <2>2, <2>3
  <1> QED
    BY <1>1, Invariance, MissingHolds, PTL
=============================================================================
