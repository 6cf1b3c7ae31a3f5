------------------------ MODULE ConnectBeaconsProofs ------------------------
(***************************************************************************)
(* Theorems about ConnectBeacons, for any finite set of nodes.             *)
(***************************************************************************)
EXTENDS ConnectBeacons, FiniteSetTheorems, TLAPS

\* The nodes whose report has not been received.
Unreceived == {n \in Nodes : attempt[n] # "ended"} \cup errChan \cup doneChan

\* A report in a channel is true of its node.
ReportsTrue ==
    /\ \A n \in Nodes : attempt[n] \in {"starting", "failed"} => n \notin connected
    /\ \A n \in Nodes : attempt[n] = "started" => n \in connected
    /\ \A n \in errChan : attempt[n] = "ended" /\ n \notin connected
    /\ \A n \in doneChan : attempt[n] = "ended" /\ n \in connected

\* No connected node is lost between its goroutine and healthyNodes.
ConnectedAccounted ==
    /\ healthyNodes \subseteq connected
    /\ \A n \in connected : attempt[n] = "ended" => n \in doneChan \cup healthyNodes

\* The loop counts the reports it has yet to receive, and stops at the first success.
LoopCounts ==
    /\ remainingNodes = Cardinality(Unreceived)
    /\ result = "none" => healthyNodes = {} /\ background = "none"

Inv == TypeOK /\ ReportsTrue /\ ConnectedAccounted /\ LoopCounts

\* What is yet to be received is a finite set, which loses exactly the node whose
\* report is received.
LEMMA UnreceivedFinite ==
    ASSUME TypeOK
    PROVE  IsFiniteSet(Unreceived) /\ Cardinality(Unreceived) \in Nat
  <1>1. Unreceived \subseteq Nodes
    BY DEF TypeOK, Unreceived
  <1> QED
    BY <1>1, NodesAssumption, FS_Subset, FS_CardinalityType

\* Receiving one report leaves one less to receive.
LEMMA OneLess ==
    ASSUME TypeOK, NEW n \in Unreceived
    PROVE  /\ Cardinality(Unreceived \ {n}) = Cardinality(Unreceived) - 1
           /\ Cardinality(Unreceived \ {n}) \in Nat
  BY UnreceivedFinite, FS_RemoveElement, FS_CardinalityType

\* At first every node is yet to be heard of.
LEMMA InitInv == Init => Inv
  <1> SUFFICES ASSUME Init PROVE Inv
    OBVIOUS
  <1>1. Unreceived = Nodes
    BY DEF Init, Unreceived
  <1>2. Cardinality(Nodes) \in Nat
    BY NodesAssumption, FS_CardinalityType
  <1> QED
    BY <1>1, <1>2 DEF Init, Inv, TypeOK, ReportsTrue, ConnectedAccounted, LoopCounts

\* The reception of a report of n, whichever goroutine receives it.
LEMMA Received ==
    ASSUME Inv, NEW n \in errChan \cup doneChan,
           attempt' = attempt, connected' = connected,
           \/ errChan' = errChan \ {n} /\ doneChan' = doneChan /\ n \in errChan
           \/ errChan' = errChan /\ doneChan' = doneChan \ {n} /\ n \in doneChan
    PROVE  /\ Unreceived' = Unreceived \ {n}
           /\ Cardinality(Unreceived') = remainingNodes - 1
           /\ remainingNodes - 1 \in Nat
           /\ ReportsTrue'
  <1>1. n \in Unreceived /\ attempt[n] = "ended" /\ ~(n \in errChan /\ n \in doneChan)
    BY DEF Inv, ReportsTrue, Unreceived
  <1>2. Unreceived' = Unreceived \ {n}
    BY <1>1 DEF Unreceived
  <1>3. Cardinality(Unreceived') = remainingNodes - 1 /\ remainingNodes - 1 \in Nat
    BY <1>1, <1>2, OneLess DEF Inv, LoopCounts
  <1>4. ReportsTrue'
    BY DEF Inv, ReportsTrue
  <1> QED
    BY <1>2, <1>3, <1>4

\* The goroutines of the nodes and the two loops keep the count.
LEMMA NextInv == Inv /\ [Next]_vars => Inv'
  <1> SUFFICES ASSUME Inv, [Next]_vars PROVE Inv'
    OBVIOUS
  <1>1. ASSUME NEW n \in Nodes, StartReturns(n)
        PROVE  Inv'
    <2>1. Unreceived' = Unreceived
      BY <1>1 DEF StartReturns, Unreceived, Inv, TypeOK
    <2>2. TypeOK' /\ LoopCounts'
      BY <1>1, <2>1 DEF StartReturns, Inv, TypeOK, LoopCounts, loopVars, envVars
    <2>3. ReportsTrue' /\ ConnectedAccounted'
      BY <1>1 DEF StartReturns, Inv, TypeOK, ReportsTrue, ConnectedAccounted, loopVars
    <2> QED
      BY <2>2, <2>3 DEF Inv
  <1>2. ASSUME NEW n \in Nodes, Report(n)
        PROVE  Inv'
    <2>1. Unreceived' = Unreceived
      BY <1>2 DEF Report, Unreceived, Inv, TypeOK
    <2>2. TypeOK' /\ LoopCounts'
      BY <1>2, <2>1 DEF Report, Inv, TypeOK, LoopCounts, loopVars, envVars
    <2>3. ReportsTrue' /\ ConnectedAccounted'
      BY <1>2 DEF Report, Inv, TypeOK, ReportsTrue, ConnectedAccounted, loopVars
    <2> QED
      BY <2>2, <2>3 DEF Inv
  <1>3. ASSUME CancelContext \/ TimerFires \/ UNCHANGED vars
        PROVE  Inv'
    <2>1. Unreceived' = Unreceived
      BY <1>3 DEF CancelContext, TimerFires, Unreceived, vars, attemptVars
    <2> QED
      BY <1>3, <2>1 DEF CancelContext, TimerFires, vars, envVars, attemptVars, loopVars,
                        Inv, TypeOK, ReportsTrue, ConnectedAccounted, LoopCounts
  <1>4. ASSUME NEW n \in Nodes, ReceiveError(n) \/ BackgroundError(n)
        PROVE  Inv'
    <2>1. /\ n \in errChan /\ errChan' = errChan \ {n} /\ doneChan' = doneChan
          /\ attempt' = attempt /\ connected' = connected
          /\ remainingNodes' = remainingNodes - 1 /\ healthyNodes' = healthyNodes
      BY <1>4 DEF ReceiveError, BackgroundError, attemptVars
    <2>2. Cardinality(Unreceived') = remainingNodes' /\ remainingNodes' \in Nat /\ ReportsTrue'
      BY <2>1, Received
    <2>3. /\ TypeOK'
          /\ result' = "none" => healthyNodes' = {} /\ background' = "none"
      BY <1>4, <2>1, <2>2 DEF ReceiveError, BackgroundError, Waiting, AfterError, Inv, TypeOK,
                              LoopCounts, envVars
    <2>4. ConnectedAccounted'
      BY <2>1 DEF Inv, ConnectedAccounted
    <2> QED
      BY <2>2, <2>3, <2>4 DEF Inv, LoopCounts
  <1>5. ASSUME NEW n \in Nodes, ReceiveDone(n) \/ BackgroundDone(n)
        PROVE  Inv'
    <2>1. /\ n \in doneChan /\ doneChan' = doneChan \ {n} /\ errChan' = errChan
          /\ attempt' = attempt /\ connected' = connected
          /\ remainingNodes' = remainingNodes - 1 /\ healthyNodes' = healthyNodes \cup {n}
      BY <1>5 DEF ReceiveDone, BackgroundDone, attemptVars
    <2>2. Cardinality(Unreceived') = remainingNodes' /\ remainingNodes' \in Nat /\ ReportsTrue'
      BY <2>1, Received
    <2>3. result' # "none"
      <3>1. CASE BackgroundDone(n)
        BY <3>1 DEF BackgroundDone, Inv, LoopCounts
      <3>2. CASE ReceiveDone(n)
        <4>1. healthyNodes' = {n}
          BY <2>1, <3>2 DEF ReceiveDone, Waiting, Inv, LoopCounts
        <4>2. Cardinality(healthyNodes') = 1
          BY <4>1, FS_Singleton
        <4> QED
          BY <3>2, <4>2 DEF ReceiveDone
      <3> QED
        BY <1>5, <3>1, <3>2
    <2>4. TypeOK'
      BY <1>5, <2>1, <2>2 DEF ReceiveDone, BackgroundDone, Inv, TypeOK, envVars
    <2>5. ConnectedAccounted'
      BY <2>1 DEF Inv, ConnectedAccounted, ReportsTrue
    <2> QED
      BY <2>2, <2>3, <2>4, <2>5 DEF Inv, LoopCounts
  <1>6. ASSUME ReceiveCancel \/ ReceiveTimeout \/ BackgroundEnds
        PROVE  Inv'
    <2>1. Unreceived' = Unreceived
      BY <1>6 DEF ReceiveCancel, ReceiveTimeout, BackgroundEnds, Unreceived, attemptVars
    <2>2. result' # "none"
      BY <1>6 DEF ReceiveCancel, ReceiveTimeout, TimeoutResult, BackgroundEnds, Inv, LoopCounts
    <2>3. TypeOK'
      BY <1>6 DEF ReceiveCancel, ReceiveTimeout, TimeoutResult, BackgroundEnds, Inv, TypeOK,
                  envVars, attemptVars
    <2>4. ReportsTrue' /\ ConnectedAccounted'
      BY <1>6 DEF ReceiveCancel, ReceiveTimeout, BackgroundEnds, Inv, ReportsTrue,
                  ConnectedAccounted, attemptVars
    <2>5. remainingNodes' = remainingNodes
      BY <1>6 DEF ReceiveCancel, ReceiveTimeout, BackgroundEnds
    <2> QED
      BY <2>1, <2>2, <2>3, <2>4, <2>5 DEF Inv, LoopCounts
  <1> QED
    BY <1>1, <1>2, <1>3, <1>4, <1>5, <1>6 DEF Next, Select, Background

\* The count is right in every state of every run.
LEMMA InvHolds == Spec => []Inv
  BY InitInv, NextInv, PTL DEF Spec

\* connectBeacons and its goroutines keep their types; above all, the count of
\* reports to receive never falls below zero, whoever receives them.
THEOREM TypeCorrect == Spec => []TypeOK
  <1>1. Inv => TypeOK
    BY DEF Inv
  <1> QED
    BY <1>1, InvHolds, PTL

-----------------------------------------------------------------------------
(* The refinement.                                                         *)

\* connectBeacons answers once, and what it answers is true of the attempts.
LEMMA AnswersTrue ==
    ASSUME Inv, Inv', [Next]_vars, result' # result
    PROVE  /\ result = "none"
           /\ AttemptOf' = AttemptOf
           /\ result' \in Promised!TrueAnswers
  <1>1. ASSUME NEW n \in Nodes, ReceiveError(n)
        PROVE  result = "none" /\ AttemptOf' = AttemptOf /\ result' \in Promised!TrueAnswers
    <2>1. result = "none" /\ AttemptOf' = AttemptOf
      BY <1>1 DEF ReceiveError, Waiting, AttemptOf, attemptVars
    <2>2. healthyNodes = {} /\ remainingNodes - 1 = 0 /\ result' = "allFailed"
      BY <1>1 DEF ReceiveError, Waiting, AfterError, Inv, TypeOK, LoopCounts
    <2>3. Unreceived' = {}
      <3>1. IsFiniteSet(Unreceived')
        BY UnreceivedFinite, <1>1, NodesAssumption, FS_Subset DEF Inv, TypeOK, Unreceived
      <3>2. Cardinality(Unreceived') = 0
        BY <1>1, <2>2 DEF ReceiveError, Inv, LoopCounts
      <3> QED
        BY <3>1, <3>2, FS_EmptySet
    <2>4. \A m \in Nodes : m \notin connected /\ attempt[m] # "starting"
      BY <1>1, <2>2, <2>3 DEF ReceiveError, attemptVars, Unreceived, Inv, ConnectedAccounted
    <2>5. \A m \in Nodes : AttemptOf[m] = "failed"
      BY <2>4 DEF AttemptOf
    <2> QED
      BY <2>1, <2>2, <2>5 DEF Promised!TrueAnswers
  <1>2. ASSUME NEW n \in Nodes, ReceiveDone(n)
        PROVE  result = "none" /\ AttemptOf' = AttemptOf /\ result' \in Promised!TrueAnswers
    <2>1. result = "none" /\ AttemptOf' = AttemptOf /\ result' = "ok"
      BY <1>2 DEF ReceiveDone, Waiting, AttemptOf, attemptVars
    <2>2. AttemptOf[n] = "up"
      BY <1>2 DEF ReceiveDone, Inv, ReportsTrue, AttemptOf
    <2> QED
      BY <2>1, <2>2 DEF Promised!TrueAnswers
  <1>3. ASSUME ReceiveCancel \/ ReceiveTimeout
        PROVE  result = "none" /\ AttemptOf' = AttemptOf /\ result' \in Promised!TrueAnswers
    <2>1. result = "none" /\ AttemptOf' = AttemptOf
      BY <1>3 DEF ReceiveCancel, ReceiveTimeout, Waiting, AttemptOf, attemptVars
    <2>2. result' \in {"cancelled", "timeout"}
      BY <1>3, <2>1 DEF ReceiveCancel, ReceiveTimeout, TimeoutResult, Inv, LoopCounts
    <2> QED
      BY <2>1, <2>2 DEF Promised!TrueAnswers
  <1> QED
    BY <1>1, <1>2, <1>3 DEF Next, Select, Background, StartReturns, Report, CancelContext, TimerFires,
       BackgroundError, BackgroundDone, BackgroundEnds, vars, loopVars

\* Any other step ends one attempt of the abstract specification, or none.
LEMMA AttemptsOnce ==
    ASSUME Inv, [Next]_vars, result' = result
    PROVE  (\E n \in Nodes : Promised!Attempt(n)) \/ AttemptOf' = AttemptOf
  <1>1. ASSUME NEW n \in Nodes, StartReturns(n)
        PROVE  Promised!Attempt(n)
    <2>1. n \notin connected /\ AttemptOf[n] = "trying"
      BY <1>1 DEF StartReturns, Inv, ReportsTrue, AttemptOf
    <2>2. PICK outcome \in {"up", "failed"} : AttemptOf' = [AttemptOf EXCEPT ![n] = outcome]
      <3>1. CASE connected' = connected \cup {n} /\ attempt' = [attempt EXCEPT ![n] = "started"]
        BY <1>1, <2>1, <3>1 DEF AttemptOf, Inv, TypeOK
      <3>2. CASE connected' = connected /\ attempt' = [attempt EXCEPT ![n] = "failed"]
        BY <1>1, <2>1, <3>2 DEF AttemptOf, Inv, TypeOK
      <3> QED
        BY <1>1, <3>1, <3>2 DEF StartReturns
    <2> QED
      BY <2>1, <2>2 DEF Promised!Attempt
  <1>2. ASSUME NEW n \in Nodes, Report(n)
        PROVE  AttemptOf' = AttemptOf
    BY <1>2 DEF Report, AttemptOf, Inv, TypeOK
  <1> QED
    BY <1>1, <1>2 DEF Next, Select, Background, CancelContext, TimerFires, ReceiveError, ReceiveDone,
       ReceiveCancel, ReceiveTimeout, BackgroundError, BackgroundDone, BackgroundEnds, vars,
       attemptVars, AttemptOf

\* What connectBeacons returns is given once and is true of the attempts, for any
\* number of nodes: in particular ErrAllBeaconsFailed is never returned while an
\* attempt is under way or a success waits in doneChan.
THEOREM ConnectingRefinement == Spec => ImplementsConnecting
  <1>1. Init => Promised!Init
    BY DEF Init, Promised!Init, AttemptOf
  <1>2. Inv /\ Inv' /\ [Next]_vars => [Promised!Next]_<<AttemptOf, result>>
    <2> SUFFICES ASSUME Inv, Inv', [Next]_vars PROVE [Promised!Next]_<<AttemptOf, result>>
      OBVIOUS
    <2>1. CASE result' = result
      BY <2>1, AttemptsOnce DEF Promised!Next
    <2>2. CASE result' # result
      BY <2>2, AnswersTrue DEF Promised!Next, Promised!Answer
    <2> QED
      BY <2>1, <2>2
  <1> QED
    BY <1>1, <1>2, InvHolds, PTL DEF Spec, ImplementsConnecting, Promised!Spec
-----------------------------------------------------------------------------
(* What waiting rests on.  That the goroutines end is a liveness property, but *)
(* that none of them waits for something that cannot come any more is safety.  *)

\* The loop waits only while reports are to come, and the background goroutine
\* leaves none behind unless the context is done.
WaitsForReports ==
    /\ result = "none" => remainingNodes > 0
    /\ background = "ended" => ctxDone \/ remainingNodes = 0
    /\ background # "none" => result # "none"

\* It waits at first only if there is a node to wait for.
LEMMA InitWaits == Init => WaitsForReports
  <1> SUFFICES ASSUME Init, Nodes # {} PROVE remainingNodes > 0
    BY DEF Init, WaitsForReports
  <1>1. Cardinality(Nodes) \in Nat /\ Cardinality(Nodes) # 0
    BY NodesAssumption, FS_CardinalityType, FS_EmptySet
  <1> QED
    BY <1>1 DEF Init

\* The last report ends the wait.
LEMMA NextWaits == Inv /\ WaitsForReports /\ [Next]_vars => WaitsForReports'
  <1> SUFFICES ASSUME Inv, WaitsForReports, [Next]_vars PROVE WaitsForReports'
    OBVIOUS
  <1>1. ASSUME NEW n \in Nodes, ReceiveError(n)
        PROVE  WaitsForReports'
    BY <1>1 DEF ReceiveError, Waiting, AfterError, Inv, TypeOK, LoopCounts, WaitsForReports
  <1>2. ASSUME NEW n \in Nodes, ReceiveDone(n)
        PROVE  WaitsForReports'
    <2>1. healthyNodes' = {n} /\ background = "none"
      BY <1>2 DEF ReceiveDone, Waiting, Inv, LoopCounts
    <2>2. Cardinality(healthyNodes') = 1
      BY <2>1, FS_Singleton
    <2> QED
      BY <1>2, <2>1, <2>2 DEF ReceiveDone, WaitsForReports
  <1>3. ASSUME ReceiveCancel \/ ReceiveTimeout
        PROVE  WaitsForReports'
    BY <1>3 DEF ReceiveCancel, ReceiveTimeout, TimeoutResult, Waiting, Inv, LoopCounts,
                WaitsForReports
  <1>4. ASSUME NEW n \in Nodes, BackgroundError(n) \/ BackgroundDone(n)
        PROVE  WaitsForReports'
    BY <1>4 DEF BackgroundError, BackgroundDone, WaitsForReports
  <1>5. CASE BackgroundEnds
    BY <1>5 DEF BackgroundEnds, envVars, WaitsForReports
  <1>6. ASSUME \/ \E n \in Nodes : StartReturns(n) \/ Report(n)
               \/ CancelContext
               \/ TimerFires
               \/ UNCHANGED vars
        PROVE  WaitsForReports'
    BY <1>6 DEF StartReturns, Report, CancelContext, TimerFires, vars, envVars, loopVars,
                WaitsForReports
  <1> QED
    BY <1>1, <1>2, <1>3, <1>4, <1>5, <1>6 DEF Next, Select, Background

\* Neither loop waits for a report that has been received.
LEMMA WaitsHolds == Spec => []WaitsForReports
  BY InitWaits, InvHolds, NextWaits, PTL DEF Spec

\* A goroutine whose Start has returned always finds room in the channel it reports
\* to, however many reports nobody receives any more.
RoomForReports ==
    \A n \in Nodes :
        /\ attempt[n] = "failed" => Cardinality(errChan) < Capacity
        /\ attempt[n] = "started" => Cardinality(doneChan) < Capacity

\* A channel that lacks the report of one node is not full.
LEMMA RoomLeft ==
    ASSUME NEW S \in SUBSET Nodes, NEW n \in Nodes \ S
    PROVE  Cardinality(S) < Capacity
  <1>1. S \subseteq Nodes \ {n}
    OBVIOUS
  <1>2. IsFiniteSet(Nodes \ {n}) /\ Cardinality(Nodes \ {n}) = Cardinality(Nodes) - 1
    BY NodesAssumption, FS_RemoveElement
  <1>3. Cardinality(S) <= Cardinality(Nodes \ {n})
    BY <1>1, <1>2, FS_Subset
  <1>4. Cardinality(S) \in Nat /\ Cardinality(Nodes) \in Nat
    BY NodesAssumption, FS_Subset, FS_CardinalityType
  <1> QED
    BY <1>2, <1>3, <1>4 DEF Capacity

\* The channels that connectBeacons makes are large enough for any number of nodes:
\* no goroutine blocks on its report.  This is what ReportersEnd rests on.
THEOREM ReportersNeverBlock == Spec => []RoomForReports
  <1>1. Inv => RoomForReports
    <2> SUFFICES ASSUME Inv, NEW n \in Nodes
                 PROVE  /\ attempt[n] = "failed" => Cardinality(errChan) < Capacity
                        /\ attempt[n] = "started" => Cardinality(doneChan) < Capacity
      BY DEF RoomForReports
    <2>1. errChan \in SUBSET Nodes /\ doneChan \in SUBSET Nodes
      BY DEF Inv, TypeOK
    <2>2. attempt[n] \in {"failed", "started"} => n \notin errChan /\ n \notin doneChan
      BY DEF Inv, ReportsTrue
    <2> QED
      BY <2>1, <2>2, RoomLeft
  <1> QED
    BY <1>1, InvHolds, PTL

\* While connectBeacons waits, the report of some node is in a channel or to come;
\* so it does while the background goroutine counts reports to receive; and unless the
\* context is done the background goroutine ends with every report received.  This is
\* what ConnectReturns and BackgroundReceivesAll rest on.
NeverWaitsInVain ==
    /\ result = "none" => Unreceived # {}
    /\ background = "running" /\ remainingNodes > 0 => Unreceived # {}
    /\ background = "ended" => ctxDone \/ Unreceived = {}

\* Neither loop of connectBeacons waits for a report that cannot come, nor leaves one
\* behind: its count of reports is the number of those not received, in every state.
THEOREM WaitsEnd == Spec => []NeverWaitsInVain
  <1>1. Inv /\ WaitsForReports => NeverWaitsInVain
    <2> SUFFICES ASSUME Inv, WaitsForReports PROVE NeverWaitsInVain
      OBVIOUS
    <2>1. remainingNodes = Cardinality(Unreceived) /\ IsFiniteSet(Unreceived)
      BY UnreceivedFinite DEF Inv, LoopCounts
    <2>2. remainingNodes = 0 <=> Unreceived = {}
      BY <2>1, FS_EmptySet
    <2> QED
      BY <2>2 DEF WaitsForReports, NeverWaitsInVain
  <1> QED
    BY <1>1, InvHolds, WaitsHolds, PTL
=============================================================================
