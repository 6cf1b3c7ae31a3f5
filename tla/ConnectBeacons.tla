---------------------------- MODULE ConnectBeacons ----------------------------
(***************************************************************************)
(* connectBeacons and connectRemainingBeaconNodesInBackground of            *)
(* pkg/application/lifecycle.go: every beacon node is started in a goroutine *)
(* of its own, which reports to errChan or doneChan; the caller returns as   *)
(* soon as one node is connected and leaves the rest of the reports to a     *)
(* background goroutine.                                                    *)
(*                                                                         *)
(* Data abstraction: a report is the node it is about and the channels are   *)
(* the sets of their reports, as the order of the reports tells nothing      *)
(* apart.  Whether and when Start of a node returns is external: it may      *)
(* block for ever.                                                          *)
(***************************************************************************)
EXTENDS Integers, FiniteSets

CONSTANT Nodes      \* beacon nodes of the configuration

ASSUME NodesAssumption == IsFiniteSet(Nodes)

VARIABLES
    ctxDone,        \* the context is done
    timerFired,     \* the 60 second timer has fired
    attempt,        \* where the goroutine of each node is
    connected,      \* nodes whose Start returned nil
    errChan,        \* reports of failures not yet received
    doneChan,       \* reports of successes not yet received
    remainingNodes, \* reports not yet received
    healthyNodes,   \* nodes reported as connected
    result,         \* what connectBeacons returned
    background      \* the background goroutine

envVars == <<ctxDone, timerFired>>
attemptVars == <<attempt, connected>>
loopVars == <<remainingNodes, healthyNodes, result, background>>
vars == <<envVars, attemptVars, errChan, doneChan, loopVars>>

TypeOK ==
    /\ ctxDone \in BOOLEAN
    /\ timerFired \in BOOLEAN
    /\ attempt \in [Nodes -> {"starting", "failed", "started", "ended"}]
    /\ connected \in SUBSET Nodes
    /\ errChan \in SUBSET Nodes
    /\ doneChan \in SUBSET Nodes
    /\ remainingNodes \in Nat
    /\ healthyNodes \in SUBSET Nodes
    /\ result \in {"none", "ok", "noNodes", "allFailed", "timeout", "cancelled"}
    /\ background \in {"none", "running", "ended"}

Init ==
    /\ ctxDone = FALSE
    /\ timerFired = FALSE
    /\ attempt = [n \in Nodes |-> "starting"]
    /\ connected = {}
    /\ errChan = {}
    /\ doneChan = {}
    /\ remainingNodes = Cardinality(Nodes)
    /\ healthyNodes = {}
    /\ result = IF Nodes = {} THEN "noNodes" ELSE "none"
    /\ background = "none"

-----------------------------------------------------------------------------
(* The goroutine of a node.                                                *)

StartReturns(n) ==
    /\ attempt[n] = "starting"
    /\ \/ /\ attempt' = [attempt EXCEPT ![n] = "started"]
          /\ connected' = connected \cup {n}
       \/ /\ attempt' = [attempt EXCEPT ![n] = "failed"]
          /\ UNCHANGED connected
    /\ UNCHANGED <<envVars, errChan, doneChan, loopVars>>

\* Mutant: the channels hold one report.
Capacity_One == 1

\* The channels are made with room for every node.
Capacity == Cardinality(Nodes)

Report(n) ==
    /\ \/ /\ attempt[n] = "failed"
          /\ Cardinality(errChan) < Capacity
          /\ errChan' = errChan \cup {n}
          /\ UNCHANGED doneChan
       \/ /\ attempt[n] = "started"
          /\ Cardinality(doneChan) < Capacity
          /\ doneChan' = doneChan \cup {n}
          /\ UNCHANGED errChan
    /\ attempt' = [attempt EXCEPT ![n] = "ended"]
    /\ UNCHANGED <<envVars, connected, loopVars>>

CancelContext ==
    /\ ~ctxDone
    /\ ctxDone' = TRUE
    /\ UNCHANGED <<timerFired, attemptVars, errChan, doneChan, loopVars>>

TimerFires ==
    /\ ~timerFired
    /\ timerFired' = TRUE
    /\ UNCHANGED <<ctxDone, attemptVars, errChan, doneChan, loopVars>>

-----------------------------------------------------------------------------
(* The select of connectBeacons: one iteration takes any case that is ready. *)

Waiting == result = "none"

\* The loop goes on, or ends with its last report.
AfterError(left) ==
    IF left > 0 THEN "none" ELSE IF healthyNodes = {} THEN "allFailed" ELSE "ok"

ReceiveError(n) ==
    /\ Waiting
    /\ n \in errChan
    /\ errChan' = errChan \ {n}
    /\ remainingNodes' = remainingNodes - 1
    /\ result' = AfterError(remainingNodes - 1)
    /\ UNCHANGED <<envVars, attemptVars, doneChan, healthyNodes, background>>

\* The first node connected ends the wait.
ReceiveDone(n) ==
    /\ Waiting
    /\ n \in doneChan
    /\ doneChan' = doneChan \ {n}
    /\ healthyNodes' = healthyNodes \cup {n}
    /\ remainingNodes' = remainingNodes - 1
    /\ IF remainingNodes' = 0
       THEN result' = "ok" /\ UNCHANGED background
       ELSE IF Cardinality(healthyNodes') = 1
            THEN result' = "ok" /\ background' = "running"
            ELSE UNCHANGED <<result, background>>
    /\ UNCHANGED <<envVars, attemptVars, errChan>>

ReceiveCancel ==
    /\ Waiting
    /\ ctxDone
    /\ result' = "cancelled"
    /\ UNCHANGED <<envVars, attemptVars, errChan, doneChan, remainingNodes,
                   healthyNodes, background>>

\* Mutant: a timeout always goes on in the background.
TimeoutResult_AlwaysBackground == "ok"

TimeoutResult == IF healthyNodes = {} THEN "timeout" ELSE "ok"

\* Mutant: the timer is never waited for.
ReceiveTimeout_Never == FALSE /\ UNCHANGED vars

ReceiveTimeout ==
    /\ Waiting
    /\ timerFired
    /\ result' = TimeoutResult
    /\ background' = IF TimeoutResult = "ok" THEN "running" ELSE background
    /\ UNCHANGED <<envVars, attemptVars, errChan, doneChan, remainingNodes, healthyNodes>>

-----------------------------------------------------------------------------
(* The background goroutine.                                               *)

\* Mutant: a failure is counted twice.
BackgroundError_Twice(n) ==
    /\ background = "running"
    /\ remainingNodes > 0
    /\ n \in errChan
    /\ errChan' = errChan \ {n}
    /\ remainingNodes' = remainingNodes - 2
    /\ UNCHANGED <<envVars, attemptVars, doneChan, healthyNodes, result, background>>

\* Mutant: failures are not counted.
BackgroundError_NotCounted(n) ==
    /\ background = "running"
    /\ remainingNodes > 0
    /\ n \in errChan
    /\ errChan' = errChan \ {n}
    /\ UNCHANGED <<envVars, attemptVars, doneChan, remainingNodes, healthyNodes, result, background>>

BackgroundError(n) ==
    /\ background = "running"
    /\ remainingNodes > 0
    /\ n \in errChan
    /\ errChan' = errChan \ {n}
    /\ remainingNodes' = remainingNodes - 1
    /\ UNCHANGED <<envVars, attemptVars, doneChan, healthyNodes, result, background>>

BackgroundDone(n) ==
    /\ background = "running"
    /\ remainingNodes > 0
    /\ n \in doneChan
    /\ doneChan' = doneChan \ {n}
    /\ healthyNodes' = healthyNodes \cup {n}
    /\ remainingNodes' = remainingNodes - 1
    /\ UNCHANGED <<envVars, attemptVars, errChan, result, background>>

BackgroundEnds ==
    /\ background = "running"
    /\ remainingNodes = 0 \/ ctxDone
    /\ background' = "ended"
    /\ UNCHANGED <<envVars, attemptVars, errChan, doneChan, remainingNodes, healthyNodes, result>>

-----------------------------------------------------------------------------
Select ==
    \/ \E n \in Nodes : ReceiveError(n) \/ ReceiveDone(n)
    \/ ReceiveCancel
    \/ ReceiveTimeout

Background ==
    \/ \E n \in Nodes : BackgroundError(n) \/ BackgroundDone(n)
    \/ BackgroundEnds

Next ==
    \/ \E n \in Nodes : StartReturns(n) \/ Report(n)
    \/ CancelContext
    \/ TimerFires
    \/ Select
    \/ Background

Spec == Init /\ [][Next]_vars

\* Goroutines run, and the timer fires.  Nothing makes Start of a node return.
Fairness ==
    /\ WF_vars(TimerFires)
    /\ WF_vars(Select)
    /\ WF_vars(Background)
    /\ \A n \in Nodes : WF_vars(Report(n))

FairSpec == Spec /\ Fairness

-----------------------------------------------------------------------------
(* Properties.                                                             *)

\* What has come of each attempt, whether or not it is reported yet.
AttemptOf ==
    [n \in Nodes |-> IF n \in connected THEN "up"
                     ELSE IF attempt[n] = "starting" THEN "trying" ELSE "failed"]

\* The answer of connectBeacons is given once and is true of the attempts, as
\* Connecting says: nil with a node connected, ErrAllBeaconsFailed with every
\* attempt failed, though reports wait in the channels when the select answers.
Promised == INSTANCE Connecting WITH attemptOf <- AttemptOf, answer <- result

ImplementsConnecting == Promised!Spec

\* connectBeacons returns, though Start of some nodes may never do.
ConnectReturns == <>(result # "none")

\* A goroutine whose Start has returned ends, although after a timeout or a
\* cancellation nobody receives its report.
ReportersEnd ==
    \A n \in Nodes : attempt[n] \in {"failed", "started"} ~> attempt[n] = "ended"

\* When every Start has returned, the background goroutine ends, having received
\* every report.
BackgroundReceivesAll ==
    (background = "running" /\ \A n \in Nodes : attempt[n] # "starting")
        ~> background = "ended" /\ (ctxDone \/ errChan \cup doneChan = {})
=============================================================================
