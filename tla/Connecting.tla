----------------------------- MODULE Connecting -----------------------------
(***************************************************************************)
(* What Application.Start may rely on when it calls connectBeacons: every    *)
(* node connects or fails to at some time or never, and there is one answer, *)
(* which is true of the attempts at the moment it is given, whatever the     *)
(* attempts that are still under way come to.  ConnectBeacons implements it. *)
(***************************************************************************)
EXTENDS Naturals

CONSTANT Nodes      \* beacon nodes of the configuration

VARIABLES
    attemptOf,      \* what has come of the attempt on each node
    answer          \* what connectBeacons returned

Attempts == [Nodes -> {"trying", "up", "failed"}]

Init ==
    /\ attemptOf = [n \in Nodes |-> "trying"]
    /\ answer = IF Nodes = {} THEN "noNodes" ELSE "none"

Attempt(n) ==
    /\ attemptOf[n] = "trying"
    /\ \E outcome \in {"up", "failed"} : attemptOf' = [attemptOf EXCEPT ![n] = outcome]
    /\ UNCHANGED answer

\* "It ensures at least one beacon connects successfully before returning",
\* ErrAllBeaconsFailed is for when every attempt has failed, and the caller need
\* not wait for attempts that never end.
TrueAnswers ==
    {"timeout", "cancelled"}
        \cup {a \in {"ok"} : \E n \in Nodes : attemptOf[n] = "up"}
        \cup {a \in {"allFailed"} : \A n \in Nodes : attemptOf[n] = "failed"}

Answer ==
    /\ answer = "none"
    /\ answer' \in TrueAnswers
    /\ UNCHANGED attemptOf

Next == (\E n \in Nodes : Attempt(n)) \/ Answer

Spec == Init /\ [][Next]_<<attemptOf, answer>>
=============================================================================
