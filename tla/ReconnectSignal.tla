-------------------------- MODULE ReconnectSignal --------------------------
(***************************************************************************)
(* What the application may rely on when it waits on                       *)
(* TopicManager.NeedsReconnection(): a signal that fires at most once until *)
(* it is rearmed, and never twice within the cooldown period, however often *)
(* it is rearmed.  TopicManager implements it.                             *)
(***************************************************************************)
EXTENDS Naturals

CONSTANT CooldownPeriod   \* a natural number

VARIABLES
    fired,   \* the channel given to the waiter is closed
    quiet    \* time since the last signal, up to CooldownPeriod

Init == fired = FALSE /\ quiet = CooldownPeriod

Fire == ~fired /\ quiet = CooldownPeriod /\ fired' = TRUE /\ quiet' = 0

Rearm == fired /\ fired' = FALSE /\ UNCHANGED quiet

Tick == quiet < CooldownPeriod /\ quiet' = quiet + 1 /\ UNCHANGED fired

Next == Fire \/ Rearm \/ Tick

Spec == Init /\ [][Next]_<<fired, quiet>>
=============================================================================
