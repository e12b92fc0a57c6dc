------------------------------ MODULE Cooldown ------------------------------
(***************************************************************************)
(* What a trigger's cooldown promises (caesar/proactive/triggers.py,       *)
(* Trigger.cooldown_seconds), whatever feeds the trigger: after a fire,    *)
(* matching events are suppressed for that many seconds, and only then.    *)
(* One trigger; time is the moment at which events are judged.             *)
(***************************************************************************)
EXTENDS Integers

CONSTANT Seconds      \* the trigger's cooldown; 0 when it has none

VARIABLES
    time,             \* the moment events are judged at
    last,             \* the last fire, Never before the first
    refused           \* matches suppressed so far

cooldownVars == <<time, last, refused>>

Never == -1

InCooldown == last # Never /\ time - last < Seconds

Init == time \in Nat /\ last = Never /\ refused = 0

Pass ==
    /\ time' \in Nat /\ time' >= time
    /\ UNCHANGED <<last, refused>>

Allow ==
    /\ ~InCooldown
    /\ last' = time
    /\ UNCHANGED <<time, refused>>

Refuse ==
    /\ InCooldown
    /\ refused' = refused + 1
    /\ UNCHANGED <<time, last>>

Next == Pass \/ Allow \/ Refuse

Spec == Init /\ [][Next]_cooldownVars
=============================================================================
