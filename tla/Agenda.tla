------------------------------- MODULE Agenda -------------------------------
(***************************************************************************)
(* What a list of cron triggers promises (caesar/proactive/scheduler.py):  *)
(* the one with the earliest slot runs once that slot has come, one run at *)
(* a time, and when it ends its next slot is the first one still to come.  *)
(* Slots that come during a trigger's own run are not made up for.         *)
(***************************************************************************)
EXTENDS Integers

CONSTANTS
    Jobs,         \* the triggers
    SlotsOf       \* the slots of each

VARIABLES
    time,
    due,          \* the slot each trigger runs for next
    running       \* the trigger that runs, if any, as a set

agendaVars == <<time, due, running>>

FirstAfter(slot, j, moment) ==
    /\ slot \in SlotsOf[j] /\ slot > moment
    /\ \A other \in SlotsOf[j] : other > moment => slot <= other

Init ==
    /\ time \in Nat
    /\ due \in [Jobs -> Nat] /\ \A j \in Jobs : FirstAfter(due[j], j, time)
    /\ running = {}

Pass ==
    /\ time' \in Nat /\ time' >= time
    /\ UNCHANGED <<due, running>>

Begin(j) ==
    /\ running = {}
    /\ due[j] <= time /\ \A i \in Jobs : due[j] <= due[i]
    /\ running' = {j}
    /\ UNCHANGED <<time, due>>

End(j) ==
    /\ running = {j}
    /\ running' = {}
    /\ \E slot \in SlotsOf[j] :
          FirstAfter(slot, j, time) /\ due' = [due EXCEPT ![j] = slot]
    /\ UNCHANGED time

Next == Pass \/ \E j \in Jobs : Begin(j) \/ End(j)

Spec == Init /\ [][Next]_agendaVars
=============================================================================
