----------------------------- MODULE MCHADriver -----------------------------
(***************************************************************************)
(* Instances of HADriver for TLC: a motion trigger with a cooldown, a      *)
(* trigger on another event type with a window across midnight and a zone, *)
(* and a disabled one.                                                     *)
(***************************************************************************)
EXTENDS HADriver

CONSTANT any

Trig(enabled, type, entity, to, window, zone, cooldown) ==
    [enabled |-> enabled, kind |-> "ha", type |-> type, entity |-> entity, to |-> to,
     window |-> window, zone |-> zone, cooldown |-> cooldown]

TwoTriggers ==
    <<Trig(TRUE, "state_changed", "motion", "on", any, 0, 2),
      Trig(FALSE, "state_changed", any, any, any, 0, 0),
      Trig(TRUE, "state_changed", any, any, <<3, 1>>, 1, 0)>>

Ev(type, entity, state) == [type |-> type, entity |-> entity, state |-> state]

HomeEvents ==
    {Ev("state_changed", "motion", "on"), Ev("call_service", any, any)}
=============================================================================
