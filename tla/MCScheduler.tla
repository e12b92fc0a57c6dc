---------------------------- MODULE MCScheduler ----------------------------
(***************************************************************************)
(* Instances of Scheduler for TLC: a trigger with a slot at every moment   *)
(* and a long cap, a sparser one, a disabled one and one of another kind.  *)
(***************************************************************************)
EXTENDS Scheduler

Trig(enabled, kind, cron, cap) ==
    [enabled |-> enabled, kind |-> kind, cron |-> cron, cap |-> cap]

Late == MaxTime + 1

FourTriggers ==
    <<Trig(TRUE, "schedule", 0 .. Late, 2),
      Trig(FALSE, "schedule", {Late}, 1),
      Trig(TRUE, "schedule", {1, 3, Late}, 1),
      Trig(TRUE, "webhook", {}, 1)>>
=============================================================================
