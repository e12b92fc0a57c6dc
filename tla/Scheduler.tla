----------------------------- MODULE Scheduler -----------------------------
(***************************************************************************)
(* The scheduler of cron triggers (caesar/proactive/scheduler.py): one     *)
(* task that fires whatever is due, earliest first, one run at a time,     *)
(* and sleeps until the next slot or until stop() wakes it.                *)
(*                                                                         *)
(* Code between two awaits is one step, except where it reads the clock    *)
(* twice.  The clock only moves forward.  A brain run may raise anything,  *)
(* a TimeoutError of its own included (a worker that never answers).       *)
(***************************************************************************)
EXTENDS Naturals, Sequences, FiniteSets

CONSTANTS
    Triggers,      \* the trigger list; a cron expression is the set of its slots
    MaxSleep,      \* _MAX_SLEEP_SECONDS
    MaxTime,       \* bound: the last moment
    MaxFailures    \* bound: audit writes that fail

Idxs == DOMAIN Triggers
Moments == 0 .. MaxTime
Trigger == [enabled : BOOLEAN, kind : {"schedule", "ha_event", "webhook"},
            cron : SUBSET Nat, cap : Nat \ {0}]

ASSUME SchedulerAssumption ==
    /\ MaxSleep \in Nat \ {0} /\ MaxTime \in Nat /\ MaxFailures \in Nat
    /\ Triggers \in Seq(Trigger)
    /\ \A k \in Idxs : Triggers[k].kind = "schedule" =>
          \A after \in Moments : \E slot \in Triggers[k].cron : slot > after

VARIABLES
    phase,       \* new, announcing, running, stopping, stopped or failed (it raised)
    clock,       \* time_provider()
    failures,    \* audit writes that failed
    at,          \* where the task is
    next,        \* next_fire of each armed trigger
    cur,         \* the trigger announced or fired at present
    runFrom,     \* when its run under asyncio.timeout began
    outcome,     \* the row its run ends with
    wake,        \* when the sleep times out
    rows         \* the trigger rows, in order

runVars == <<cur, runFrom, outcome>>
vars == <<phase, clock, failures, at, next, wake, rows, runVars>>

Armed == {k \in Idxs : Triggers[k].enabled /\ Triggers[k].kind = "schedule"}

NextFire(k, after) ==
    CHOOSE slot \in Triggers[k].cron :
        slot > after /\ \A other \in Triggers[k].cron : other > after => slot <= other

Init ==
    /\ phase = "new" /\ clock = 0 /\ failures = 0
    /\ at = "off"
    /\ next = [k \in Armed |-> NextFire(k, clock)]
    /\ cur = 1 /\ runFrom = 0 /\ outcome = "none" /\ wake = 0
    /\ rows = <<>>

Goto(where) ==
    /\ at' = where
    /\ UNCHANGED <<phase, clock, failures, next, wake, rows, runVars>>

Record(event) ==
    rows' = Append(rows, [event |-> event, trig |-> cur, slot |-> next[cur], moment |-> clock])

AuditFails == failures < MaxFailures /\ failures' = failures + 1

-----------------------------------------------------------------------------
(***************************************************************************)
(* start(): one trigger.scheduled row per armed trigger, then the task.    *)
(* A failing row ends the start of Praetor.                                *)
(***************************************************************************)
Start ==
    /\ phase = "new"
    /\ phase' = "announcing"
    /\ UNCHANGED <<clock, failures, at, next, wake, rows, runVars>>

Announce ==
    /\ phase = "announcing" /\ cur \in Idxs
    /\ IF cur \in Armed THEN Record("scheduled") ELSE UNCHANGED rows
    /\ cur' = cur + 1
    /\ UNCHANGED <<phase, clock, failures, at, next, wake, runFrom, outcome>>

AnnounceFails ==
    /\ phase = "announcing" /\ cur \in Armed
    /\ AuditFails
    /\ phase' = "failed"
    /\ UNCHANGED <<clock, at, next, wake, rows, runVars>>

Started ==
    /\ phase = "announcing" /\ cur \notin Idxs
    /\ phase' = "running" /\ at' = "top"
    /\ UNCHANGED <<clock, failures, next, wake, rows, runVars>>

-----------------------------------------------------------------------------
(***************************************************************************)
(* _run() and tick().  The stop event is read at the top of the loop and   *)
(* in the sleep only: a tick goes on for as long as anything is due.       *)
(***************************************************************************)
Stopping == phase = "stopping"

Leave == at = "top" /\ (Stopping \/ Armed = {}) /\ Goto("ended")

BeginTick == at = "top" /\ ~Stopping /\ Armed # {} /\ Goto("tick")

FirstDue ==                               \* slip: the first in list order that is due
    CHOOSE k \in Armed : \A j \in Armed :
        (next[k] <= clock \/ next[j] > clock) /\ (next[j] <= clock => k <= j)
Earliest ==
    CHOOSE k \in Armed : \A j \in Armed :
        next[k] < next[j] \/ (next[k] = next[j] /\ k <= j)

FireDue ==
    /\ at = "tick" /\ next[Earliest] <= clock
    /\ at' = "fired" /\ cur' = Earliest
    /\ UNCHANGED <<phase, clock, failures, next, wake, rows, runFrom, outcome>>

TickDone == at = "tick" /\ next[Earliest] > clock /\ Goto("idle")

\* The second look at the clock: a slot came due meanwhile.
YieldOnce == at = "idle" /\ next[Earliest] <= clock /\ Goto("top")

Sleep ==
    /\ at = "idle" /\ next[Earliest] > clock
    /\ at' = "sleep"
    /\ wake' \in {next[Earliest], clock + MaxSleep}
    /\ wake' <= next[Earliest] /\ wake' <= clock + MaxSleep
    /\ UNCHANGED <<phase, clock, failures, next, rows, runVars>>

SleepOver == at = "sleep" /\ clock >= wake /\ Goto("top")

SleepStopped == at = "sleep" /\ Stopping /\ Goto("ended")

-----------------------------------------------------------------------------
(***************************************************************************)
(* _fire(): the fired row, the run under its cap, the row of its outcome;  *)
(* then tick() computes the next slot from the present moment.  A failing  *)
(* row escapes from tick() and ends the task.                              *)
(***************************************************************************)
FiredWritten ==
    /\ at = "fired"
    /\ Record("fired")
    /\ at' = "run" /\ runFrom' = clock
    /\ UNCHANGED <<phase, clock, failures, next, wake, cur, outcome>>

RowFails ==
    /\ at \in {"fired", "outcome"}
    /\ AuditFails
    /\ at' = "dead"
    /\ UNCHANGED <<phase, clock, next, wake, rows, runVars>>

RunEnds(with) ==
    /\ at' = "outcome" /\ outcome' = with
    /\ UNCHANGED <<phase, clock, failures, next, wake, rows, cur, runFrom>>

Deadline == runFrom + Triggers[cur].cap

RunReturns == at = "run" /\ clock <= Deadline /\ RunEnds("completed")

RunRaisesUncaught == at = "run" /\ clock <= Deadline /\ Goto("dead")     \* slip
RunRaisesUnrecorded == at = "run" /\ clock <= Deadline /\ Goto("tick")   \* slip
RunRaises == at = "run" /\ clock <= Deadline /\ RunEnds("error")

\* except TimeoutError also catches one that the run itself raises.
RunTimesOut == at = "run" /\ RunEnds("timeout")

NextFromSlot == NextFire(cur, next[cur])                       \* slip: after the old slot
NextOneOff == NextFire(cur, NextFire(cur, clock))              \* slip: one slot too far
NextFromNow == NextFire(cur, clock)

OutcomeWritten ==
    /\ at = "outcome"
    /\ Record(outcome)
    /\ next' = [next EXCEPT ![cur] = NextFromNow]
    /\ at' = "tick"
    /\ UNCHANGED <<phase, clock, failures, wake, runVars>>

-----------------------------------------------------------------------------
(***************************************************************************)
(* stop(), and the clock.                                                  *)
(***************************************************************************)
Stop ==
    /\ phase = "running"
    /\ phase' = "stopping"
    /\ UNCHANGED <<clock, failures, at, next, wake, rows, runVars>>

\* Awaiting a task that died raises what killed it.
Stopped ==
    /\ Stopping /\ at \in {"ended", "dead"}
    /\ phase' = IF at = "ended" THEN "stopped" ELSE "failed"
    /\ UNCHANGED <<clock, failures, at, next, wake, rows, runVars>>

Tick ==
    /\ clock < MaxTime
    /\ clock' = clock + 1
    /\ UNCHANGED <<phase, failures, at, next, wake, rows, runVars>>

Announcing == Start \/ Announce \/ AnnounceFails \/ Started

Loop ==
    \/ Leave \/ BeginTick \/ FireDue \/ TickDone
    \/ YieldOnce \/ Sleep \/ SleepOver \/ SleepStopped
    \/ FiredWritten \/ RunReturns \/ RunRaises \/ RunTimesOut \/ OutcomeWritten

Next == Announcing \/ Loop \/ RowFails \/ Stop \/ Stopped \/ Tick

Spec == Init /\ [][Next]_vars

\* asyncio runs what is ready, and asyncio.timeout ends a run that does not end itself.
FairSpec == Spec /\ WF_vars(Loop) /\ WF_vars(Tick)

-----------------------------------------------------------------------------
(***************************************************************************)
(* Properties.                                                             *)
(***************************************************************************)
Outcomes == {"completed", "error", "timeout"}
TriggerRow == [event : {"scheduled", "fired"} \cup Outcomes, trig : Armed,
               slot : Nat, moment : Moments]

\* Every variable has its type.
TypeOK ==
    /\ phase \in {"new", "announcing", "running", "stopping", "stopped", "failed"}
    /\ clock \in Moments /\ failures \in 0 .. MaxFailures
    /\ at \in {"off", "top", "tick", "idle", "sleep", "fired", "run", "outcome",
               "ended", "dead"}
    /\ next \in [Armed -> Nat \ {0}]
    /\ cur \in 1 .. Len(Triggers) + 1
    /\ at \in {"fired", "run", "outcome"} => cur \in Armed
    /\ runFrom \in Moments /\ wake \in Nat
    /\ outcome \in Outcomes \cup {"none"}
    /\ at = "outcome" => outcome \in Outcomes
    /\ rows \in Seq(TriggerRow)

Fires(k) == {n \in DOMAIN rows : rows[n].event = "fired" /\ rows[n].trig = k}

(***************************************************************************)
(* Runs never overlap and always get their outcome: between two fired rows *)
(* stands the outcome of the first, and a fired row without an outcome is  *)
(* the last row, of a run under way or of a task that died                 *)
(* (scheduler.py, _fire).                                                  *)
(***************************************************************************)
RowsBracketed ==
    \A n \in DOMAIN rows :
        /\ rows[n].event = "fired" =>
              \/ /\ n = Len(rows) /\ rows[n].trig = cur
                 /\ at \in {"run", "outcome", "dead"}
              \/ /\ n < Len(rows) /\ rows[n + 1].event \in Outcomes
                 /\ rows[n + 1].trig = rows[n].trig /\ rows[n + 1].slot = rows[n].slot
        /\ rows[n].event \in Outcomes => n > 1 /\ rows[n - 1].event = "fired"

(***************************************************************************)
(* No trigger fires before its slot, twice for one slot, or for a slot     *)
(* that came while it was running: the next slot lies strictly after the   *)
(* end of the run before (scheduler.py, _next_fire and tick).              *)
(***************************************************************************)
FiresFreshSlots ==
    \A k \in Armed : \A n \in Fires(k) :
        /\ rows[n].slot \in Triggers[k].cron /\ rows[n].slot <= rows[n].moment
        /\ \A m \in Fires(k) : m < n => rows[m + 1].moment < rows[n].slot

(***************************************************************************)
(* A slot passes without a fire only while an earlier fire of the same     *)
(* trigger is overdue or running; none is lost between the slot announced  *)
(* in trigger.scheduled and the one armed now (scheduler.py, tick).        *)
(***************************************************************************)
SkippedOnlyWhileBusy ==
    \A k \in Armed : \A n \in DOMAIN rows :
        rows[n].event = "scheduled" /\ rows[n].trig = k =>
            \A slot \in Triggers[k].cron :
                rows[n].slot <= slot /\ slot < next[k] =>
                    \E m \in Fires(k) :
                        m < Len(rows) /\ rows[m].slot <= slot /\ slot <= rows[m + 1].moment

(***************************************************************************)
(* While a trigger is due, each other one gets at most one run ahead of it *)
(* (scheduler.py, tick takes the earliest slot).                           *)
(***************************************************************************)
AtMostOneAhead ==
    \A k, j \in Armed : k # j =>
        \A m, n \in Fires(j) :
            rows[m].moment >= next[k] /\ rows[n].moment >= next[k] => m = n

(***************************************************************************)
(* Unless an audit write fails, a due trigger of a running scheduler is    *)
(* fired, whatever the runs of the others do (scheduler.py, _run).         *)
(***************************************************************************)
DueIsServed ==
    \A k \in Armed :
        [](phase = "running" /\ next[k] <= clock =>
             <>(next[k] > clock \/ phase # "running" \/ failures > 0))

(***************************************************************************)
(* The scheduler keeps its agenda: a trigger runs from its fired row to    *)
(* its outcome, the earliest first, never two together, and its next slot  *)
(* is the first one after the outcome (scheduler.py, tick and _fire).      *)
(***************************************************************************)
UnderWay ==
    {k \in Armed : rows # <<>> /\ rows[Len(rows)].event = "fired" /\ rows[Len(rows)].trig = k}

A == INSTANCE Agenda WITH Jobs <- Armed, SlotsOf <- [k \in Armed |-> Triggers[k].cron],
        time <- clock, due <- next, running <- UnderWay

AgendaKept == A!Spec
=============================================================================
