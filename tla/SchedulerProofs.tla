-------------------------- MODULE SchedulerProofs --------------------------
(***************************************************************************)
(* Theorems about Scheduler for every list of triggers, every set of slots *)
(* and every bound.                                                        *)
(***************************************************************************)
EXTENDS Scheduler, SequenceTheorems, WellFoundedInduction, TLAPS

-----------------------------------------------------------------------------
(***************************************************************************)
(* The two choices of the code: the next slot and the earliest trigger.    *)
(***************************************************************************)

\* The constants are numbers, and a trigger is a record.
LEMMA Sizes ==
    /\ Len(Triggers) \in Nat /\ Idxs = 1 .. Len(Triggers)
    /\ MaxSleep \in Nat \ {0} /\ MaxTime \in Nat /\ MaxFailures \in Nat
    /\ \A k \in Armed : k \in Idxs /\ Triggers[k].cron \subseteq Nat /\ Triggers[k].cap \in Nat
<1>1. Triggers \in Seq(Trigger)
  BY SchedulerAssumption
<1>2. Len(Triggers) \in Nat /\ DOMAIN Triggers = 1 .. Len(Triggers)
  BY <1>1, LenProperties
<1>3. ASSUME NEW k \in Idxs PROVE Triggers[k].cron \subseteq Nat /\ Triggers[k].cap \in Nat
  <2>1. Triggers[k] \in Trigger
    BY <1>1, <1>2, ElementOfSeq DEF Idxs
  <2> QED
    BY <2>1 DEF Trigger
<1> QED
  BY <1>2, <1>3, SchedulerAssumption DEF Idxs, Armed

\* A non-empty set of numbers has a least element.
LEMMA Least ==
    ASSUME NEW T \in SUBSET Nat, T # {}
    PROVE  \E x \in T : \A y \in T : x <= y
<1>1. PICK x \in T : \A y \in T : ~ (<<y, x>> \in OpToRel(<, Nat))
  BY WFMin, NatLessThanWellFounded, Zenon
<1>2. \A y \in T : ~ (y < x)
  BY <1>1 DEF OpToRel
<1> QED
  BY <1>2

\* The next slot is a slot of the trigger, strictly later, and the first such one.
LEMMA NextFireIsNext ==
    ASSUME NEW k \in Armed, NEW after \in Moments
    PROVE  /\ NextFire(k, after) \in Triggers[k].cron
           /\ NextFire(k, after) \in Nat /\ NextFire(k, after) > after
           /\ \A other \in Triggers[k].cron : other > after => NextFire(k, after) <= other
<1> DEFINE Later == {slot \in Triggers[k].cron : slot > after}
<1>1. Triggers[k].cron \subseteq Nat
  BY Sizes
<1>2. Later # {} /\ Later \subseteq Nat
  BY <1>1, SchedulerAssumption DEF Armed
<1>3. PICK x \in Later : \A y \in Later : x <= y
  BY <1>2, Least
<1>4. \E slot \in Triggers[k].cron :
          slot > after /\ \A other \in Triggers[k].cron : other > after => slot <= other
  BY <1>3
<1> QED
  BY <1>1, <1>4 DEF NextFire

\* The trigger tick() takes is armed, and no armed one has an earlier slot.
LEMMA EarliestIsEarliest ==
    ASSUME Armed # {}, next \in [Armed -> Nat]
    PROVE  Earliest \in Armed /\ \A j \in Armed : next[Earliest] <= next[j]
<1> DEFINE Slots == {next[k] : k \in Armed}
<1>1. Slots # {} /\ Slots \subseteq Nat
  OBVIOUS
<1>2. PICK v \in Slots : \A w \in Slots : v <= w
  BY <1>1, Least
<1> DEFINE Ties == {k \in Armed : next[k] = v}
<1>3. Ties # {} /\ Ties \subseteq Nat
  BY <1>2, Sizes
<1>4. PICK x \in Ties : \A y \in Ties : x <= y
  BY <1>3, Least
<1>5. \A j \in Armed : v <= next[j] /\ v \in Nat /\ next[j] \in Nat
  BY <1>1, <1>2
<1>6. x \in Armed /\ \A j \in Armed : next[x] < next[j] \/ (next[x] = next[j] /\ x <= j)
  BY <1>4, <1>5
<1>7. /\ Earliest \in Armed
      /\ \A j \in Armed : next[Earliest] < next[j] \/ (next[Earliest] = next[j] /\ Earliest <= j)
  BY <1>6 DEF Earliest
<1> QED
  BY <1>7

\* The row a step appends, and what appending it does.
LEMMA Grown ==
    ASSUME TypeOK, cur \in Armed, NEW event, Record(event)
    PROVE  /\ Len(rows) \in Nat /\ DOMAIN rows = 1 .. Len(rows)
           /\ Len(rows') = Len(rows) + 1 /\ DOMAIN rows' = 1 .. Len(rows) + 1
           /\ \A n \in DOMAIN rows : rows'[n] = rows[n]
           /\ rows'[Len(rows) + 1] =
                 [event |-> event, trig |-> cur, slot |-> next[cur], moment |-> clock]
<1>1. rows \in Seq(TriggerRow)
  BY DEF TypeOK
<1>2. Len(rows) \in Nat /\ DOMAIN rows = 1 .. Len(rows)
  BY <1>1, LenProperties
<1> DEFINE r == [event |-> event, trig |-> cur, slot |-> next[cur], moment |-> clock]
<1>3. rows' = Append(rows, r)
  BY DEF Record
<1>4. /\ Len(rows') = Len(rows) + 1
      /\ \A n \in 1 .. Len(rows) : rows'[n] = rows[n]
      /\ rows'[Len(rows) + 1] = r
  BY <1>1, <1>3, AppendProperties
<1>5. DOMAIN rows' = 1 .. Len(rows')
  BY <1>1, <1>3, AppendProperties
<1> QED
  BY <1>2, <1>4, <1>5

\* A row on which a step may rely is of the right type.
LEMMA RowsTyped ==
    ASSUME TypeOK
    PROVE  /\ Len(rows) \in Nat /\ DOMAIN rows = 1 .. Len(rows)
           /\ \A n \in DOMAIN rows : rows[n] \in TriggerRow
<1>1. rows \in Seq(TriggerRow)
  BY DEF TypeOK
<1>2. Len(rows) \in Nat /\ DOMAIN rows = 1 .. Len(rows)
  BY <1>1, LenProperties
<1> QED
  BY <1>1, <1>2, ElementOfSeq

-----------------------------------------------------------------------------
(***************************************************************************)
(* Type correctness.                                                       *)
(***************************************************************************)
LEMMA TypeInit == Init => TypeOK
<1> SUFFICES ASSUME Init PROVE TypeOK
  OBVIOUS
<1>1. rows \in Seq(TriggerRow)
  BY EmptySeq DEF Init
<1>2. clock = 0 /\ 0 \in Moments
  BY Sizes DEF Init, Moments
<1>3. next \in [Armed -> Nat \ {0}]
  BY <1>2, NextFireIsNext DEF Init
<1>4. cur \in 1 .. Len(Triggers) + 1 /\ failures \in 0 .. MaxFailures
  BY Sizes DEF Init
<1> QED
  BY <1>1, <1>2, <1>3, <1>4 DEF Init, TypeOK

\* The loop looks for the earliest trigger only when there is one.
LoopInv ==
    /\ phase \in {"new", "announcing"} => at = "off"
    /\ at \in {"tick", "idle", "sleep"} => Armed # {}
    /\ at = "fired" => next[cur] <= clock /\ \A j \in Armed : next[cur] <= next[j]
    /\ \A k \in Armed : next[k] \in Triggers[k].cron

\* A recorded row is well typed.
LEMMA RecordTyped ==
    ASSUME TypeOK, cur \in Armed, NEW event \in {"scheduled", "fired"} \cup Outcomes,
           Record(event)
    PROVE  rows' \in Seq(TriggerRow)
<1>1. [event |-> event, trig |-> cur, slot |-> next[cur], moment |-> clock] \in TriggerRow
  BY DEF TypeOK, TriggerRow
<1> QED
  BY <1>1, AppendProperties DEF TypeOK, Record

\* Every step keeps the types.
LEMMA TypeStep == TypeOK /\ LoopInv /\ [Next]_vars => TypeOK'
<1> SUFFICES ASSUME TypeOK, LoopInv, [Next]_vars PROVE TypeOK'
  OBVIOUS
<1> USE Sizes DEF runVars
<1>1. CASE Start
  BY <1>1 DEF Start, TypeOK
<1>2. CASE Announce
  <2>1. cur + 1 \in 1 .. Len(Triggers) + 1
    BY <1>2 DEF Announce
  <2>2. rows' \in Seq(TriggerRow)
    BY <1>2, RecordTyped DEF Announce, TypeOK
  <2>3. at = "off"
    BY <1>2 DEF Announce, LoopInv
  <2> QED
    BY <1>2, <2>1, <2>2, <2>3 DEF Announce, TypeOK
<1>3. CASE AnnounceFails
  BY <1>3 DEF AnnounceFails, AuditFails, TypeOK
<1>4. CASE Started
  BY <1>4 DEF Started, TypeOK
<1>5. CASE Leave \/ BeginTick \/ TickDone \/ YieldOnce \/ SleepOver \/ SleepStopped
  BY <1>5 DEF Leave, BeginTick, TickDone, YieldOnce, SleepOver, SleepStopped, Goto, TypeOK
<1>6. CASE FireDue
  <2>1. Earliest \in Armed
    BY <1>6, EarliestIsEarliest DEF FireDue, LoopInv, TypeOK
  <2> QED
    BY <1>6, <2>1 DEF FireDue, TypeOK
<1>7. CASE Sleep
  <2>1. Earliest \in Armed
    BY <1>7, EarliestIsEarliest DEF Sleep, LoopInv, TypeOK
  <2>2. wake' \in Nat
    BY <1>7, <2>1 DEF Sleep, TypeOK, Moments
  <2> QED
    BY <1>7, <2>2 DEF Sleep, TypeOK
<1>8. CASE FiredWritten
  <2>1. rows' \in Seq(TriggerRow)
    BY <1>8, RecordTyped DEF FiredWritten, TypeOK
  <2> QED
    BY <1>8, <2>1 DEF FiredWritten, TypeOK
<1>9. CASE RowFails
  BY <1>9 DEF RowFails, AuditFails, TypeOK
<1>10. CASE RunReturns \/ RunRaises \/ RunTimesOut
  BY <1>10 DEF RunReturns, RunRaises, RunTimesOut, RunEnds, TypeOK, Outcomes
<1>11. CASE OutcomeWritten
  <2>1. rows' \in Seq(TriggerRow)
    BY <1>11, RecordTyped DEF OutcomeWritten, TypeOK
  <2>2. NextFromNow \in Nat \ {0}
    BY <1>11, NextFireIsNext DEF OutcomeWritten, NextFromNow, TypeOK, Moments
  <2>3. next' \in [Armed -> Nat \ {0}]
    BY <1>11, <2>2 DEF OutcomeWritten, TypeOK
  <2> QED
    BY <1>11, <2>1, <2>3 DEF OutcomeWritten, TypeOK
<1>12. CASE Stop
  BY <1>12 DEF Stop, TypeOK
<1>13. CASE Stopped
  BY <1>13 DEF Stopped, TypeOK
<1>14. CASE Tick
  BY <1>14 DEF Tick, TypeOK, Moments
<1>15. CASE UNCHANGED vars
  BY <1>15 DEF vars, TypeOK
<1> QED
  BY <1>1, <1>2, <1>3, <1>4, <1>5, <1>6, <1>7, <1>8, <1>9, <1>10, <1>11, <1>12, <1>13,
     <1>14, <1>15 DEF Next, Announcing, Loop

\* The loop invariant holds initially.
LEMMA LoopInit == Init => LoopInv
<1> SUFFICES ASSUME Init PROVE LoopInv
  OBVIOUS
<1>1. clock = 0 /\ 0 \in Moments
  BY Sizes DEF Init, Moments
<1>2. \A k \in Armed : next[k] \in Triggers[k].cron
  BY <1>1, NextFireIsNext DEF Init
<1> QED
  BY <1>2 DEF Init, LoopInv

\* Every step keeps the loop invariant.
LEMMA LoopStep == TypeOK /\ LoopInv /\ [Next]_vars => LoopInv'
<1> SUFFICES ASSUME TypeOK, LoopInv, [Next]_vars PROVE LoopInv'
  OBVIOUS
<1> USE DEF runVars
<1>1. CASE Start \/ AnnounceFails \/ Started \/ Stop \/ Stopped
  BY <1>1 DEF Start, AnnounceFails, Started, Stop, Stopped, Stopping, LoopInv
<1>2. CASE Announce
  BY <1>2 DEF Announce, LoopInv
<1>3. CASE Leave \/ BeginTick \/ TickDone \/ YieldOnce \/ SleepOver \/ SleepStopped
  BY <1>3 DEF Leave, BeginTick, TickDone, YieldOnce, SleepOver, SleepStopped, Goto, LoopInv
<1>4. CASE FireDue
  <2>1. \A j \in Armed : next[Earliest] <= next[j]
    BY <1>4, EarliestIsEarliest DEF FireDue, LoopInv, TypeOK
  <2> QED
    BY <1>4, <2>1 DEF FireDue, LoopInv
<1>5. CASE Sleep
  BY <1>5 DEF Sleep, LoopInv
<1>6. CASE FiredWritten \/ RowFails
  BY <1>6 DEF FiredWritten, RowFails, LoopInv
<1>7. CASE RunReturns \/ RunRaises \/ RunTimesOut
  BY <1>7 DEF RunReturns, RunRaises, RunTimesOut, RunEnds, LoopInv
<1>8. CASE OutcomeWritten
  <2>1. cur \in Armed /\ NextFromNow \in Triggers[cur].cron
    BY <1>8, NextFireIsNext DEF OutcomeWritten, NextFromNow, TypeOK
  <2>2. \A k \in Armed : next'[k] \in Triggers[k].cron
    BY <1>8, <2>1 DEF OutcomeWritten, LoopInv, TypeOK
  <2>3. Armed # {} /\ at' = "tick" /\ phase' = phase
    BY <1>8, <2>1 DEF OutcomeWritten
  <2>4. phase \notin {"new", "announcing"}
    BY <1>8 DEF OutcomeWritten, LoopInv
  <2> QED
    BY <2>2, <2>3, <2>4 DEF LoopInv
<1>9. CASE Tick
  BY <1>9 DEF Tick, LoopInv, TypeOK, Moments
<1>10. CASE UNCHANGED vars
  BY <1>10 DEF vars, LoopInv
<1> QED
  BY <1>1, <1>2, <1>3, <1>4, <1>5, <1>6, <1>7, <1>8, <1>9, <1>10 DEF Next, Announcing, Loop

(***************************************************************************)
(* Type correctness (scheduler.py), for every list of triggers: no step of *)
(* the loop leaves the states a scheduler can be in.                       *)
(***************************************************************************)
THEOREM TypeCorrect == Spec => []TypeOK
<1>1. Init => TypeOK /\ LoopInv
  BY TypeInit, LoopInit
<1>2. TypeOK /\ LoopInv /\ [Next]_vars => (TypeOK /\ LoopInv)'
  BY TypeStep, LoopStep
<1> QED
  BY <1>1, <1>2, PTL DEF Spec

-----------------------------------------------------------------------------
(***************************************************************************)
(* The rows.  Only three steps write one; the others leave the rows and    *)
(* the slots alone.                                                        *)
(***************************************************************************)
Quiet == UNCHANGED <<rows, next>> /\ clock <= clock'

Scheduled == Announce /\ cur \in Armed /\ Record("scheduled")

\* A step writes no row, or is one of the three that append one.
LEMMA RowSteps ==
    ASSUME TypeOK, [Next]_vars PROVE Quiet \/ Scheduled \/ FiredWritten \/ OutcomeWritten
<1> USE DEF Quiet, runVars
<1>1. clock \in Nat
  BY Sizes DEF TypeOK, Moments
<1>2. CASE Start \/ AnnounceFails \/ Started \/ Stop \/ Stopped \/ RowFails
  BY <1>1, <1>2 DEF Start, AnnounceFails, Started, Stop, Stopped, RowFails
<1>3. CASE Announce
  BY <1>1, <1>3 DEF Announce, Scheduled
<1>4. CASE Leave \/ BeginTick \/ TickDone \/ YieldOnce \/ SleepOver \/ SleepStopped
  BY <1>1, <1>4 DEF Leave, BeginTick, TickDone, YieldOnce, SleepOver, SleepStopped, Goto
<1>5. CASE FireDue \/ Sleep
  BY <1>1, <1>5 DEF FireDue, Sleep
<1>6. CASE RunReturns \/ RunRaises \/ RunTimesOut
  BY <1>1, <1>6 DEF RunReturns, RunRaises, RunTimesOut, RunEnds
<1>7. CASE Tick
  BY <1>1, <1>7 DEF Tick
<1>8. CASE UNCHANGED vars
  BY <1>1, <1>8 DEF vars
<1> QED
  BY <1>2, <1>3, <1>4, <1>5, <1>6, <1>7, <1>8 DEF Next, Announcing, Loop

\* The last row is the fired row of a run under way, and of nothing else.
RunInv ==
    /\ at \in {"run", "outcome"} =>
          /\ rows # <<>> /\ rows[Len(rows)].event = "fired"
          /\ rows[Len(rows)].trig = cur /\ rows[Len(rows)].slot = next[cur]
    /\ at \notin {"run", "outcome", "dead"} /\ rows # <<>> => rows[Len(rows)].event # "fired"

BracketInv == RunInv /\ RowsBracketed

\* Initially there are no rows.
LEMMA BracketInit == Init => BracketInv
  BY DEF Init, BracketInv, RunInv, RowsBracketed

\* Every step keeps each fired row next to its outcome.
LEMMA BracketStep == TypeOK /\ LoopInv /\ BracketInv /\ [Next]_vars => BracketInv'
<1> SUFFICES ASSUME TypeOK, LoopInv, BracketInv, [Next]_vars PROVE BracketInv'
  OBVIOUS
<1> USE RowsTyped DEF runVars
<1>1. CASE Start \/ AnnounceFails \/ Started \/ Stop \/ Stopped \/ Tick
  <2>1. UNCHANGED <<rows, next, cur>>
    BY <1>1 DEF Start, AnnounceFails, Started, Stop, Stopped, Tick
  <2>2. at' = at \/ (at = "off" /\ at' = "top")
    BY <1>1 DEF Start, AnnounceFails, Started, Stop, Stopped, Tick, LoopInv
  <2> QED
    BY <2>1, <2>2 DEF BracketInv, RunInv, RowsBracketed
<1>2. CASE Leave \/ BeginTick \/ TickDone \/ YieldOnce \/ SleepOver \/ SleepStopped
  <2>1. UNCHANGED <<rows, next, cur>>
    BY <1>2 DEF Leave, BeginTick, TickDone, YieldOnce, SleepOver, SleepStopped, Goto
  <2>2. /\ at \notin {"run", "outcome", "dead"}
        /\ at' \notin {"run", "outcome", "dead"}
    BY <1>2 DEF Leave, BeginTick, TickDone, YieldOnce, SleepOver, SleepStopped, Goto
  <2> QED
    BY <2>1, <2>2 DEF BracketInv, RunInv, RowsBracketed
<1>3. CASE FireDue \/ Sleep
  <2>1. UNCHANGED <<rows, next>>
    BY <1>3 DEF FireDue, Sleep
  <2>2. /\ at \notin {"run", "outcome", "dead"}
        /\ at' \notin {"run", "outcome", "dead"}
    BY <1>3 DEF FireDue, Sleep
  <2> QED
    BY <2>1, <2>2 DEF BracketInv, RunInv, RowsBracketed
<1>4. CASE RunReturns \/ RunRaises \/ RunTimesOut
  BY <1>4 DEF RunReturns, RunRaises, RunTimesOut, RunEnds, BracketInv, RunInv, RowsBracketed
<1>5. CASE RowFails
  <2>1. UNCHANGED <<rows, next, cur>> /\ at' = "dead"
    BY <1>5 DEF RowFails
  <2>2. at \in {"fired", "outcome"}
    BY <1>5 DEF RowFails
  <2> QED
    BY <2>1, <2>2 DEF BracketInv, RunInv, RowsBracketed
<1>6. CASE Announce
  <2>1. at = "off" /\ at' = "off"
    BY <1>6 DEF Announce, LoopInv
  <2>2. CASE UNCHANGED rows
    BY <2>1, <2>2 DEF BracketInv, RunInv, RowsBracketed
  <2>3. CASE cur \in Armed /\ Record("scheduled")
    <3>1. /\ DOMAIN rows' = 1 .. Len(rows) + 1 /\ Len(rows') = Len(rows) + 1
          /\ \A n \in DOMAIN rows : rows'[n] = rows[n]
          /\ rows'[Len(rows) + 1].event = "scheduled"
      BY <2>3, Grown DEF Record
    <3>2. RunInv'
      BY <2>1, <3>1 DEF RunInv
    <3>3. ASSUME NEW n \in DOMAIN rows, rows[n].event = "fired" PROVE n < Len(rows)
      BY <2>1, <3>3 DEF BracketInv, RunInv
    <3>4. RowsBracketed'
      BY <3>1, <3>3 DEF BracketInv, RowsBracketed, Outcomes
    <3> QED
      BY <3>2, <3>4 DEF BracketInv
  <2> QED
    BY <1>6, <2>2, <2>3 DEF Announce
<1>7. CASE FiredWritten
  <2>1. /\ at = "fired" /\ at' = "run" /\ UNCHANGED <<cur, next>> /\ cur \in Armed
        /\ Record("fired")
    BY <1>7 DEF FiredWritten, TypeOK
  <2>2. /\ DOMAIN rows' = 1 .. Len(rows) + 1 /\ Len(rows') = Len(rows) + 1
        /\ \A n \in DOMAIN rows : rows'[n] = rows[n]
        /\ rows'[Len(rows) + 1].event = "fired" /\ rows'[Len(rows) + 1].trig = cur
        /\ rows'[Len(rows) + 1].slot = next[cur]
    BY <2>1, Grown DEF Record
  <2>3. RunInv'
    BY <2>1, <2>2 DEF RunInv
  <2>4. ASSUME NEW n \in DOMAIN rows, rows[n].event = "fired" PROVE n < Len(rows)
    BY <2>1, <2>4 DEF BracketInv, RunInv
  <2>5. RowsBracketed'
    BY <2>1, <2>2, <2>4 DEF BracketInv, RowsBracketed, Outcomes
  <2> QED
    BY <2>3, <2>5 DEF BracketInv
<1>8. CASE OutcomeWritten
  <2>1. /\ at = "outcome" /\ at' = "tick" /\ UNCHANGED cur /\ cur \in Armed
        /\ outcome \in Outcomes /\ Record(outcome)
    BY <1>8 DEF OutcomeWritten, TypeOK
  <2>2. /\ DOMAIN rows' = 1 .. Len(rows) + 1 /\ Len(rows') = Len(rows) + 1
        /\ \A n \in DOMAIN rows : rows'[n] = rows[n]
        /\ rows'[Len(rows) + 1].event = outcome /\ rows'[Len(rows) + 1].trig = cur
        /\ rows'[Len(rows) + 1].slot = next[cur]
    BY <2>1, Grown DEF Record
  <2>3. outcome # "fired"
    BY <2>1 DEF Outcomes
  <2>4. RunInv'
    BY <2>1, <2>2, <2>3 DEF RunInv
  <2>5. /\ Len(rows) \in DOMAIN rows /\ rows[Len(rows)].event = "fired"
        /\ rows[Len(rows)].trig = cur /\ rows[Len(rows)].slot = next[cur]
    BY <2>1, EmptySeq DEF BracketInv, RunInv, TypeOK
  <2>6. RowsBracketed'
    BY <2>1, <2>2, <2>3, <2>5 DEF BracketInv, RowsBracketed
  <2> QED
    BY <2>4, <2>6 DEF BracketInv
<1>9. CASE UNCHANGED vars
  BY <1>9 DEF vars, BracketInv, RunInv, RowsBracketed
<1> QED
  BY <1>1, <1>2, <1>3, <1>4, <1>5, <1>6, <1>7, <1>8, <1>9 DEF Next, Announcing, Loop

\* What the three steps that write a row have in common.
LEMMA Written ==
    ASSUME TypeOK, LoopInv, BracketInv, Scheduled \/ FiredWritten \/ OutcomeWritten
    PROVE  \E event \in {"scheduled", "fired"} \cup Outcomes :
              /\ cur \in Armed /\ next[cur] \in Nat /\ clock' = clock /\ clock \in Nat
              /\ Len(rows) \in Nat /\ DOMAIN rows = 1 .. Len(rows)
              /\ Len(rows') = Len(rows) + 1 /\ DOMAIN rows' = 1 .. Len(rows) + 1
              /\ \A n \in DOMAIN rows : rows'[n] = rows[n]
              /\ rows'[Len(rows) + 1] =
                    [event |-> event, trig |-> cur, slot |-> next[cur], moment |-> clock]
              /\ event = "fired" <=> FiredWritten
              /\ FiredWritten => at = "fired"
              /\ event \in Outcomes <=> OutcomeWritten
              /\ OutcomeWritten => at = "outcome" /\ next' = [next EXCEPT ![cur] = NextFromNow]
              /\ ~ OutcomeWritten => next' = next
<1>1. clock \in Nat /\ (cur \in Armed => next[cur] \in Nat)
  BY Sizes DEF TypeOK, Moments
<1>2. CASE Scheduled
  <2>1. cur \in Armed /\ at = "off" /\ clock' = clock /\ next' = next /\ Record("scheduled")
    BY <1>2 DEF Scheduled, Announce, LoopInv
  <2>2. ~ FiredWritten /\ ~ OutcomeWritten
    BY <2>1 DEF FiredWritten, OutcomeWritten
  <2> QED
    BY <1>1, <2>1, <2>2, Grown DEF Record, Outcomes
<1>3. CASE FiredWritten
  <2>1. /\ cur \in Armed /\ at = "fired" /\ clock' = clock /\ next' = next
        /\ Record("fired")
    BY <1>3 DEF FiredWritten, TypeOK
  <2>2. ~ OutcomeWritten
    BY <2>1 DEF OutcomeWritten
  <2> QED
    BY <1>1, <1>3, <2>1, <2>2, Grown DEF Record, Outcomes
<1>4. CASE OutcomeWritten
  <2>1. /\ cur \in Armed /\ at = "outcome" /\ clock' = clock /\ outcome \in Outcomes
        /\ next' = [next EXCEPT ![cur] = NextFromNow] /\ Record(outcome)
    BY <1>4 DEF OutcomeWritten, TypeOK
  <2>2. ~ FiredWritten /\ outcome # "fired"
    BY <2>1 DEF FiredWritten, Outcomes
  <2> QED
    BY <1>1, <1>4, <2>1, <2>2, Grown DEF Record
<1> QED
  BY <1>2, <1>3, <1>4

-----------------------------------------------------------------------------
(***************************************************************************)
(* Fresh slots.  The rows' moments never go back, so what the invariant    *)
(* needs besides the property is that an armed slot lies after the end of  *)
(* every run of its trigger.                                               *)
(***************************************************************************)
MomentsInv ==
    /\ \A n \in DOMAIN rows : rows[n].moment <= clock
    /\ \A m, n \in DOMAIN rows : m <= n => rows[m].moment <= rows[n].moment

RearmInv ==
    \A k \in Armed : \A m \in Fires(k) :
        m < Len(rows) => rows[m + 1].moment < next[k]

FreshInv == MomentsInv /\ RearmInv /\ FiresFreshSlots

\* Initially nothing has fired.
LEMMA FreshInit == Init => FreshInv
  BY DEF Init, FreshInv, MomentsInv, RearmInv, FiresFreshSlots, Fires

\* Every step keeps the slots fresh.
LEMMA FreshStep ==
    TypeOK /\ LoopInv /\ BracketInv /\ FreshInv /\ [Next]_vars => FreshInv'
<1> SUFFICES ASSUME TypeOK, LoopInv, BracketInv, FreshInv, [Next]_vars PROVE FreshInv'
  OBVIOUS
<1> DEFINE L == Len(rows)
<1>1. /\ clock \in Nat /\ next \in [Armed -> Nat]
      /\ \A n \in DOMAIN rows : rows[n].moment \in Nat /\ rows[n].slot \in Nat
  BY Sizes, RowsTyped DEF TypeOK, Moments, TriggerRow
<1>2. Len(rows) \in Nat /\ DOMAIN rows = 1 .. Len(rows)
  BY RowsTyped
<1>3. CASE Quiet
  <2>1. MomentsInv'
    <3>1. clock' \in Nat /\ clock <= clock'
      BY <1>3, TypeStep, Sizes DEF Quiet, TypeOK, Moments
    <3> QED
      BY <1>1, <1>3, <3>1 DEF Quiet, FreshInv, MomentsInv
  <2>2. RearmInv' /\ FiresFreshSlots'
    BY <1>3 DEF Quiet, FreshInv, RearmInv, FiresFreshSlots, Fires
  <2> QED
    BY <2>1, <2>2 DEF FreshInv
<1>4. CASE Scheduled \/ FiredWritten \/ OutcomeWritten
  <2>1. PICK event \in {"scheduled", "fired"} \cup Outcomes :
              /\ cur \in Armed /\ clock' = clock
              /\ Len(rows') = L + 1 /\ DOMAIN rows' = 1 .. L + 1
              /\ \A n \in DOMAIN rows : rows'[n] = rows[n]
              /\ rows'[L + 1] =
                    [event |-> event, trig |-> cur, slot |-> next[cur], moment |-> clock]
              /\ event = "fired" <=> FiredWritten
              /\ FiredWritten => at = "fired"
              /\ event \in Outcomes <=> OutcomeWritten
              /\ OutcomeWritten => at = "outcome" /\ next' = [next EXCEPT ![cur] = NextFromNow]
              /\ ~ OutcomeWritten => next' = next
    BY <1>4, Written
  <2>2. MomentsInv'
    BY <1>1, <1>2, <2>1 DEF FreshInv, MomentsInv
  <2>3. \A k \in Armed : \A m \in Fires(k)' : m \in Fires(k) \/ (m = L + 1 /\ event = "fired" /\ k = cur)
    BY <1>2, <2>1 DEF Fires
  <2>4. at # "outcome" => \A k \in Armed : \A m \in Fires(k) : m < L
    <3>1. CASE at = "fired" \/ at = "off"
      BY <1>2, <3>1 DEF BracketInv, RunInv, Fires
    <3>2. at \in {"off", "fired", "outcome"}
      BY <1>4 DEF Scheduled, Announce, FiredWritten, OutcomeWritten, LoopInv
    <3> QED
      BY <3>1, <3>2
  <2>5. OutcomeWritten => NextFromNow \in Nat /\ NextFromNow > clock
    BY <2>1, NextFireIsNext DEF NextFromNow, TypeOK
  <2>6. RearmInv'
    <3> SUFFICES ASSUME NEW k \in Armed, NEW m \in Fires(k)', m < Len(rows')
                 PROVE  rows'[m + 1].moment < next'[k]
      BY DEF RearmInv
    <3>1. m \in Fires(k) /\ m \in 1 .. L
      BY <1>2, <2>1, <2>3 DEF Fires
    <3>4. L \in Nat /\ m \in 1 .. L
      BY <1>2, <3>1
    <3>5. m = L \/ m < L
      BY <3>4
    <3>2. CASE m = L
      <4>1. at = "outcome"
        BY <2>4, <3>1, <3>2
      <4>2. OutcomeWritten
        BY <1>4, <4>1 DEF Scheduled, Announce, FiredWritten, LoopInv
      <4>3. k = cur
        BY <1>2, <3>1, <3>2, <4>1 DEF BracketInv, RunInv, Fires
      <4> QED
        BY <1>1, <2>1, <2>5, <3>2, <4>2, <4>3
    <3>3. CASE m < L
      <4>1. rows[m + 1].moment < next[k] /\ rows'[m + 1] = rows[m + 1] /\ m + 1 \in DOMAIN rows
        BY <1>2, <2>1, <3>1, <3>3 DEF FreshInv, RearmInv
      <4>2. rows[m + 1].moment <= clock
        BY <4>1 DEF FreshInv, MomentsInv
      <4>3. next'[k] = next[k] \/ (OutcomeWritten /\ next'[k] = NextFromNow)
        BY <1>1, <2>1
      <4> QED
        BY <1>1, <2>5, <4>1, <4>2, <4>3
    <3> QED
      BY <3>2, <3>3, <3>5
  <2>7. FiresFreshSlots'
    <3> SUFFICES ASSUME NEW k \in Armed, NEW n \in Fires(k)'
                 PROVE  /\ rows'[n].slot \in Triggers[k].cron /\ rows'[n].slot <= rows'[n].moment
                        /\ \A m \in Fires(k)' : m < n => rows'[m + 1].moment < rows'[n].slot
      BY DEF FiresFreshSlots
    <3>1. CASE n \in Fires(k)
      <4>1. n \in 1 .. L /\ rows'[n] = rows[n]
        BY <1>2, <2>1, <3>1 DEF Fires
      <4>2. ASSUME NEW m \in Fires(k)', m < n PROVE rows'[m + 1].moment < rows'[n].slot
        <5>1. m \in Fires(k) /\ m + 1 \in 1 .. L
          BY <1>2, <2>3, <4>1, <4>2 DEF Fires
        <5> QED
          BY <1>2, <2>1, <3>1, <4>1, <4>2, <5>1 DEF FreshInv, FiresFreshSlots
      <4> QED
        BY <3>1, <4>1, <4>2 DEF FreshInv, FiresFreshSlots
    <3>2. CASE n = L + 1 /\ event = "fired" /\ k = cur
      <4>1. at = "fired" /\ rows'[n].slot = next[k] /\ rows'[n].moment = clock
        BY <2>1, <3>2
      <4>2. next[k] \in Triggers[k].cron /\ next[k] <= clock
        BY <3>2, <4>1 DEF LoopInv
      <4>3. ASSUME NEW m \in Fires(k)', m < n PROVE rows'[m + 1].moment < next[k]
        <5>1. m \in Fires(k) /\ m < L
          BY <2>3, <2>4, <3>2, <4>1, <4>3
        <5>2. m + 1 \in DOMAIN rows
          BY <1>2, <5>1 DEF Fires
        <5> QED
          BY <2>1, <5>1, <5>2 DEF FreshInv, RearmInv
      <4> QED
        BY <4>1, <4>2, <4>3
    <3> QED
      BY <2>3, <3>1, <3>2
  <2> QED
    BY <2>2, <2>6, <2>7 DEF FreshInv
<1> QED
  BY <1>3, <1>4, RowSteps

-----------------------------------------------------------------------------
(***************************************************************************)
(* Waiting and skipping.                                                   *)
(***************************************************************************)

\* A row that is written adds at most its own fire, and no fire waits for its outcome then.
LEMMA FiresAfter ==
    ASSUME TypeOK, LoopInv, BracketInv, Scheduled \/ FiredWritten \/ OutcomeWritten,
           NEW k \in Armed
    PROVE  /\ Fires(k) \subseteq 1 .. Len(rows) /\ Len(rows) \in Nat
           /\ Fires(k)' = IF FiredWritten /\ k = cur THEN Fires(k) \cup {Len(rows) + 1} ELSE Fires(k)
           /\ ~ OutcomeWritten => \A m \in Fires(k) : m < Len(rows)
<1>1. PICK event \in {"scheduled", "fired"} \cup Outcomes :
          /\ Len(rows) \in Nat /\ DOMAIN rows = 1 .. Len(rows)
          /\ DOMAIN rows' = 1 .. Len(rows) + 1
          /\ \A n \in DOMAIN rows : rows'[n] = rows[n]
          /\ rows'[Len(rows) + 1] =
                [event |-> event, trig |-> cur, slot |-> next[cur], moment |-> clock]
          /\ event = "fired" <=> FiredWritten
  BY Written
<1>2. Fires(k) \subseteq 1 .. Len(rows)
  BY <1>1 DEF Fires
<1>3. ASSUME NEW n \in 1 .. Len(rows) PROVE n \in Fires(k)' <=> n \in Fires(k)
  BY <1>1, <1>3 DEF Fires
<1>4. Len(rows) + 1 \in Fires(k)' <=> FiredWritten /\ k = cur
  BY <1>1 DEF Fires
<1>5. Fires(k)' \subseteq 1 .. Len(rows) + 1
  BY <1>1 DEF Fires
<1>6. \A n \in 1 .. Len(rows) + 1 : n \in 1 .. Len(rows) \/ n = Len(rows) + 1
  BY <1>1
<1>7. ASSUME ~ OutcomeWritten, NEW m \in Fires(k) PROVE m < Len(rows)
  <2>1. at \in {"off", "fired"}
    BY <1>7 DEF Scheduled, Announce, FiredWritten, LoopInv
  <2>2. m # Len(rows)
    BY <1>1, <2>1 DEF BracketInv, RunInv, Fires
  <2>3. Len(rows) \in Nat /\ m \in 1 .. Len(rows)
    BY <1>1, <1>2
  <2> QED
    BY <2>2, <2>3
<1>8. Fires(k)' = IF FiredWritten /\ k = cur THEN Fires(k) \cup {Len(rows) + 1} ELSE Fires(k)
  <2>1. CASE FiredWritten /\ k = cur
    BY <1>2, <1>3, <1>4, <1>5, <1>6, <2>1
  <2>2. CASE ~ (FiredWritten /\ k = cur)
    BY <1>2, <1>3, <1>4, <1>5, <1>6, <2>2
  <2> QED
    BY <2>1, <2>2
<1> QED
  BY <1>1, <1>2, <1>7, <1>8

\* A trigger that has run since another came due has its next slot behind that one.
LEMMA PassedIsBehind ==
    ASSUME TypeOK, FreshInv, NEW j \in Armed, NEW k \in Armed, NEW m \in Fires(j),
           m < Len(rows), rows[m].moment >= next[k]
    PROVE  next[j] > next[k]
<1>1. m \in DOMAIN rows /\ m + 1 \in DOMAIN rows /\ m <= m + 1
  BY RowsTyped DEF Fires
<1>2. rows[m].moment <= rows[m + 1].moment
  BY <1>1 DEF FreshInv, MomentsInv
<1>3. rows[m + 1].moment < next[j]
  BY DEF FreshInv, RearmInv
<1>4. rows[m].moment \in Nat /\ rows[m + 1].moment \in Nat
  BY <1>1, RowsTyped, Sizes DEF TriggerRow, Moments
<1>5. next[j] \in Nat /\ next[k] \in Nat
  BY DEF TypeOK
<1> QED
  BY <1>2, <1>3, <1>4, <1>5

\* No step lets a second run of one trigger go ahead of another that is due.
LEMMA AheadStep ==
    TypeOK /\ LoopInv /\ BracketInv /\ FreshInv /\ AtMostOneAhead /\ [Next]_vars
        => AtMostOneAhead'
<1> SUFFICES ASSUME TypeOK, LoopInv, BracketInv, FreshInv, AtMostOneAhead, [Next]_vars
             PROVE  AtMostOneAhead'
  OBVIOUS
<1>1. CASE Quiet
  BY <1>1 DEF Quiet, AtMostOneAhead, Fires
<1>2. CASE Scheduled \/ FiredWritten \/ OutcomeWritten
  <2> SUFFICES ASSUME NEW k \in Armed, NEW j \in Armed, k # j,
                      NEW m \in Fires(j)', NEW n \in Fires(j)',
                      rows'[m].moment >= next'[k], rows'[n].moment >= next'[k]
               PROVE  m = n
    BY DEF AtMostOneAhead
  <2>1. /\ \A x \in 1 .. Len(rows) : rows'[x] = rows[x]
        /\ ~ OutcomeWritten => next' = next
        /\ OutcomeWritten => next' = [next EXCEPT ![cur] = NextFromNow]
        /\ FiredWritten => at = "fired" /\ ~ OutcomeWritten
        /\ OutcomeWritten => ~ FiredWritten /\ cur \in Armed
    BY <1>2, Written DEF FiredWritten, OutcomeWritten
  <2>2. /\ Fires(j) \subseteq 1 .. Len(rows)
        /\ Fires(j)' = IF FiredWritten /\ j = cur THEN Fires(j) \cup {Len(rows) + 1} ELSE Fires(j)
        /\ ~ OutcomeWritten => \A x \in Fires(j) : x < Len(rows)
    BY <1>2, FiresAfter
  <2>3. CASE OutcomeWritten /\ k = cur
    <3>1. NextFromNow > clock /\ NextFromNow \in Nat /\ next'[k] = NextFromNow
      BY <2>1, <2>3, NextFireIsNext DEF NextFromNow, TypeOK
    <3>2. m \in DOMAIN rows /\ rows'[m] = rows[m]
      BY <2>1, <2>2, <2>3, RowsTyped
    <3>3. rows[m].moment <= clock /\ rows[m].moment \in Nat /\ clock \in Nat
      BY <3>2, RowsTyped DEF FreshInv, MomentsInv, TypeOK, TriggerRow, Moments
    <3> QED
      BY <3>1, <3>2, <3>3
  <2>4. CASE ~ (OutcomeWritten /\ k = cur)
    <3>1. next'[k] = next[k]
      BY <2>1, <2>4 DEF TypeOK
    <3>2. ASSUME FiredWritten, j = cur, NEW x \in Fires(j), rows'[x].moment >= next'[k]
          PROVE  FALSE
      <4>1. x < Len(rows) /\ rows'[x] = rows[x]
        BY <2>1, <2>2, <3>2
      <4>2. next[j] > next[k]
        BY <3>1, <3>2, <4>1, PassedIsBehind
      <4>3. next[j] <= next[k]
        BY <2>1, <3>2 DEF LoopInv
      <4> QED
        BY <4>2, <4>3 DEF TypeOK
    <3>3. CASE m \in Fires(j) /\ n \in Fires(j)
      BY <2>1, <2>2, <3>1, <3>3 DEF AtMostOneAhead
    <3> QED
      BY <2>2, <3>2, <3>3
  <2> QED
    BY <2>3, <2>4
<1> QED
  BY <1>1, <1>2, RowSteps

\* No step passes over a slot but for its own trigger's run.
LEMMA SkipStep ==
    TypeOK /\ LoopInv /\ BracketInv /\ SkippedOnlyWhileBusy /\ [Next]_vars
        => SkippedOnlyWhileBusy'
<1> SUFFICES ASSUME TypeOK, LoopInv, BracketInv, SkippedOnlyWhileBusy, [Next]_vars
             PROVE  SkippedOnlyWhileBusy'
  OBVIOUS
<1>1. CASE Quiet
  BY <1>1 DEF Quiet, SkippedOnlyWhileBusy, Fires
<1>2. CASE Scheduled \/ FiredWritten \/ OutcomeWritten
  <2>1. PICK event \in {"scheduled", "fired"} \cup Outcomes :
              /\ cur \in Armed /\ next[cur] \in Nat /\ clock \in Nat
              /\ Len(rows) \in Nat /\ DOMAIN rows = 1 .. Len(rows)
              /\ Len(rows') = Len(rows) + 1 /\ DOMAIN rows' = 1 .. Len(rows) + 1
              /\ \A n \in DOMAIN rows : rows'[n] = rows[n]
              /\ rows'[Len(rows) + 1] =
                    [event |-> event, trig |-> cur, slot |-> next[cur], moment |-> clock]
              /\ event \in Outcomes <=> OutcomeWritten
              /\ OutcomeWritten => at = "outcome" /\ next' = [next EXCEPT ![cur] = NextFromNow]
              /\ ~ OutcomeWritten => next' = next
    BY <1>2, Written
  <2> SUFFICES ASSUME NEW k \in Armed, NEW n \in DOMAIN rows', rows'[n].event = "scheduled",
                      rows'[n].trig = k, NEW slot \in Triggers[k].cron,
                      rows'[n].slot <= slot, slot < next'[k]
               PROVE  \E m \in Fires(k)' :
                          /\ m < Len(rows') /\ rows'[m].slot <= slot
                          /\ slot <= rows'[m + 1].moment
    BY DEF SkippedOnlyWhileBusy
  <2>2. slot \in Nat /\ next[k] \in Nat
    BY Sizes DEF TypeOK
  <2>3. Fires(k) \subseteq Fires(k)' /\ Fires(k) \subseteq 1 .. Len(rows)
    BY <1>2, FiresAfter
  <2>4. CASE n = Len(rows) + 1
    <3>1. ~ OutcomeWritten /\ k = cur /\ rows'[n].slot = next[cur]
      BY <2>1, <2>4 DEF Outcomes
    <3> QED
      BY <2>1, <2>2, <3>1
  <2>5. CASE n \in DOMAIN rows /\ slot < next[k]
    <3>1. PICK m \in Fires(k) :
              m < Len(rows) /\ rows[m].slot <= slot /\ slot <= rows[m + 1].moment
      BY <2>1, <2>5 DEF SkippedOnlyWhileBusy
    <3>2. m \in 1 .. Len(rows) /\ m + 1 \in 1 .. Len(rows) /\ m < Len(rows')
      BY <2>1, <2>3, <3>1
    <3>3. rows'[m] = rows[m] /\ rows'[m + 1] = rows[m + 1]
      BY <2>1, <3>2
    <3> QED
      BY <2>3, <3>1, <3>2, <3>3
  <2>6. CASE n \in DOMAIN rows /\ ~ (slot < next[k])
    <3>1. OutcomeWritten /\ k = cur /\ next'[k] = NextFromNow
      BY <2>1, <2>2, <2>6 DEF TypeOK
    <3>2. slot <= clock
      <4>1. \A other \in Triggers[cur].cron : other > clock => NextFromNow <= other
        BY <2>1, NextFireIsNext DEF NextFromNow, TypeOK
      <4>2. NextFromNow \in Nat
        BY <2>1, NextFireIsNext DEF NextFromNow, TypeOK
      <4> QED
        BY <2>1, <2>2, <3>1, <4>1, <4>2
    <3>3. /\ Len(rows) \in DOMAIN rows /\ rows[Len(rows)].event = "fired"
          /\ rows[Len(rows)].trig = cur /\ rows[Len(rows)].slot = next[cur]
      BY <2>1, <3>1, EmptySeq DEF BracketInv, RunInv, TypeOK
    <3>4. Len(rows) \in Fires(k)
      BY <3>1, <3>3 DEF Fires
    <3>5. /\ rows'[Len(rows)].slot <= slot /\ slot <= rows'[Len(rows) + 1].moment
          /\ Len(rows) < Len(rows')
      BY <2>1, <2>2, <2>6, <3>1, <3>2, <3>3
    <3> QED
      BY <2>3, <3>4, <3>5
  <2>7. n \in DOMAIN rows \/ n = Len(rows) + 1
    BY <2>1
  <2> QED
    BY <2>4, <2>5, <2>6, <2>7
<1> QED
  BY <1>1, <1>2, RowSteps

-----------------------------------------------------------------------------
(***************************************************************************)
(* The invariant, and what follows from it.                                *)
(***************************************************************************)
SchedulerInv ==
    TypeOK /\ LoopInv /\ BracketInv /\ FreshInv /\ AtMostOneAhead /\ SkippedOnlyWhileBusy

\* The invariant holds in every reachable state.
LEMMA SchedulerInvariant == Spec => []SchedulerInv
<1>1. Init => SchedulerInv
  <2>1. Init => AtMostOneAhead /\ SkippedOnlyWhileBusy
    BY DEF Init, AtMostOneAhead, SkippedOnlyWhileBusy, Fires
  <2> QED
    BY <2>1, TypeInit, LoopInit, BracketInit, FreshInit DEF SchedulerInv
<1>2. SchedulerInv /\ [Next]_vars => SchedulerInv'
  BY TypeStep, LoopStep, BracketStep, FreshStep, AheadStep, SkipStep DEF SchedulerInv
<1> QED
  BY <1>1, <1>2, PTL DEF Spec

(***************************************************************************)
(* Runs never overlap and each gets its one outcome row (scheduler.py,     *)
(* _fire).                                                                 *)
(***************************************************************************)
THEOREM OneRunAtATime == Spec => []RowsBracketed
<1>1. SchedulerInv => RowsBracketed
  BY DEF SchedulerInv, BracketInv
<1> QED
  BY <1>1, SchedulerInvariant, PTL

(***************************************************************************)
(* A fire is for a slot of its trigger that has come, after the end of the *)
(* trigger's run before (scheduler.py, _next_fire and tick).               *)
(***************************************************************************)
THEOREM SlotsAreFresh == Spec => []FiresFreshSlots
<1>1. SchedulerInv => FiresFreshSlots
  BY DEF SchedulerInv, FreshInv
<1> QED
  BY <1>1, SchedulerInvariant, PTL

(***************************************************************************)
(* However many triggers there are, a due one waits for at most one run of *)
(* each other one (scheduler.py, tick).                                    *)
(***************************************************************************)
THEOREM WaitsOneRunEach == Spec => []AtMostOneAhead
<1>1. SchedulerInv => AtMostOneAhead
  BY DEF SchedulerInv
<1> QED
  BY <1>1, SchedulerInvariant, PTL

(***************************************************************************)
(* A slot is passed over only for a fire of its own trigger that is        *)
(* overdue or running (scheduler.py, tick).                                *)
(***************************************************************************)
THEOREM NoSlotIsLost == Spec => []SkippedOnlyWhileBusy
<1>1. SchedulerInv => SkippedOnlyWhileBusy
  BY DEF SchedulerInv
<1> QED
  BY <1>1, SchedulerInvariant, PTL

-----------------------------------------------------------------------------
(***************************************************************************)
(* The agenda.                                                             *)
(***************************************************************************)

\* The next slot is what the agenda calls the first one to come.
LEMMA NextIsFirst ==
    ASSUME NEW k \in Armed, NEW after \in Moments
    PROVE  /\ NextFire(k, after) \in Triggers[k].cron
           /\ A!FirstAfter(NextFire(k, after), k, after)
  BY NextFireIsNext DEF A!FirstAfter

\* The scheduler starts as the agenda does.
LEMMA AgendaInit == Init => A!Init
<1> SUFFICES ASSUME Init PROVE A!Init
  OBVIOUS
<1>1. clock \in Nat /\ clock \in Moments
  BY Sizes DEF Init, Moments
<1>2. next \in [Armed -> Nat]
  BY TypeInit DEF TypeOK
<1>3. \A k \in Armed : A!FirstAfter(next[k], k, clock)
  BY <1>1, NextIsFirst DEF Init
<1>4. UnderWay = {}
  BY DEF Init, UnderWay
<1> QED
  BY <1>1, <1>2, <1>3, <1>4 DEF A!Init

\* The row a step writes decides what is under way after it.
LEMMA UnderWayAfter ==
    ASSUME TypeOK, cur \in Armed, NEW event, Record(event)
    PROVE  UnderWay' = IF event = "fired" THEN {cur} ELSE {}
<1>1. /\ DOMAIN rows' = 1 .. Len(rows) + 1 /\ Len(rows) \in Nat
      /\ Len(rows') = Len(rows) + 1
      /\ rows'[Len(rows) + 1] =
            [event |-> event, trig |-> cur, slot |-> next[cur], moment |-> clock]
  BY Grown
<1>2. rows'[Len(rows')].event = event /\ rows'[Len(rows')].trig = cur
  BY <1>1
<1>3. rows' # <<>>
  BY <1>1
<1> QED
  BY <1>2, <1>3 DEF UnderWay

\* Every step of the scheduler is a step of the agenda or none at all.
LEMMA AgendaStep == TypeOK /\ LoopInv /\ RunInv /\ [Next]_vars => [A!Next]_(A!agendaVars)
<1> SUFFICES ASSUME TypeOK, LoopInv, RunInv, [Next]_vars
             PROVE  [A!Next]_(A!agendaVars)
  OBVIOUS
<1>1. clock \in Nat /\ clock \in Moments /\ clock' \in Nat
  BY TypeStep, Sizes DEF TypeOK, Moments
<1>2. CASE Quiet
  <2>1. UnderWay' = UnderWay
    BY <1>2 DEF Quiet, UnderWay
  <2> QED
    BY <1>1, <1>2, <2>1 DEF Quiet, A!Next, A!Pass
<1>3. CASE Scheduled
  <2>1. at = "off" /\ next' = next /\ clock' = clock
    BY <1>3 DEF Scheduled, Announce, LoopInv
  <2>2. UnderWay = {} /\ UnderWay' = {}
    BY <1>3, <2>1, UnderWayAfter DEF Scheduled, RunInv, UnderWay
  <2> QED
    BY <2>1, <2>2 DEF A!agendaVars
<1>4. CASE FiredWritten
  <2>1. /\ at = "fired" /\ cur \in Armed /\ Record("fired")
        /\ UNCHANGED <<clock, next>>
    BY <1>4 DEF FiredWritten, TypeOK
  <2>2. UnderWay = {} /\ UnderWay' = {cur}
    BY <2>1, UnderWayAfter DEF RunInv, UnderWay
  <2>3. A!Begin(cur)
    BY <2>1, <2>2 DEF LoopInv, A!Begin
  <2> QED
    BY <2>1, <2>3 DEF A!Next
<1>5. CASE OutcomeWritten
  <2>1. /\ at = "outcome" /\ cur \in Armed /\ Record(outcome) /\ outcome # "fired"
        /\ clock' = clock /\ next' = [next EXCEPT ![cur] = NextFromNow]
    BY <1>5 DEF OutcomeWritten, TypeOK, Outcomes
  <2>2. UnderWay = {cur} /\ UnderWay' = {}
    BY <2>1, UnderWayAfter DEF RunInv, UnderWay
  <2>3. NextFromNow \in Triggers[cur].cron /\ A!FirstAfter(NextFromNow, cur, clock)
    BY <1>1, <2>1, NextIsFirst DEF NextFromNow
  <2>4. A!End(cur)
    BY <2>1, <2>2, <2>3 DEF A!End
  <2> QED
    BY <2>1, <2>4 DEF A!Next
<1> QED
  BY <1>2, <1>3, <1>4, <1>5, RowSteps

(***************************************************************************)
(* For every list of triggers the scheduler implements the agenda: the     *)
(* earliest slot first, one run at a time, and no slot made up for after   *)
(* its trigger's own run (scheduler.py, tick).                             *)
(***************************************************************************)
THEOREM AgendaImplemented == Spec => AgendaKept
<1>1. SchedulerInv => TypeOK /\ LoopInv /\ RunInv
  BY DEF SchedulerInv, BracketInv
<1> QED
  BY <1>1, AgendaInit, AgendaStep, SchedulerInvariant, PTL DEF Spec, AgendaKept, A!Spec
=============================================================================
