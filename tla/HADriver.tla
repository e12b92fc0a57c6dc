------------------------------ MODULE HADriver ------------------------------
(***************************************************************************)
(* The Home Assistant event driver (caesar/proactive/ha_driver.py) on its  *)
(* resilient stream (caesar/ha/subscription.py): one task that connects,   *)
(* reads events, walks the armed triggers for each of them and awaits the  *)
(* brain, while the clock runs, the link breaks, audit writes fail and     *)
(* Praetor's shutdown cancels it.                                          *)
(*                                                                         *)
(* `at` is where the stream task awaits or, at "match", the synchronous    *)
(* code between two awaits.  Cancellation strikes at an await only.        *)
(* A moment is a minute; the length of a backoff is not modelled.          *)
(***************************************************************************)
EXTENDS Integers, Sequences, FiniteSets

CONSTANTS
    Triggers,      \* the triggers of triggers.yaml, in file order; their ids, which
                   \* key _last_fired and _suppressed, are taken as distinct
    Events,        \* events Home Assistant may publish
    Any,           \* an absent constraint of a source
    Day,           \* minutes in a day
    MaxTime,       \* bound: the last moment
    MaxEvents,     \* bound: events delivered
    MaxInbox,      \* bound: events waiting in the socket
    MaxFailures,   \* bound: audit writes that fail while the task runs
    NoRow

StateChanged == "state_changed"

(***************************************************************************)
(* HASource requires the event type state_changed of a source that names   *)
(* an entity or a state.  A cooldown is at least 1; 0 stands for None.     *)
(***************************************************************************)
Trigger == [enabled : BOOLEAN, kind : {"ha", "schedule", "webhook"},
            type : STRING, entity : STRING \cup {Any}, to : STRING \cup {Any},
            window : ((0 .. Day - 1) \X (0 .. Day - 1)) \cup {Any},
            zone : Nat, cooldown : Nat]

Idxs == 1 .. Len(Triggers)

ASSUME TriggersAssumption ==
    /\ Triggers \in Seq(Trigger)
    /\ \A k \in Idxs : Triggers[k].type # StateChanged =>
          Triggers[k].entity = Any /\ Triggers[k].to = Any

ASSUME BoundsAssumption ==
    /\ Day \in Nat \ {0}
    /\ {MaxTime, MaxEvents, MaxInbox, MaxFailures} \subseteq Nat

ASSUME NoRowAssumption == NoRow \notin [count : Nat, first : Nat, last : Nat]

VARIABLES
    phase,      \* new, running, closing, flushing, stopped or failed
    clock,      \* the present moment
    link,       \* the WebSocket is open
    inbox,      \* events received on it and not yet read
    sent,       \* events delivered so far
    failures,   \* audit writes that failed
    at,         \* where the stream task is
    event,      \* the event being handled
    seen,       \* `now` in _on_event: when the walk over the triggers began
    i,          \* the trigger the walk has come to
    connects,   \* stream._connect_count
    announced,  \* stream._announced_this_connect
    last,       \* driver._last_fired
    pending,    \* driver._suppressed
    inflight,   \* the trigger.suppressed row being written
    told,       \* the trigger.suppressed rows of each trigger
    streamRows, \* the ha.subscription.* rows
    hits,       \* history: suppressed matches of each trigger
    fires,      \* history: the moments each trigger fired at
    cut         \* history: triggers that lost a trigger.suppressed row

streamVars == <<link, inbox, sent, connects, announced, streamRows>>
coolVars   == <<last, pending, inflight, told, hits, fires, cut>>
vars == <<phase, clock, failures, at, event, seen, i, streamVars, coolVars>>

Never == -1

Init ==
    /\ phase = "new" /\ clock = 0
    /\ link = FALSE /\ inbox = <<>> /\ sent = 0 /\ failures = 0
    /\ at = "off" /\ event = Any /\ seen = 0 /\ i = 1
    /\ connects = 0 /\ announced = FALSE
    /\ last = [k \in Idxs |-> Never]
    /\ pending = [k \in Idxs |-> NoRow]
    /\ inflight = NoRow
    /\ told = [k \in Idxs |-> <<>>]
    /\ streamRows = <<>>
    /\ hits = [k \in Idxs |-> 0]
    /\ fires = [k \in Idxs |-> {}]
    /\ cut = {}

-----------------------------------------------------------------------------
(***************************************************************************)
(* The matcher.                                                            *)
(***************************************************************************)
Armed == {k \in Idxs : Triggers[k].enabled /\ Triggers[k].kind = "ha"}

\* The subscription names an event type when all armed triggers share one.
Subscribed(e) ==
    LET types == {Triggers[k].type : k \in Armed}
    IN  Cardinality(types) = 1 => e.type \in types

MinuteOf(k, moment) == (moment + Triggers[k].zone) % Day

InWindowInclusive(window, minute) ==      \* slip: the end minute still counts
    LET start == window[1]  end == window[2]
    IN  IF start <= end THEN start <= minute /\ minute <= end
                        ELSE minute >= start \/ minute <= end
InWindow(window, minute) ==
    LET start == window[1]  end == window[2]
    IN  IF start <= end THEN start <= minute /\ minute < end
                        ELSE minute >= start \/ minute < end

Matches(k, e, moment) ==
    LET source == Triggers[k]
    IN  /\ k \in Armed
        /\ e.type = source.type
        /\ source.entity \in {Any, e.entity}
        /\ source.to \in {Any, e.state}
        /\ source.window # Any => InWindow(source.window, MinuteOf(k, moment))

IsInCooldownInclusive(k) ==               \* slip: <= for <
    last[k] # Never /\ seen - last[k] <= Triggers[k].cooldown
IsInCooldown(k) == last[k] # Never /\ seen - last[k] < Triggers[k].cooldown

-----------------------------------------------------------------------------
(***************************************************************************)
(* The stream: connect, announce, read, back off.                          *)
(***************************************************************************)
Start ==
    /\ phase = "new"
    /\ phase' = "running" /\ at' = "connect"
    /\ UNCHANGED <<clock, failures, event, seen, i, streamVars, coolVars>>

StartFails ==
    /\ phase = "new" /\ Armed # {} /\ failures < MaxFailures
    /\ phase' = "failed" /\ failures' = failures + 1
    /\ UNCHANGED <<clock, at, event, seen, i, streamVars, coolVars>>

ConnectSucceeds ==
    /\ at = "connect"
    /\ at' = "listen" /\ link' = TRUE
    /\ UNCHANGED <<phase, clock, failures, event, seen, i, inbox, sent, connects,
                   announced, streamRows, coolVars>>

ConnectFails ==
    /\ at = "connect"
    /\ at' = "backoff"
    /\ UNCHANGED <<phase, clock, failures, event, seen, i, streamVars, coolVars>>

BackoffOver ==
    /\ at = "backoff"
    /\ at' = "connect"
    /\ UNCHANGED <<phase, clock, failures, event, seen, i, streamVars, coolVars>>

\* The walk over the triggers takes its `now` and starts at the first one.
BeginWalk == at' = "match" /\ seen' = clock /\ i' = 1

\* The event is done with.
EndWalk == event' = Any /\ i' = 1

\* The generator is left: the socket and what it holds are gone.
Disconnect ==
    /\ link' = FALSE /\ inbox' = <<>> /\ announced' = FALSE
    /\ UNCHANGED <<sent, connects>>

Receive ==
    /\ at = "listen" /\ inbox # <<>> /\ announced
    /\ event' = Head(inbox) /\ inbox' = Tail(inbox)
    /\ BeginWalk
    /\ UNCHANGED <<phase, clock, failures, link, sent, connects, announced,
                   streamRows, coolVars>>

ReceiveFirst ==
    /\ at = "listen" /\ inbox # <<>> /\ ~announced
    /\ event' = Head(inbox) /\ inbox' = Tail(inbox)
    /\ connects' = connects + 1
    /\ at' = "announce"
    /\ UNCHANGED <<phase, clock, failures, seen, i, link, sent, announced,
                   streamRows, coolVars>>

LifecycleRow == <<IF connects = 1 THEN "opened" ELSE "reconnected", connects>>

AnnounceWritten ==
    /\ at = "announce"
    /\ streamRows' = Append(streamRows, LifecycleRow)
    /\ announced' = TRUE
    /\ BeginWalk
    /\ UNCHANGED <<phase, clock, failures, event, link, inbox, sent, connects, coolVars>>

AnnounceFails ==
    /\ at = "announce" /\ failures < MaxFailures
    /\ failures' = failures + 1
    /\ at' = "backoff"
    /\ Disconnect /\ EndWalk
    /\ UNCHANGED <<phase, clock, seen, streamRows, coolVars>>

StreamEndsRecounting ==                   \* slip: the connects are counted anew
    /\ at = "listen" /\ inbox = <<>> /\ ~link
    /\ at' = "backoff" /\ connects' = 0
    /\ link' = FALSE /\ announced' = FALSE
    /\ UNCHANGED <<phase, clock, failures, event, seen, i, inbox, sent, streamRows, coolVars>>
StreamEnds ==
    /\ at = "listen" /\ inbox = <<>> /\ ~link
    /\ at' = "backoff"
    /\ Disconnect
    /\ UNCHANGED <<phase, clock, failures, event, seen, i, streamRows, coolVars>>

-----------------------------------------------------------------------------
(***************************************************************************)
(* The walk over the triggers.                                             *)
(***************************************************************************)
Walking == at = "match" /\ i <= Len(Triggers)
Matched == Walking /\ Matches(i, event, seen)

Skip ==
    /\ Walking /\ ~Matched
    /\ i' = i + 1
    /\ UNCHANGED <<phase, clock, failures, at, event, seen, streamVars, coolVars>>

Counted(k) ==
    IF pending[k] = NoRow THEN [count |-> 1, first |-> seen, last |-> seen]
    ELSE [count |-> pending[k].count + 1, first |-> pending[k].first, last |-> seen]

Suppress ==
    /\ Matched /\ IsInCooldown(i)
    /\ pending' = [pending EXCEPT ![i] = Counted(i)]
    /\ hits' = [hits EXCEPT ![i] = @ + 1]
    /\ i' = i + 1
    /\ UNCHANGED <<phase, clock, failures, at, event, seen, streamVars, last,
                   inflight, told, fires, cut>>

MarkFired ==
    /\ last' = [last EXCEPT ![i] = seen]
    /\ fires' = [fires EXCEPT ![i] = @ \cup {seen}]
    /\ at' = "fire"

Fire ==
    /\ Matched /\ ~IsInCooldown(i) /\ pending[i] = NoRow
    /\ MarkFired
    /\ UNCHANGED <<phase, clock, failures, event, seen, i, streamVars, pending,
                   inflight, told, hits, cut>>

Popped(k) == [pending EXCEPT ![k] = NoRow]

FlushFirst ==
    /\ Matched /\ ~IsInCooldown(i) /\ pending[i] # NoRow
    /\ inflight' = pending[i]
    /\ pending' = Popped(i)
    /\ at' = "flush"
    /\ UNCHANGED <<phase, clock, failures, event, seen, i, streamVars, last, told,
                   hits, fires, cut>>

FlushWritten ==
    /\ at = "flush"
    /\ told' = [told EXCEPT ![i] = Append(@, inflight)]
    /\ inflight' = NoRow
    /\ MarkFired
    /\ UNCHANGED <<phase, clock, failures, event, seen, i, streamVars, pending,
                   hits, cut>>

\* The write raises out of _on_event: the trigger does not fire.
FlushFails ==
    /\ at = "flush" /\ failures < MaxFailures
    /\ failures' = failures + 1
    /\ inflight' = NoRow /\ cut' = cut \cup {i}
    /\ at' = "report"
    /\ UNCHANGED <<phase, clock, event, seen, i, streamVars, last, pending, told,
                   hits, fires>>

FireReturns ==
    /\ at = "fire"
    /\ at' = "match" /\ i' = i + 1
    /\ UNCHANGED <<phase, clock, failures, event, seen, streamVars, coolVars>>

\* The brain raises: the later triggers never see this event.
FireRaises ==
    /\ at = "fire"
    /\ at' = "report"
    /\ UNCHANGED <<phase, clock, failures, event, seen, i, streamVars, coolVars>>

WalkDone ==
    /\ at = "match" /\ i > Len(Triggers)
    /\ at' = "listen" /\ EndWalk
    /\ UNCHANGED <<phase, clock, failures, seen, streamVars, coolVars>>

ReportWritten ==
    /\ at = "report"
    /\ streamRows' = Append(streamRows, <<"callback_error", connects>>)
    /\ at' = "listen" /\ EndWalk
    /\ UNCHANGED <<phase, clock, failures, seen, link, inbox, sent,
                   connects, announced, coolVars>>

ReportFailsFatally ==                     \* slip: the failure ends the task
    /\ at = "report" /\ failures < MaxFailures
    /\ failures' = failures + 1
    /\ at' = "ended"
    /\ Disconnect /\ EndWalk
    /\ UNCHANGED <<phase, clock, seen, streamRows, coolVars>>
ReportFails ==
    /\ at = "report" /\ failures < MaxFailures
    /\ failures' = failures + 1
    /\ at' = "backoff"
    /\ Disconnect /\ EndWalk
    /\ UNCHANGED <<phase, clock, seen, streamRows, coolVars>>

-----------------------------------------------------------------------------
(***************************************************************************)
(* stop(): cancel the task at its await, record the close, flush.  A row   *)
(* whose write is cancelled may have reached the database or not.          *)
(***************************************************************************)
Cancel ==
    /\ phase = "running" /\ at # "match"
    /\ phase' = "closing" /\ at' = "ended"
    /\ Disconnect /\ EndWalk
    /\ inflight' = NoRow
    /\ UNCHANGED <<clock, failures, seen, last, pending, hits, fires>>

Stop ==
    /\ Cancel
    /\ \/ at = "announce" /\ streamRows' = Append(streamRows, LifecycleRow)
       \/ at = "report" /\ streamRows' = Append(streamRows, <<"callback_error", connects>>)
       \/ UNCHANGED streamRows
    /\ IF at = "flush" THEN cut' = cut \cup {i} ELSE UNCHANGED cut
    /\ UNCHANGED told

StopAfterFlushWrite ==
    /\ Cancel /\ at = "flush"
    /\ told' = [told EXCEPT ![i] = Append(@, inflight)]
    /\ UNCHANGED <<streamRows, cut>>

RecordClosedOnly ==                       \* slip: the pending rows are not flushed
    /\ phase = "closing"
    /\ streamRows' = Append(streamRows, <<"closed", connects>>)
    /\ phase' = "stopped"
    /\ UNCHANGED <<clock, failures, at, event, seen, i, link, inbox, sent,
                   connects, announced, coolVars>>
RecordClosed ==
    /\ phase = "closing"
    /\ streamRows' = Append(streamRows, <<"closed", connects>>)
    /\ phase' = "flushing"
    /\ UNCHANGED <<clock, failures, at, event, seen, i, link, inbox, sent,
                   connects, announced, coolVars>>

\* The write of the closed row raises out of stop(): nothing is flushed.
RecordClosedFails ==
    /\ phase = "closing" /\ failures < MaxFailures
    /\ failures' = failures + 1 /\ phase' = "failed"
    /\ UNCHANGED <<clock, at, event, seen, i, streamVars, coolVars>>

FlushPending(k) ==
    /\ phase = "flushing" /\ pending[k] # NoRow
    /\ told' = [told EXCEPT ![k] = Append(@, pending[k])]
    /\ pending' = Popped(k)
    /\ UNCHANGED <<phase, clock, failures, at, event, seen, i, streamVars, last,
                   inflight, hits, fires, cut>>

FlushPendingFails(k) ==
    /\ phase = "flushing" /\ pending[k] # NoRow /\ failures < MaxFailures
    /\ failures' = failures + 1 /\ phase' = "failed"
    /\ pending' = Popped(k)
    /\ cut' = cut \cup {k}
    /\ UNCHANGED <<clock, at, event, seen, i, streamVars, last, inflight, told,
                   hits, fires>>

Stopped ==
    /\ phase = "flushing" /\ \A k \in Idxs : pending[k] = NoRow
    /\ phase' = "stopped"
    /\ UNCHANGED <<clock, failures, at, event, seen, i, streamVars, coolVars>>

-----------------------------------------------------------------------------
(***************************************************************************)
(* The surroundings: time, the link and Home Assistant.                    *)
(***************************************************************************)
Tick ==
    /\ phase = "running" /\ clock < MaxTime
    /\ clock' = clock + 1
    /\ UNCHANGED <<phase, failures, at, event, seen, i, streamVars, coolVars>>

Publish(e) ==
    /\ link /\ Subscribed(e) /\ sent < MaxEvents /\ Len(inbox) < MaxInbox
    /\ inbox' = Append(inbox, e) /\ sent' = sent + 1
    /\ UNCHANGED <<phase, clock, failures, at, event, seen, i, link, connects,
                   announced, streamRows, coolVars>>

LinkBreaks ==
    /\ link
    /\ link' = FALSE
    /\ UNCHANGED <<phase, clock, failures, at, event, seen, i, inbox, sent, connects,
                   announced, streamRows, coolVars>>

StreamNext == Start \/ StartFails \/ ConnectSucceeds \/ ConnectFails \/ BackoffOver
              \/ Receive \/ ReceiveFirst \/ AnnounceWritten \/ AnnounceFails \/ StreamEnds
WalkNext   == Skip \/ Suppress \/ Fire \/ FlushFirst \/ FlushWritten \/ FlushFails
              \/ FireReturns \/ FireRaises \/ WalkDone \/ ReportWritten \/ ReportFails
StopNext   == Stop \/ StopAfterFlushWrite \/ RecordClosed \/ RecordClosedFails \/ Stopped
              \/ \E k \in Idxs : FlushPending(k) \/ FlushPendingFails(k)
WorldNext  == Tick \/ LinkBreaks \/ \E e \in Events : Publish(e)

Next == StreamNext \/ WalkNext \/ StopNext \/ WorldNext

Spec == Init /\ [][Next]_vars

(***************************************************************************)
(* The task keeps running, a brain run returns or raises (its loop is      *)
(* bounded), and a connection that keeps being tried succeeds at last.     *)
(***************************************************************************)
FairSpec ==
    /\ Spec
    /\ WF_vars(StreamNext) /\ WF_vars(WalkNext)
    /\ WF_vars(RecordClosed \/ Stopped \/ \E k \in Idxs : FlushPending(k))
    /\ SF_vars(ConnectSucceeds)

-----------------------------------------------------------------------------
(***************************************************************************)
(* Properties.                                                             *)
(***************************************************************************)
Moments == 0 .. MaxTime
StreamRow == {"opened", "reconnected", "callback_error", "closed"} \X Nat
SupRow == [count : Nat \ {0}, first : Moments, last : Moments]

TaskTypeOK ==
    /\ phase \in {"new", "running", "closing", "flushing", "stopped", "failed"}
    /\ clock \in Moments /\ seen \in Moments
    /\ failures \in 0 .. MaxFailures
    /\ at \in {"off", "connect", "backoff", "listen", "announce", "match", "flush",
               "fire", "report", "ended"}
    /\ event \in Events \cup {Any}
    /\ i \in 1 .. Len(Triggers) + 1
    /\ at \in {"flush", "fire"} => i \in Idxs

StreamTypeOK ==
    /\ link \in BOOLEAN /\ announced \in BOOLEAN
    /\ inbox \in Seq(Events) /\ sent \in 0 .. MaxEvents
    /\ connects \in Nat
    /\ streamRows \in Seq(StreamRow)

CoolTypeOK ==
    /\ last \in [Idxs -> Moments \cup {Never}]
    /\ pending \in [Idxs -> SupRow \cup {NoRow}]
    /\ inflight \in SupRow \cup {NoRow}
    /\ at = "flush" => inflight # NoRow
    /\ told \in [Idxs -> Seq(SupRow)]
    /\ hits \in [Idxs -> Nat]
    /\ fires \in [Idxs -> SUBSET Moments]
    /\ cut \in SUBSET Idxs

\* Every variable has its type.
TypeOK == TaskTypeOK /\ StreamTypeOK /\ CoolTypeOK

(***************************************************************************)
(* Each trigger keeps the promise of its cooldown, judged at the moment    *)
(* its events are seen (ha_driver.py, _on_event and _is_in_cooldown).      *)
(***************************************************************************)
CD(k) == INSTANCE Cooldown WITH Seconds <- Triggers[k].cooldown,
            time <- seen, last <- last[k], refused <- hits[k]

CooldownKept ==
    /\ \A k \in Idxs : CD(k)!Init
    /\ [][\A k \in Idxs : [CD(k)!Next]_(CD(k)!cooldownVars)]_vars

InWindowOf(fire, k, row) ==
    fire <= row.first /\ row.first <= row.last /\ row.last < fire + Triggers[k].cooldown

Optional(row) == IF row = NoRow THEN <<>> ELSE <<row>>

RowsOf(k) ==
    told[k] \o (IF i = k THEN Optional(inflight) ELSE <<>>) \o Optional(pending[k])

OneRowPerWindow(k) ==
    LET rows == RowsOf(k)
        within(fire) == {n \in DOMAIN rows : InWindowOf(fire, k, rows[n])}
    IN  /\ \A n \in DOMAIN rows : \E fire \in fires[k] : n \in within(fire)
        /\ \A fire \in fires[k] : \A m, n \in within(fire) : m = n

CountOf(row) == IF row = NoRow THEN 0 ELSE row.count

CountsOf(rows) ==
    LET upTo[n \in 0 .. Len(rows)] == IF n = 0 THEN 0 ELSE upTo[n - 1] + rows[n].count
    IN  upTo[Len(rows)]

ToldCount(k) == CountsOf(told[k])

Reported(k) ==
    ToldCount(k) + CountOf(pending[k]) + (IF i = k THEN CountOf(inflight) ELSE 0)

(***************************************************************************)
(* "One trigger.suppressed audit row per cooldown window": what a row      *)
(* counts lies in the window that one fire opened, and no second row of    *)
(* the trigger starts in that window (ha_driver.py:17-21).  No suppressed  *)
(* match is reported twice, and none is forgotten while no row was lost:   *)
(* the rows written, in flight and pending add up to the matches           *)
(* suppressed, and nothing is pending after stop().                        *)
(***************************************************************************)
SuppressionsAccounted ==
    \A k \in Idxs :
        /\ OneRowPerWindow(k)
        /\ Reported(k) <= hits[k]
        /\ k \notin cut => Reported(k) = hits[k]
        /\ phase = "stopped" => pending[k] = NoRow

(***************************************************************************)
(* The stream's rows tell the connections in order: opened at most once,   *)
(* for the first connect; each reconnected with a greater count; errors    *)
(* carry the connection they happened on; nothing after closed             *)
(* (subscription.py:15-17).                                                *)
(***************************************************************************)
StreamRowsInOrder ==
    \A m, n \in DOMAIN streamRows : m < n =>
        /\ streamRows[m][2] <= streamRows[n][2]
        /\ streamRows[m][1] # "closed"
        /\ streamRows[n][1] # "opened"
        /\ streamRows[n][1] = "reconnected" => streamRows[m][2] < streamRows[n][2]

(***************************************************************************)
(* A trigger with a time window fires on the minutes of the arc that runs  *)
(* from its start forward to its end, midnight included, in its zone       *)
(* (triggers.py, _is_in_window).                                           *)
(***************************************************************************)
Arc(window) ==
    {(window[1] + n) % Day : n \in 0 .. ((window[2] - window[1]) % Day) - 1}

FiresInTheWindow ==
    \A k \in Idxs : Triggers[k].window # Any =>
        \A moment \in fires[k] : MinuteOf(k, moment) \in Arc(Triggers[k].window)

(***************************************************************************)
(* A running driver keeps coming back to its subscription, after broken    *)
(* links, failing brain runs and failing audit writes                      *)
(* (subscription.py:5-19).                                                 *)
(***************************************************************************)
KeepsListening == [](phase = "running" => <>(at = "listen" \/ phase # "running"))
=============================================================================
