------------------------------- MODULE Webhook -------------------------------
(***************************************************************************)
(* Webhook triggers: the route POST /v1/hook/{trigger_id}                  *)
(* (caesar/praetor/routes/webhook.py) and its WebhookDispatcher            *)
(* (caesar/proactive/webhook_dispatcher.py).                               *)
(*                                                                         *)
(* The route checks the cooldown, awaits the webhook.received row and      *)
(* answers 202; the fire it spawns runs later, as a task of its own, and   *)
(* marks the trigger as fired only then.  Posts run concurrently.  Uvicorn *)
(* lets running requests finish before the lifespan calls stop().          *)
(***************************************************************************)
EXTENDS Integers, Sequences, FiniteSets

CONSTANTS
    Posts,         \* the POST requests
    Names,         \* trigger ids a request may name
    Armed,         \* the enabled webhook triggers
    CooldownOf,    \* their cooldown_seconds, 0 for None
    MaxTime,       \* bound: the last moment
    MaxFailures,   \* bound: audit writes that fail
    NoRow, NoName

ASSUME WebhookAssumption ==
    /\ Armed \subseteq Names /\ NoName \notin Names
    /\ CooldownOf \in [Armed -> Nat]
    /\ MaxTime \in Nat /\ MaxFailures \in Nat
    /\ IsFiniteSet(Posts)
    /\ NoRow \notin [count : Nat, first : Nat, last : Nat]

VARIABLES
    phase,      \* running, stopping, stopped or failed (stop() raised)
    clock,      \* the present moment
    failures,   \* audit writes that failed
    pc,         \* where a request, and then the task it spawned, is
    target,     \* the trigger a request names
    status,     \* the response, 0 before it
    last,       \* dispatcher._last_fired
    pending,    \* dispatcher._suppressed
    row,        \* the trigger.suppressed row a fire is writing
    stopRow,    \* the one stop() is writing, with its trigger
    told,       \* the number of matches the written rows count, per trigger
    hits,       \* history: requests answered 429, per trigger
    judgedAt,   \* history: when a request's cooldown was checked
    firedAt,    \* history: when its fire was marked
    cut         \* history: triggers that lost a trigger.suppressed row

coolVars == <<last, pending, row, stopRow, told, hits, firedAt, cut>>
vars == <<phase, clock, failures, pc, target, status, judgedAt, coolVars>>

Never == -1

Init ==
    /\ phase = "running" /\ clock = 0 /\ failures = 0
    /\ pc = [r \in Posts |-> "new"]
    /\ target = [r \in Posts |-> NoName]
    /\ status = [r \in Posts |-> 0]
    /\ last = [k \in Armed |-> Never]
    /\ pending = [k \in Armed |-> NoRow]
    /\ row = [r \in Posts |-> NoRow]
    /\ stopRow = <<NoName, NoRow>>
    /\ told = [k \in Armed |-> 0]
    /\ hits = [k \in Armed |-> 0]
    /\ judgedAt = [r \in Posts |-> Never]
    /\ firedAt = [r \in Posts |-> Never]
    /\ cut = {}

Goto(r, where) == pc' = [pc EXCEPT ![r] = where]

Respond(r, code) ==
    /\ status' = [status EXCEPT ![r] = code]
    /\ Goto(r, "done")

AuditFails ==
    /\ failures < MaxFailures
    /\ failures' = failures + 1

-----------------------------------------------------------------------------
(***************************************************************************)
(* The route, from the request body to the response.                       *)
(***************************************************************************)
Arrives(r, k) ==
    /\ phase = "running" /\ pc[r] = "new"
    /\ target' = [target EXCEPT ![r] = k]

TooLarge(r, k) ==
    /\ Arrives(r, k)
    /\ Respond(r, 413)
    /\ UNCHANGED <<phase, clock, failures, judgedAt, coolVars>>

\* Both refusals await an audit row; when that fails the server answers 500.  It does so,
\* too, when the bearer token is not ASCII: the comparison in verify_bearer raises.
Unknown(r, k) ==
    /\ Arrives(r, k) /\ k \notin Armed
    /\ \/ Respond(r, 404) /\ UNCHANGED failures
       \/ Respond(r, 500) /\ AuditFails
    /\ UNCHANGED <<phase, clock, judgedAt, coolVars>>

Unauthorized(r, k) ==
    /\ Arrives(r, k) /\ k \in Armed
    /\ \/ \E code \in {401, 500} : Respond(r, code) /\ UNCHANGED failures
       \/ Respond(r, 500) /\ AuditFails
    /\ UNCHANGED <<phase, clock, judgedAt, coolVars>>

IsInCooldownInclusive(k) ==               \* slip: <= for <
    last[k] # Never /\ clock - last[k] <= CooldownOf[k]
IsInCooldown(k) == last[k] # Never /\ clock - last[k] < CooldownOf[k]

Judge(r) == judgedAt' = [judgedAt EXCEPT ![r] = clock]

Counted(k) ==
    IF pending[k] = NoRow THEN [count |-> 1, first |-> clock, last |-> clock]
    ELSE [count |-> pending[k].count + 1, first |-> pending[k].first, last |-> clock]

Suppress(r, k) ==
    /\ Arrives(r, k) /\ k \in Armed /\ IsInCooldown(k)
    /\ Judge(r)
    /\ pending' = [pending EXCEPT ![k] = Counted(k)]
    /\ hits' = [hits EXCEPT ![k] = @ + 1]
    /\ Respond(r, 429)
    /\ UNCHANGED <<phase, clock, failures, last, row, stopRow, told, firedAt, cut>>

Accept(r, k) ==
    /\ Arrives(r, k) /\ k \in Armed /\ ~IsInCooldown(k)
    /\ Judge(r)
    /\ Goto(r, "recording")
    /\ UNCHANGED <<phase, clock, failures, status, coolVars>>

\* The webhook.received row is in; the fire is spawned and 202 answered.
Received(r) ==
    /\ pc[r] = "recording"
    /\ status' = [status EXCEPT ![r] = 202]
    /\ Goto(r, "spawned")
    /\ UNCHANGED <<phase, clock, failures, target, judgedAt, coolVars>>

ReceivedFails(r) ==
    /\ pc[r] = "recording"
    /\ AuditFails
    /\ Respond(r, 500)
    /\ UNCHANGED <<phase, clock, target, judgedAt, coolVars>>

-----------------------------------------------------------------------------
(***************************************************************************)
(* fire(), as a task: flush the pending row, mark the fire, run the brain. *)
(***************************************************************************)
Alive == phase # "stopped"

MarkFiredOnce(r) ==                       \* slip: only the first fire starts a cooldown
    /\ last' = [last EXCEPT ![target[r]] = IF @ = Never THEN clock ELSE @]
    /\ firedAt' = [firedAt EXCEPT ![r] = clock]
    /\ Goto(r, "firing")
MarkFired(r) ==
    /\ last' = [last EXCEPT ![target[r]] = clock]
    /\ firedAt' = [firedAt EXCEPT ![r] = clock]
    /\ Goto(r, "firing")

Fire(r) ==
    /\ Alive /\ pc[r] = "spawned" /\ pending[target[r]] = NoRow
    /\ MarkFired(r)
    /\ UNCHANGED <<phase, clock, failures, target, status, judgedAt, pending, row,
                   stopRow, told, hits, cut>>

PoppedLate(k) == pending                  \* slip: get for pop
Popped(k) == [pending EXCEPT ![k] = NoRow]

FlushFirst(r) ==
    /\ Alive /\ pc[r] = "spawned" /\ pending[target[r]] # NoRow
    /\ row' = [row EXCEPT ![r] = pending[target[r]]]
    /\ pending' = Popped(target[r])
    /\ Goto(r, "flushing")
    /\ UNCHANGED <<phase, clock, failures, target, status, judgedAt, last, stopRow,
                   told, hits, firedAt, cut>>

FlushWritten(r) ==
    /\ Alive /\ pc[r] = "flushing"
    /\ told' = [told EXCEPT ![target[r]] = @ + row[r].count]
    /\ row' = [row EXCEPT ![r] = NoRow]
    /\ MarkFired(r)
    /\ UNCHANGED <<phase, clock, failures, target, status, judgedAt, pending, stopRow,
                   hits, cut>>

\* The write raises before the try block: the task dies and the brain never runs.
FlushFails(r) ==
    /\ Alive /\ pc[r] = "flushing"
    /\ AuditFails
    /\ row' = [row EXCEPT ![r] = NoRow]
    /\ cut' = cut \cup {target[r]}
    /\ Goto(r, "lost")
    /\ UNCHANGED <<phase, clock, target, status, judgedAt, last, pending, stopRow,
                   told, hits, firedAt>>

FireReturns(r) ==
    /\ Alive /\ pc[r] = "firing"
    /\ Goto(r, "done")
    /\ UNCHANGED <<phase, clock, failures, target, status, judgedAt, coolVars>>

FireRaises(r) ==
    /\ Alive /\ pc[r] = "firing"
    /\ Goto(r, "reporting")
    /\ UNCHANGED <<phase, clock, failures, target, status, judgedAt, coolVars>>

\* The trigger.error row is written or raises; the task ends either way.
Reported(r) ==
    /\ Alive /\ pc[r] = "reporting"
    /\ Goto(r, "done")
    /\ UNCHANGED failures \/ AuditFails
    /\ UNCHANGED <<phase, clock, target, status, judgedAt, coolVars>>

-----------------------------------------------------------------------------
(***************************************************************************)
(* stop(): flush what is pending, then await the fires still running.      *)
(***************************************************************************)
Running == {r \in Posts : pc[r] \in {"spawned", "flushing", "firing", "reporting"}}

Stop ==
    /\ phase = "running" /\ \A r \in Posts : pc[r] # "recording"
    /\ phase' = "stopping"
    /\ UNCHANGED <<clock, failures, pc, target, status, judgedAt, coolVars>>

StopFlush(k) ==
    /\ phase = "stopping" /\ stopRow[2] = NoRow /\ pending[k] # NoRow
    /\ stopRow' = <<k, pending[k]>>
    /\ pending' = Popped(k)
    /\ UNCHANGED <<phase, clock, failures, pc, target, status, judgedAt, last, row,
                   told, hits, firedAt, cut>>

StopFlushWritten ==
    /\ phase = "stopping" /\ stopRow[2] # NoRow
    /\ told' = [told EXCEPT ![stopRow[1]] = @ + stopRow[2].count]
    /\ stopRow' = <<NoName, NoRow>>
    /\ UNCHANGED <<phase, clock, failures, pc, target, status, judgedAt, last, pending,
                   row, hits, firedAt, cut>>

StopFlushFails ==
    /\ phase = "stopping" /\ stopRow[2] # NoRow
    /\ AuditFails
    /\ phase' = "failed"
    /\ cut' = cut \cup {stopRow[1]}
    /\ stopRow' = <<NoName, NoRow>>
    /\ UNCHANGED <<clock, pc, target, status, judgedAt, last, pending, row, told, hits,
                   firedAt>>

StoppedAtOnce ==                          \* slip: the running fires are not awaited
    /\ phase = "stopping" /\ stopRow[2] = NoRow
    /\ \A k \in Armed : pending[k] = NoRow
    /\ phase' = "stopped"
    /\ UNCHANGED <<clock, failures, pc, target, status, judgedAt, coolVars>>
Stopped ==
    /\ phase = "stopping" /\ stopRow[2] = NoRow
    /\ \A k \in Armed : pending[k] = NoRow
    /\ Running = {}
    /\ phase' = "stopped"
    /\ UNCHANGED <<clock, failures, pc, target, status, judgedAt, coolVars>>

Tick ==
    /\ Alive /\ clock < MaxTime
    /\ clock' = clock + 1
    /\ UNCHANGED <<phase, failures, pc, target, status, judgedAt, coolVars>>

Route(r) == \/ \E k \in Names : \/ TooLarge(r, k) \/ Unknown(r, k) \/ Unauthorized(r, k)
                                \/ Suppress(r, k) \/ Accept(r, k)
            \/ Received(r) \/ ReceivedFails(r)
Task(r)  == \/ Fire(r) \/ FlushFirst(r) \/ FlushWritten(r) \/ FlushFails(r)
            \/ FireReturns(r) \/ FireRaises(r) \/ Reported(r)
Stopping == \/ StopFlushWritten \/ StopFlushFails \/ Stopped
            \/ \E k \in Armed : StopFlush(k)

Next == \/ \E r \in Posts : Route(r) \/ Task(r)
        \/ Stop \/ Stopping \/ Tick

Spec == Init /\ [][Next]_vars

\* Tasks are scheduled and audit writes end; a brain run returns or raises.
FairSpec == Spec /\ WF_vars(Stopping) /\ \A r \in Posts : WF_vars(Task(r))

-----------------------------------------------------------------------------
(***************************************************************************)
(* Properties.                                                             *)
(***************************************************************************)
Moments == 0 .. MaxTime
SupRow == [count : Nat \ {0}, first : Moments, last : Moments]

RouteTypeOK ==
    /\ phase \in {"running", "stopping", "stopped", "failed"}
    /\ clock \in Moments /\ failures \in 0 .. MaxFailures
    /\ pc \in [Posts -> {"new", "recording", "spawned", "flushing", "firing",
                         "reporting", "done", "lost"}]
    /\ target \in [Posts -> Names \cup {NoName}]
    /\ \A r \in Posts : pc[r] \notin {"new", "done"} => target[r] \in Armed
    /\ status \in [Posts -> {0, 202, 401, 404, 413, 429, 500}]
    /\ judgedAt \in [Posts -> Moments \cup {Never}]
    /\ firedAt \in [Posts -> Moments \cup {Never}]

CoolTypeOK ==
    /\ last \in [Armed -> Moments \cup {Never}]
    /\ pending \in [Armed -> SupRow \cup {NoRow}]
    /\ row \in [Posts -> SupRow \cup {NoRow}]
    /\ \A r \in Posts : pc[r] = "flushing" => row[r] # NoRow
    /\ stopRow \in (Armed \X SupRow) \cup {<<NoName, NoRow>>}
    /\ told \in [Armed -> Nat] /\ hits \in [Armed -> Nat]
    /\ cut \subseteq Armed

\* Every variable has its type.
TypeOK == RouteTypeOK /\ CoolTypeOK

(***************************************************************************)
(* 429 "only when cooldown_seconds is set and the trigger is in cooldown"  *)
(* (ADR-0032): every refused request was judged within the cooldown of a   *)
(* fire of its trigger.                                                    *)
(***************************************************************************)
Within(moment, fire, k) == fire # Never /\ fire <= moment /\ moment < fire + CooldownOf[k]

RefusalsJustified ==
    \A r \in Posts : status[r] = 429 =>
        \E s \in Posts : /\ target[s] = target[r]
                         /\ Within(judgedAt[r], firedAt[s], target[r])

(***************************************************************************)
(* Two fires of a trigger come closer than its cooldown only when the      *)
(* later one's request was judged before the earlier one fired: there is   *)
(* no other way around the cooldown (is_in_cooldown, fire).                *)
(***************************************************************************)
CloseFiresOverlap ==
    \A r, s \in Posts :
        /\ r # s /\ target[r] = target[s] /\ firedAt[s] # Never
        /\ Within(firedAt[s], firedAt[r], target[r])
        => judgedAt[s] <= firedAt[r]

(***************************************************************************)
(* No refused request is reported twice, and none is forgotten while no    *)
(* row was lost, although fires and stop() flush the same trigger          *)
(* concurrently; nothing is pending after stop().                          *)
(***************************************************************************)
CountOf(r) == IF r = NoRow THEN 0 ELSE r.count

RowCounts(k) == [r \in Posts |-> IF target[r] = k THEN CountOf(row[r]) ELSE 0]

AnyOf(W) == CHOOSE r \in W : TRUE

Total(counts) ==
    LET sum[W \in SUBSET Posts] ==
            IF W = {} THEN 0 ELSE counts[AnyOf(W)] + sum[W \ {AnyOf(W)}]
    IN  sum[Posts]

Unwritten(k) ==
    Total(RowCounts(k)) + CountOf(pending[k])
        + (IF stopRow[1] = k THEN CountOf(stopRow[2]) ELSE 0)

SuppressionsAccounted ==
    \A k \in Armed :
        /\ told[k] + Unwritten(k) <= hits[k]
        /\ k \notin cut => told[k] + Unwritten(k) = hits[k]
        /\ phase = "stopped" => Unwritten(k) = 0

(***************************************************************************)
(* A request that was answered 202 fires, unless the row to be written     *)
(* before the fire cannot be written or stop() itself fails; shutting down *)
(* is no excuse (webhook_dispatcher.py, stop).                             *)
(***************************************************************************)
AcceptedIsFired ==
    \A r \in Posts :
        status[r] = 202 ~> firedAt[r] # Never \/ pc[r] = "lost" \/ phase = "failed"

(***************************************************************************)
(* A request that was judged and is not yet marked as fired is under way.  *)
(* While no two requests for one trigger are, each trigger keeps the       *)
(* promise of its cooldown ("inside the cooldown window, repeat POSTs      *)
(* return 429", docs/PROACTIVE-CAESAR.md; is_in_cooldown, fire).           *)
(***************************************************************************)
CD(k) == INSTANCE Cooldown WITH Seconds <- CooldownOf[k],
            time <- clock, last <- last[k], refused <- hits[k]

CooldownKept ==
    /\ \A k \in Armed : CD(k)!Init
    /\ [][\A k \in Armed : [CD(k)!Next]_(CD(k)!cooldownVars)]_vars

UnderWay == {r \in Posts : pc[r] \in {"recording", "spawned", "flushing"}}

OneByOne == \A r, s \in UnderWay : target[r] = target[s] => r = s
=============================================================================
