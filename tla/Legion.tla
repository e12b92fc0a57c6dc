------------------------------- MODULE Legion -------------------------------
(***************************************************************************)
(* The Legion: Praetor's worker registry (caesar/legion/registry.py), the  *)
(* worker processes (caesar/legion/worker.py) and the NATS bus between     *)
(* them (caesar/bus/client.py).                                            *)
(*                                                                         *)
(* A caller is one coroutine inside Praetor that awaits                    *)
(* WorkerRegistry.dispatch.  A process p runs one Worker subclass, whose   *)
(* worker_id is IdOf[p] and whose capabilities are Build[p]; both are      *)
(* class attributes, so two hosts that run the same class share one id.    *)
(* Processes in InProcess are started by Praetor's own lifespan, the       *)
(* others live on their own hosts.                                         *)
(*                                                                         *)
(* NATS is reliable while it is up, delivers at most once, drops what is   *)
(* published to a subject nobody subscribes to, runs the callback of a     *)
(* subscription for one message at a time, and answers a request that no   *)
(* subscriber can hear with an immediate "no responders" error.            *)
(***************************************************************************)
EXTENDS Naturals, Sequences, FiniteSets

CONSTANTS
    Callers,     \* coroutines of Praetor that dispatch tasks
    Procs,       \* worker processes, on any host
    Ids,         \* worker ids, the subjects legion.<id>.dispatch
    Caps,        \* capabilities
    IdOf,        \* the worker_id each process runs under
    Build,       \* the capabilities each process's class declares
    InProcess,   \* the processes Praetor's lifespan starts
    MaxCalls,    \* bound: dispatches per caller
    MaxStarts,   \* bound: starts per process
    MaxBoots,    \* bound: starts of Praetor
    NoTask, NoId, NoCap

ASSUME LegionAssumption ==
    /\ IdOf \in [Procs -> Ids]
    /\ Build \in [Procs -> (SUBSET Caps) \ {{}}]
    /\ InProcess \subseteq Procs
    /\ MaxCalls \in Nat /\ MaxStarts \in Nat /\ MaxBoots \in Nat
    /\ IsFiniteSet(Ids)
    /\ NoId \notin Ids /\ NoCap \notin Caps

(***************************************************************************)
(* A task id is a fresh uuid4 per dispatch; here, the caller and the       *)
(* number of its dispatch.                                                 *)
(***************************************************************************)
Tasks == Callers \X (1 .. MaxCalls)

ASSUME NoTaskAssumption == NoTask \notin Tasks

VARIABLES
    praetor,   \* Praetor runs and its registry is subscribed
    boots,     \* how often Praetor was started
    known,     \* registry._workers: the capabilities registered under an id
    rank,      \* the id's position in registry._workers, 0 when absent
    cursor,    \* registry._rr: the rank last handed out per capability
    regQ,      \* registrations queued for registry._on_register
    wpc,       \* per process: down, subscribed to its subject, or announced
    starts,    \* how often a process was started
    inbox,     \* dispatches queued at a process's subscription
    job,       \* the task a process's handle() works on
    pc,        \* per caller: idle, waiting in bus.request, recording
    seq,       \* per caller: dispatches so far
    res,       \* per caller: what its last dispatch returned or raised
    want,      \* the capability a task asks for
    to,        \* the worker id a task was published to
    reply,     \* a reply on its way to the waiting caller
    rows,      \* the legion.dispatched rows of the audit log
    verdict,   \* history: what each process made of each task
    begun,     \* history: how often a process entered handle() for a task
    picks      \* history: picks per capability and id since the last rebuild

registryVars == <<known, rank, cursor, regQ, picks>>
workerVars   == <<wpc, starts, inbox, job, verdict, begun>>
callVars     == <<pc, seq, res, want, to, reply>>
legionVars   == <<praetor, boots, registryVars, workerVars, callVars, rows>>

Raised  == {"timeout", "noworker", "unreachable", "aborted", "auditfail"}
Results == {"none", "ok", "failed"} \cup Raised
Registration == [id : Ids, caps : (SUBSET Caps) \ {{}}]
Row     == [task : Tasks, cap : Caps, id : Ids, result : {"ok", "failed"}]

(***************************************************************************)
(* Round robin.  _rr holds one itertools.cycle per capability over the     *)
(* advertising ids in the order of registry._workers; the next id is the   *)
(* first one ranked after the cursor, or the first of all.                 *)
(***************************************************************************)
Members(cap) == {i \in Ids : cap \in known[i]}
Later(cap)   == {i \in Members(cap) : rank[i] > cursor[cap]}
First(S)     == CHOOSE i \in S : \A j \in S : rank[i] <= rank[j]

NextInForgetful(cap) == First(Members(cap))   \* slip: the cycle never advances
NextIn(cap) == IF Later(cap) # {} THEN First(Later(cap)) ELSE First(Members(cap))

(***************************************************************************)
(* The task a caller dispatches next, and the one it awaits.               *)
(***************************************************************************)
Fresh(c)   == <<c, seq[c] + 1>>
Current(c) == <<c, seq[c]>>

ListenersAny(id) == {p \in Procs : wpc[p] # "down"}   \* slip: the subject drops the id
Listeners(id) == {p \in Procs : IdOf[p] = id /\ wpc[p] # "down"}
Waiting(t)    == pc[t[1]] = "waiting" /\ seq[t[1]] = t[2]

Init ==
    /\ praetor = FALSE /\ boots = 0
    /\ known = [i \in Ids |-> {}]
    /\ rank = [i \in Ids |-> 0]
    /\ cursor = [k \in Caps |-> 0]
    /\ regQ = <<>>
    /\ wpc = [p \in Procs |-> "down"]
    /\ starts = [p \in Procs |-> 0]
    /\ inbox = [p \in Procs |-> <<>>]
    /\ job = [p \in Procs |-> NoTask]
    /\ pc = [c \in Callers |-> "idle"]
    /\ seq = [c \in Callers |-> 0]
    /\ res = [c \in Callers |-> "none"]
    /\ want = [t \in Tasks |-> NoCap]
    /\ to = [t \in Tasks |-> NoId]
    /\ reply = [t \in Tasks |-> "none"]
    /\ rows = {}
    /\ verdict = [p \in Procs |-> [t \in Tasks |-> "none"]]
    /\ begun = [p \in Procs |-> [t \in Tasks |-> 0]]
    /\ picks = [k \in Caps |-> [i \in Ids |-> 0]]

-----------------------------------------------------------------------------
(***************************************************************************)
(* Praetor's process.  Starting it creates an empty registry and           *)
(* subscribes it; stopping it, in order or by a crash, loses the registry, *)
(* the queued registrations, the coroutines that await a reply and the     *)
(* workers that run inside it.                                             *)
(***************************************************************************)
StartPraetor ==
    /\ ~praetor /\ boots < MaxBoots
    /\ praetor' = TRUE /\ boots' = boots + 1
    /\ UNCHANGED <<registryVars, workerVars, callVars, rows>>

PraetorDown ==
    /\ praetor
    /\ praetor' = FALSE
    /\ known' = [i \in Ids |-> {}]
    /\ rank' = [i \in Ids |-> 0]
    /\ cursor' = [k \in Caps |-> 0]
    /\ regQ' = <<>>
    /\ picks' = [k \in Caps |-> [i \in Ids |-> 0]]
    /\ wpc' = [p \in Procs |-> IF p \in InProcess THEN "down" ELSE wpc[p]]
    /\ inbox' = [p \in Procs |-> IF p \in InProcess THEN <<>> ELSE inbox[p]]
    /\ job' = [p \in Procs |-> IF p \in InProcess THEN NoTask ELSE job[p]]
    /\ pc' = [c \in Callers |-> "idle"]
    /\ res' = [c \in Callers |-> IF pc[c] = "idle" THEN res[c] ELSE "aborted"]
    /\ UNCHANGED <<boots, starts, verdict, begun, seq, want, to, reply, rows>>

(***************************************************************************)
(* WorkerRegistry._on_register: remember the announced capabilities, at    *)
(* the end of the dict when the id is new, and rebuild every cycle.        *)
(***************************************************************************)
NextRank == Cardinality({i \in Ids : rank[i] > 0}) + 1

Register ==
    /\ praetor /\ regQ # <<>>
    /\ LET id == Head(regQ).id IN
         /\ known' = [known EXCEPT ![id] = Head(regQ).caps]
         /\ rank' = [rank EXCEPT ![id] = IF rank[id] = 0 THEN NextRank ELSE rank[id]]
    /\ cursor' = [k \in Caps |-> 0]
    /\ picks' = [k \in Caps |-> [i \in Ids |-> 0]]
    /\ regQ' = Tail(regQ)
    /\ UNCHANGED <<praetor, boots, workerVars, callVars, rows>>

-----------------------------------------------------------------------------
(***************************************************************************)
(* A worker process.  Worker.start subscribes first and then announces     *)
(* itself once; the announcement is lost when no registry is subscribed.   *)
(***************************************************************************)
MayStartEarly(p) == TRUE      \* slip: the lifespan starts workers before the registry
MayStart(p) == p \in InProcess => praetor

Subscribe(p) ==
    /\ wpc[p] = "down" /\ starts[p] < MaxStarts
    /\ MayStart(p)
    /\ wpc' = [wpc EXCEPT ![p] = "subscribed"]
    /\ starts' = [starts EXCEPT ![p] = @ + 1]
    /\ UNCHANGED <<praetor, boots, registryVars, inbox, job, verdict, begun,
                   callVars, rows>>

Announce(p) ==
    /\ wpc[p] = "subscribed"
    /\ wpc' = [wpc EXCEPT ![p] = "announced"]
    /\ regQ' = IF praetor THEN Append(regQ, [id |-> IdOf[p], caps |-> Build[p]]) ELSE regQ
    /\ UNCHANGED <<praetor, boots, known, rank, cursor, picks, starts, inbox, job,
                   verdict, begun, callVars, rows>>

(***************************************************************************)
(* Worker.stop, or the crash of a remote process: the subscription goes    *)
(* away with its queue, and the handler in flight with its task.           *)
(***************************************************************************)
WorkerDown(p) ==
    /\ wpc[p] # "down" /\ p \notin InProcess
    /\ wpc' = [wpc EXCEPT ![p] = "down"]
    /\ inbox' = [inbox EXCEPT ![p] = <<>>]
    /\ job' = [job EXCEPT ![p] = NoTask]
    /\ UNCHANGED <<praetor, boots, registryVars, starts, verdict, begun, callVars,
                   rows>>

(***************************************************************************)
(* Worker._on_dispatch, once per queued message: enter handle(), and when  *)
(* it returns or raises respond with a TaskResult.  The capability is not  *)
(* looked at.  A reply reaches the caller only while it still waits, and   *)
(* only the first one does; none is sent when the result cannot be written *)
(* as JSON or publishing it raises.                                        *)
(***************************************************************************)
Take(p) ==
    /\ wpc[p] # "down" /\ job[p] = NoTask /\ inbox[p] # <<>>
    /\ LET t == Head(inbox[p]) IN
         /\ job' = [job EXCEPT ![p] = t]
         /\ begun' = [begun EXCEPT ![p][t] = @ + 1]
    /\ inbox' = [inbox EXCEPT ![p] = Tail(@)]
    /\ UNCHANGED <<praetor, boots, registryVars, wpc, starts, verdict, callVars,
                   rows>>

RespondMasked(v) == "ok"      \* slip: an exception is reported as a success
Respond(v) == v

Finish(p, v) ==
    /\ job[p] # NoTask
    /\ LET t == job[p] IN
         /\ verdict' = [verdict EXCEPT ![p][t] = v]
         /\ \/ reply' = IF Waiting(t) /\ reply[t] = "none"
                        THEN [reply EXCEPT ![t] = Respond(v)] ELSE reply
            \/ UNCHANGED reply
    /\ job' = [job EXCEPT ![p] = NoTask]
    /\ UNCHANGED <<praetor, boots, registryVars, wpc, starts, inbox, begun, pc, seq,
                   res, want, to, rows>>

-----------------------------------------------------------------------------
(***************************************************************************)
(* WorkerRegistry.dispatch: pick the next id of the cycle (or raise        *)
(* NoWorkerAvailableError), publish the task, await the reply with a       *)
(* timeout, write the legion.dispatched row, return.  An exception leaves  *)
(* at whatever step it is raised and writes no row.                        *)
(***************************************************************************)
Deliver(id, t) ==
    inbox' = [p \in Procs |-> IF p \in Listeners(id) THEN Append(inbox[p], t) ELSE inbox[p]]

Dispatch(c, cap) ==
    /\ praetor /\ pc[c] = "idle" /\ seq[c] < MaxCalls
    /\ Members(cap) # {}
    /\ LET id == NextIn(cap)
           t  == Fresh(c) IN
         /\ cursor' = [cursor EXCEPT ![cap] = rank[id]]
         /\ picks' = [picks EXCEPT ![cap][id] = @ + 1]
         /\ want' = [want EXCEPT ![t] = cap]
         /\ to' = [to EXCEPT ![t] = id]
         /\ Deliver(id, t)
         /\ pc' = [pc EXCEPT ![c] = IF Listeners(id) # {} THEN "waiting" ELSE "idle"]
         /\ res' = [res EXCEPT ![c] = IF Listeners(id) # {} THEN "none" ELSE "unreachable"]
    /\ seq' = [seq EXCEPT ![c] = @ + 1]
    /\ UNCHANGED <<praetor, boots, known, rank, regQ, wpc, starts, job, verdict, begun,
                   reply, rows>>

DispatchNoWorker(c, cap) ==
    /\ praetor /\ pc[c] = "idle" /\ seq[c] < MaxCalls
    /\ Members(cap) = {}
    /\ seq' = [seq EXCEPT ![c] = @ + 1]
    /\ res' = [res EXCEPT ![c] = "noworker"]
    /\ UNCHANGED <<praetor, boots, registryVars, workerVars, pc, want, to, reply, rows>>

GiveUpRetrying(c) == Deliver(to[Current(c)], Current(c))   \* slip: a timeout resends
GiveUp(c) == inbox' = inbox
MayTimeoutNever(c) == FALSE                                \* slip: no timeout is passed
MayTimeout(c) == pc[c] = "waiting"

Timeout(c) ==
    /\ MayTimeout(c)
    /\ pc' = [pc EXCEPT ![c] = "idle"]
    /\ res' = [res EXCEPT ![c] = "timeout"]
    /\ GiveUp(c)
    /\ UNCHANGED <<praetor, boots, registryVars, wpc, starts, job, verdict, begun,
                   seq, want, to, reply, rows>>

Receive(c) ==
    /\ pc[c] = "waiting" /\ reply[Current(c)] # "none"
    /\ pc' = [pc EXCEPT ![c] = "recording"]
    /\ UNCHANGED <<praetor, boots, registryVars, workerVars, seq, res, want, to, reply,
                   rows>>

RowOf(t) == [task |-> t, cap |-> want[t], id |-> to[t], result |-> reply[t]]

NewRowsOnFailure(t) == IF reply[t] = "failed" THEN {RowOf(t)} ELSE {}  \* slip: row on error only
NewRows(t) == {RowOf(t)}

Record(c) ==
    /\ pc[c] = "recording"
    /\ rows' = rows \cup NewRows(Current(c))
    /\ res' = [res EXCEPT ![c] = reply[Current(c)]]
    /\ pc' = [pc EXCEPT ![c] = "idle"]
    /\ UNCHANGED <<praetor, boots, registryVars, workerVars, seq, want, to, reply>>

RecordFails(c) ==
    /\ pc[c] = "recording"
    /\ res' = [res EXCEPT ![c] = "auditfail"]
    /\ pc' = [pc EXCEPT ![c] = "idle"]
    /\ UNCHANGED <<praetor, boots, registryVars, workerVars, seq, want, to, reply, rows>>

-----------------------------------------------------------------------------
Background ==
    \/ StartPraetor \/ Register
    \/ \E p \in Procs : Subscribe(p) \/ Announce(p) \/ WorkerDown(p) \/ Take(p)
    \/ \E p \in Procs, v \in {"ok", "failed"} : Finish(p, v)

Await(c)     == Timeout(c) \/ Receive(c) \/ RecordFails(c)
Call(c, cap) == Dispatch(c, cap) \/ DispatchNoWorker(c, cap)

Next ==
    \/ Background \/ PraetorDown
    \/ \E c \in Callers : Await(c) \/ Record(c)
    \/ \E c \in Callers, cap \in Caps : Call(c, cap)

Spec == Init /\ [][Next]_legionVars

(***************************************************************************)
(* Fairness: asyncio.wait_for's timer fires, the event loop runs what is   *)
(* ready (a received reply, a queued registration), a lifespan that began  *)
(* starting its workers goes on to the end.  Nothing is assumed of a       *)
(* handler, of a remote process or of Praetor's own start.                 *)
(***************************************************************************)
Fairness ==
    /\ WF_legionVars(Register)
    /\ \A p \in InProcess : WF_legionVars(Subscribe(p))
    /\ \A p \in Procs : WF_legionVars(Announce(p))
    /\ \A c \in Callers : /\ WF_legionVars(Timeout(c))
                          /\ WF_legionVars(Record(c) \/ RecordFails(c))

FairSpec == Spec /\ Fairness

-----------------------------------------------------------------------------
(***************************************************************************)
(* Properties.                                                             *)
(***************************************************************************)
\* Every variable holds a value the program can put there; in particular every
\* queued, running or awaited task is one that was given a task id of its own.
TypeOK ==
    /\ praetor \in BOOLEAN /\ boots \in Nat
    /\ known \in [Ids -> SUBSET Caps]
    /\ rank \in [Ids -> Nat]
    /\ cursor \in [Caps -> Nat]
    /\ regQ \in Seq(Registration)
    /\ wpc \in [Procs -> {"down", "subscribed", "announced"}]
    /\ starts \in [Procs -> Nat]
    /\ inbox \in [Procs -> Seq(Tasks)]
    /\ job \in [Procs -> Tasks \cup {NoTask}]
    /\ pc \in [Callers -> {"idle", "waiting", "recording"}]
    /\ seq \in [Callers -> 0 .. MaxCalls]
    /\ res \in [Callers -> Results]
    /\ want \in [Tasks -> Caps \cup {NoCap}]
    /\ to \in [Tasks -> Ids \cup {NoId}]
    /\ reply \in [Tasks -> {"none", "ok", "failed"}]
    /\ rows \subseteq Row
    /\ verdict \in [Procs -> [Tasks -> {"none", "ok", "failed"}]]
    /\ begun \in [Procs -> [Tasks -> Nat]]
    /\ picks \in [Caps -> [Ids -> Nat]]

\* Timeouts, restarts and late answers never make one process enter handle() twice
\* for one task: core NATS delivers at most once and dispatch does not retry.
HandledOnce == \A p \in Procs, t \in Tasks : begun[p][t] <= 1

\* "Send one task to a worker" (registry.py:118): no two processes enter handle()
\* for one task.  It needs every process to run under an id of its own.
HandledByOne == \A p, q \in Procs, t \in Tasks :
                    begun[p][t] > 0 /\ begun[q][t] > 0 => p = q

\* What a process is done with - handle() returned, raised, or died with the process - it
\* never takes up again, and what it made of it stands (worker.py, _on_dispatch).
DoneWith(p, t) == begun[p][t] > 0 /\ job[p] # t

DoneIsDone ==
    [][\A p \in Procs, t \in Tasks :
           DoneWith(p, t) => DoneWith(p, t)' /\ verdict'[p][t] = verdict[p][t]]_legionVars

\* A legion.dispatched row tells the truth: a process running under the row's id
\* finished the row's task with the row's outcome, whatever timed out or restarted.
RowsTruthful == \A r \in rows : \E p \in Procs :
                    IdOf[p] = r.id /\ verdict[p][r.task] = r.result

\* A caller that got a TaskResult from dispatch got it with its audit row written.
ReturnsAreRecorded ==
    \A c \in Callers : res[c] \in {"ok", "failed"} =>
        \E r \in rows : r.task = Current(c) /\ r.result = res[c]

\* Between two registrations the selection is fair: no advertising id is ever more
\* than one pick ahead of another (registry.py:9).
RoundRobinFair == \A k \in Caps : \A i, j \in Members(k) : picks[k][i] <= picks[k][j] + 1

\* A worker that announced itself, while both it and Praetor keep running, ends up
\* in the registry.
Online(p) == (praetor /\ wpc[p] = "announced")
                 ~> (known[IdOf[p]] # {} \/ ~praetor \/ wpc[p] = "down")

\* The lifespan starts the registry before its workers, so theirs are never lost.
InProcessOnline == \A p \in InProcess : Online(p)
=============================================================================
