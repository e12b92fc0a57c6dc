------------------------------- MODULE Lifespan -------------------------------
(***************************************************************************)
(* The life of a Praetor process: create_app() and its lifespan            *)
(* (caesar/praetor/app.py), which starts the bus, the registry, the        *)
(* workers and the background loops in one order and stops them in         *)
(* another, under uvicorn.                                                 *)
(*                                                                         *)
(* A part that is up may be at work: a chat request, a tick of the         *)
(* scheduler, the fire of an event or of a webhook, a sweep, an indexing   *)
(* pass, a worker's task.  Only `yield` is inside the try of the lifespan: *)
(* an exception while starting stops nothing, one while stopping skips the *)
(* rest.                                                                   *)
(***************************************************************************)
EXTENDS Integers, Sequences, FiniteSets

CONSTANTS
    AllSettings,  \* the settings a process may be given
    MaxFaults     \* bound: starts and stops that raise

Providers == {"anthropic", "openai", "ollama"}
KnownWorkers == {"memory_recall", "semantic_recall", "calculator",
                 "web_search", "notify", "calendar_read"}

(***************************************************************************)
(* An entry of the triggers file has source fields of its own or an        *)
(* explicit source block.  A file is not readable when it is missing, no   *)
(* YAML, no mapping, or of another version; its entries are those under    *)
(* the key "triggers" or the older "schedules".                            *)
(***************************************************************************)
Kinds == {"schedule", "ha", "webhook"}
Entry == [fields : SUBSET Kinds, source : Kinds \cup {"none"}, enabled : BOOLEAN]

\* Praetor's own parts; the names they go by here are no worker's.
OwnParts == {"engine", "ha", "bus", "registry", "sweeper", "indexer", "scheduler",
             "ha_driver", "webhook", "metrics", "tracing"}

ASSUME LifespanAssumption ==
    /\ MaxFaults \in Nat
    /\ \A c \in AllSettings :
           /\ c.providers \subseteq Providers           \* llm.provider and llm.task_routing
           /\ c.keys \subseteq {"anthropic", "openai", "legacy"}
           /\ c.rules \in {"none", "valid", "broken"}    \* policy.rules_path
           /\ c.proactive \in BOOLEAN                   \* proactive.resolved_path is set
           /\ c.triggers.entries \in Seq(Entry) /\ c.triggers.readable \in BOOLEAN
           /\ c.triggers.keys \subseteq {"triggers", "schedules"}
           /\ c.given \subseteq {"topic", "password", "seed"} \* notify, calendar, bus.auth
           /\ c.on \subseteq {"bus", "auth", "ha", "semantic", "tracing"}
           /\ c.workers \in Seq(STRING)                  \* legion.inprocess_workers
           /\ \A i, j \in DOMAIN c.workers : c.workers[i] = c.workers[j] => i = j
           /\ \A i \in DOMAIN c.workers : c.workers[i] \notin OwnParts \cup {"chat", "stream"}

VARIABLES
    settings,
    phase,   \* of the process
    step,    \* the place in the order of starting, or of stopping
    up,      \* the parts that are there to be used
    jobs,    \* what is at work: a part, a chat request or an audit stream
    faults

vars == <<settings, phase, step, up, jobs, faults>>

Phases == {"new", "refused", "starting", "broken", "serving", "draining",
           "stopping", "halted", "down", "killed"}

Init ==
    /\ settings \in AllSettings
    /\ phase = "new" /\ step = 1
    /\ up = {} /\ jobs = {} /\ faults = 0

HasHA       == "ha" \in settings.on
HasBus      == "bus" \in settings.on
HasSemantic == "semantic" \in settings.on
Traced      == "tracing" \in settings.on

When(condition, parts) == IF condition THEN parts ELSE <<>>

Workers == {settings.workers[i] : i \in DOMAIN settings.workers}

-----------------------------------------------------------------------------
(***************************************************************************)
(* create_app: the gateway, the policy, the engine and the HA client.      *)
(***************************************************************************)
\* _build_provider: the anthropic section may lean on the legacy key.
HasKey(provider) ==
    \/ provider = "anthropic" /\ settings.keys \cap {"anthropic", "legacy"} # {}
    \/ provider = "openai" /\ "openai" \in settings.keys
    \/ provider = "ollama"

GatewayRaises == \E provider \in settings.providers : ~ HasKey(provider)
PolicyRaises == settings.rules = "broken"

CreateApp ==
    /\ phase = "new"
    /\ IF GatewayRaises \/ PolicyRaises
       THEN phase' = "refused" /\ UNCHANGED up
       ELSE /\ phase' = "starting"
            /\ up' = {"engine"} \cup (IF HasHA THEN {"ha"} ELSE {})
    /\ UNCHANGED <<settings, step, jobs, faults>>

-----------------------------------------------------------------------------
(***************************************************************************)
(* The lifespan before `yield`.                                            *)
(***************************************************************************)
Proactive == settings.proactive

\* load_triggers: both keys, a mix of source fields or none of them are errors.
EntryRaises(e) == e.source = "none" /\ Cardinality(e.fields) # 1
KindOf(e) == IF e.source = "none" THEN CHOOSE kind \in e.fields : TRUE ELSE e.source

Entries == {settings.triggers.entries[i] : i \in DOMAIN settings.triggers.entries}
TriggersRaise ==
    \/ ~ settings.triggers.readable
    \/ settings.triggers.keys = {"triggers", "schedules"}
    \/ \E e \in Entries : EntryRaises(e)

\* Each driver takes the enabled triggers of its kind; of a file that raises, none is built.
Armed == IF TriggersRaise THEN {} ELSE {KindOf(e) : e \in {f \in Entries : f.enabled}}
ListensToHA == Proactive /\ HasHA /\ "ha" \in Armed
TakesHooks  == Proactive /\ "webhook" \in Armed

\* slip: the background loops come first
StartOrderLoopsFirst ==
       When(Proactive, <<"scheduler">>) \o When(ListensToHA, <<"ha_driver">>)
    \o When(TakesHooks, <<"webhook">>)
    \o When(HasBus, <<"bus", "registry">> \o settings.workers)
    \o <<"sweeper">> \o When(HasSemantic, <<"indexer">>)
    \o <<"metrics">> \o When(Traced, <<"tracing">>)

\* Without a bus the workers of the settings are skipped with a warning.
StartOrder ==
       When(HasBus, <<"bus", "registry">> \o settings.workers)
    \o <<"sweeper">> \o When(HasSemantic, <<"indexer">>)
    \o When(Proactive, <<"scheduler">>) \o When(ListensToHA, <<"ha_driver">>)
    \o When(TakesHooks, <<"webhook">>)
    \o <<"metrics">> \o When(Traced, <<"tracing">>)

\* BusAuth.resolve_seed.
CannotSign == "auth" \in settings.on /\ "seed" \notin settings.given

\* Bus.connect, _build_inprocess_worker and load_triggers.
CannotStart(part) ==
    \/ part = "bus" /\ CannotSign
    \/ part \in Workers \ KnownWorkers
    \/ part = "semantic_recall" /\ ~ HasSemantic
    \/ part = "notify" /\ "topic" \notin settings.given
    \/ part = "calendar_read" /\ "password" \notin settings.given
    \/ part = "scheduler" /\ TriggersRaise

\* Connecting, subscribing and writing the announcement rows can raise.
StartMayRaise == Workers \cup {"bus", "registry", "scheduler", "ha_driver", "webhook"}

StartPart ==
    /\ phase = "starting" /\ step \in DOMAIN StartOrder
    /\ ~ CannotStart(StartOrder[step])
    /\ up' = up \cup {StartOrder[step]}
    /\ step' = step + 1
    /\ UNCHANGED <<settings, phase, jobs, faults>>

StartRaises ==
    /\ phase = "starting" /\ step \in DOMAIN StartOrder
    /\ \/ CannotStart(StartOrder[step]) /\ UNCHANGED faults
       \/ /\ StartOrder[step] \in StartMayRaise
          /\ faults < MaxFaults /\ faults' = faults + 1
    /\ phase' = "broken"
    /\ UNCHANGED <<settings, step, up, jobs>>

Serve ==
    /\ phase = "starting" /\ step \notin DOMAIN StartOrder
    /\ phase' = "serving"
    /\ UNCHANGED <<settings, step, up, jobs, faults>>

-----------------------------------------------------------------------------
(***************************************************************************)
(* Work.  One job of a kind is enough to need what the kind needs.         *)
(***************************************************************************)
Decisions == {"chat", "scheduler", "ha_driver", "webhook"}

Begin(job) == job \notin jobs /\ jobs' = jobs \cup {job}

\* A decision needs every part a tool use may reach.
Uses(job) ==
    CASE job \in Decisions ->
             {"engine"} \cup (settings.on \cap {"bus", "ha"})
                \cup (IF HasBus THEN {"registry"} \cup Workers ELSE {})
                \cup ({job} \ {"chat"})
      [] job \in Workers -> {"bus", "engine", job}
      [] job = "stream" -> {}
      [] OTHER -> {"engine", job}

\* Uvicorn takes requests while the application is up; a webhook's is answered at once
\* and leaves a fire, and an audit stream lasts until the browser goes.
Request(job) ==
    /\ phase = "serving"
    /\ job = "webhook" => "webhook" \in up
    /\ Begin(job)
    /\ UNCHANGED <<settings, phase, step, up, faults>>

\* slip: the indexer, the HA client and the engine are left to the end of the process
StopOrderForgets ==
       When(TakesHooks, <<"webhook">>) \o When(ListensToHA, <<"ha_driver">>)
    \o When(Proactive, <<"scheduler">>) \o <<"sweeper">>
    \o When(HasBus, [i \in DOMAIN settings.workers |->
                           settings.workers[Len(settings.workers) + 1 - i]]
                       \o <<"registry", "bus">>)
    \o When(Traced, <<"tracing">>) \o <<"metrics">>

\* The order after `yield`.
StopOrder ==
       When(TakesHooks, <<"webhook">>) \o When(ListensToHA, <<"ha_driver">>)
    \o When(Proactive, <<"scheduler">>)
    \o When(HasSemantic, <<"indexer">>) \o <<"sweeper">>
    \o When(HasBus, [i \in DOMAIN settings.workers |->
                           settings.workers[Len(settings.workers) + 1 - i]]
                       \o <<"registry", "bus">>)
    \o When(HasHA, <<"ha">>) \o When(Traced, <<"tracing">>)
    \o <<"engine", "metrics">>

Stopping(part) == phase = "stopping" /\ step \in DOMAIN StopOrder /\ StopOrder[step] = part

\* The scheduler, told to stop, begins no tick.
Loop(part) ==
    /\ part \in up /\ ~ (part = "scheduler" /\ Stopping(part))
    /\ phase \in {"starting", "serving", "draining", "stopping"}
    /\ Begin(part)
    /\ UNCHANGED <<settings, phase, step, up, faults>>

\* A worker is given a task by a decision, which may give up on it before it ends.
Task(w) ==
    /\ w \in up
    /\ jobs \cap Decisions # {}
    /\ Begin(w)
    /\ UNCHANGED <<settings, phase, step, up, faults>>

End(job) ==
    /\ job \in jobs /\ jobs' = jobs \ {job}
    /\ UNCHANGED <<settings, phase, step, up, faults>>

-----------------------------------------------------------------------------
(***************************************************************************)
(* The lifespan after `yield`.  Uvicorn waits for the requests it took,    *)
(* unless it is signalled twice, and then calls it.                        *)
(***************************************************************************)
Signal ==
    /\ phase = "serving"
    /\ phase' = "draining"
    /\ UNCHANGED <<settings, step, up, jobs, faults>>

SignalAgain ==
    /\ phase = "draining"
    /\ phase' = "killed"
    /\ UNCHANGED <<settings, step, up, jobs, faults>>

Drained ==
    /\ phase = "draining" /\ jobs \cap {"chat", "stream"} = {}
    /\ phase' = "stopping" /\ step' = 1
    /\ UNCHANGED <<settings, up, jobs, faults>>

\* slip: stop_background() waits for the sweep loop instead of cancelling it
AwaitedWithSweep == {"webhook", "scheduler", "sweeper"}

\* webhook_dispatcher.stop() and scheduler.stop() wait; the others cancel.
Awaited == {"webhook", "scheduler"}

\* Flushing a row, an exception the scheduler's task ended with, and a closed connection.
StopMayRaise == Workers \cup {"webhook", "ha_driver", "scheduler", "registry", "bus", "ha", "engine"}

StopPart ==
    /\ phase = "stopping" /\ step \in DOMAIN StopOrder
    /\ StopOrder[step] \in Awaited => StopOrder[step] \notin jobs
    /\ up' = up \ {StopOrder[step]}
    /\ jobs' = jobs \ {StopOrder[step]}
    /\ step' = step + 1
    /\ UNCHANGED <<settings, phase, faults>>

StopRaises ==
    /\ phase = "stopping" /\ step \in DOMAIN StopOrder
    /\ StopOrder[step] \in StopMayRaise
    /\ faults < MaxFaults /\ faults' = faults + 1
    /\ StopOrder[step] = "scheduler" => "scheduler" \notin jobs
    /\ phase' = "halted"
    /\ UNCHANGED <<settings, step, up, jobs>>

Stopped ==
    /\ phase = "stopping" /\ step \notin DOMAIN StopOrder
    /\ phase' = "down"
    /\ UNCHANGED <<settings, step, up, jobs, faults>>

Next ==
    \/ CreateApp \/ StartPart \/ StartRaises \/ Serve
    \/ \E job \in {"chat", "stream", "webhook"} : Request(job)
    \/ \E part \in {"scheduler", "ha_driver", "sweeper", "indexer"} : Loop(part)
    \/ \E w \in Workers : Task(w)
    \/ \E job \in jobs : End(job)
    \/ Signal \/ SignalAgain \/ Drained
    \/ StopPart \/ StopRaises \/ Stopped

Spec == Init /\ [][Next]_vars

\* The event loop runs what is ready, and every job ends but a browser's stream.
FairSpec ==
    /\ Spec
    /\ WF_vars(CreateApp \/ StartPart \/ StartRaises \/ Serve)
    /\ WF_vars(Drained \/ StopPart \/ Stopped)
    /\ \A job \in Decisions \cup KnownWorkers \cup {"sweeper", "indexer"} : WF_vars(End(job))

-----------------------------------------------------------------------------
Parts == OwnParts \cup Workers

TypeOK ==
    /\ settings \in AllSettings /\ phase \in Phases
    /\ step \in Nat
    /\ up \subseteq Parts
    /\ jobs \subseteq Parts \cup {"chat", "stream"}
    /\ faults \in 0 .. MaxFaults

\* Whatever is at work has every part it uses (lifespan's two orders): no tick, event,
\* webhook, request, sweep, pass or task begins before a part it needs is started, or is
\* still at work when one is stopped.
UsesOnlyRunning == \A job \in jobs : Uses(job) \subseteq up

\* What the settings ask for.
Asked ==
    {"engine", "sweeper", "metrics"}
        \cup (settings.on \cap {"ha", "tracing", "bus"})
        \cup (IF HasBus THEN {"registry"} \cup Workers ELSE {})
        \cup (IF HasSemantic THEN {"indexer"} ELSE {})
        \cup (IF Proactive THEN {"scheduler"} ELSE {})
        \cup (IF ListensToHA THEN {"ha_driver"} ELSE {})
        \cup (IF TakesHooks THEN {"webhook"} ELSE {})

\* Praetor serves with everything its settings ask for or not at all, and after a stop
\* that did not raise nothing is left (lifespan, start to shutdown).
AllOrNothing ==
    /\ phase \in {"serving", "draining"} => up = Asked /\ \A part \in Asked : ~ CannotStart(part)
    /\ phase = "down" => up = {} /\ jobs = {}

\* Asked to stop, Praetor does, unless a stop raises: nothing but an open audit stream
\* can hold it.
StopEnds ==
    (phase = "draining" /\ "stream" \notin jobs) ~> (phase \in {"down", "halted", "killed"})
=============================================================================
