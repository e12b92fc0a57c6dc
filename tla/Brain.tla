-------------------------------- MODULE Brain --------------------------------
(***************************************************************************)
(* The brain graph (caesar/praetor/graph.py) on top of the Legion: a       *)
(* decision alternates between the node call_llm and the node              *)
(* dispatch_tools, which handles the tool uses of the last response one    *)
(* after the other.  Here a caller of the Legion is a decision, a chat     *)
(* request (caesar/praetor/routes/chat.py) or a proactive firing.          *)
(*                                                                         *)
(* The language model is the environment: it asks for any tool, offered,   *)
(* unoffered or unheard of, with any input.  Home Assistant may act and    *)
(* yet fail to answer.  Every await may also end in an exception (a        *)
(* provider error, a timeout, a locked database, a cancelled task), and    *)
(* no node catches one: it ends the decision.                              *)
(*                                                                         *)
(* A caller may also be POST /v1/devices/services (devices.py), which      *)
(* takes the way of the tool call_service without a graph: one use, at     *)
(* iteration 0.                                                            *)
(***************************************************************************)
EXTENDS Legion, Policy

CONSTANTS
    Recall,         \* recall_memory and semantic_recall
    CallService,    \* the tool call_service
    Unknown,        \* any other name
    CapOf,          \* the capability behind each worker tool
    ServiceInputs,  \* bound: the service calls the model and the clients try
    ToolInputs,     \* bound: the domains they give the gated tools
    BadInput,       \* an input that is not a ServiceCall
    Wirings,        \* the configurations considered: Home Assistant, the bus, the policy's rules
    MaxIterations,  \* build_brain_graph's max_iterations
    MaxUses,        \* bound: tool uses per response
    NoUse, NoRow

Gated       == ToolNames      \* the tools of _handle_generic_tool
WorkerTools == Gated \cup Recall
Tools       == WorkerTools \cup {CallService}
Use         == [name : {CallService}, input : ServiceInputs \cup {BadInput}]
                   \cup [name : Gated, input : ToolInputs]
                   \cup [name : Recall \cup {Unknown}, input : {Absent}]
Answers     == {"ok", "error"}
Events      == {"policy.denied", "service.called", "tool.denied", "tool.called",
                "legion.dispatched", "chat.completed"}
TrailRow    == [event : Events, turn : 0 .. MaxIterations, idx : 0 .. MaxUses, ok : BOOLEAN]

ASSUME BrainAssumption ==
    /\ CapOf \in [WorkerTools -> Caps]
    /\ Gated \cap Recall = {} /\ CallService \notin WorkerTools
    /\ Unknown \notin Tools
    /\ ServiceInputs \subseteq ServiceCall /\ BadInput \notin ServiceCall
    /\ ToolInputs \subseteq Domains \cup {Absent}
    /\ Wirings \subseteq [ha : BOOLEAN, bus : BOOLEAN,
                          services : SUBSET ServiceRule, tools : SUBSET ToolRule]
    /\ MaxIterations \in Nat \ {0} /\ MaxUses \in Nat \ {0}
    /\ MaxCalls >= (MaxIterations - 1) * MaxUses      \* the bound never binds here
    /\ NoUse \notin Use /\ NoRow \notin TrailRow

VARIABLES
    wiring,     \* what create_app was configured with
    at,         \* per decision: where it is
    offered,    \* per decision: the tools its graph was built with
    iteration,  \* per decision: LLM calls answered, state["iteration"]
    uses,       \* per decision: the tool uses of the last response
    answers,    \* per decision: the tool results of this turn so far
    pending,    \* per decision: the row it is writing
    trail,      \* per decision: its audit rows, in order
    why,        \* per decision: what ended it early
    acted,      \* history: the service calls Home Assistant carried out
    asked       \* history: the use each task was dispatched for

brainVars == <<wiring, at, offered, iteration, uses, answers, pending, trail, why, acted, asked>>
vars      == <<legionVars, brainVars>>

\* A Home Assistant client, and the bus with its registry, may be missing.
HasHA       == wiring.ha
HasRegistry == wiring.bus

Ended == {"answered", "failed"}
Live(c) == at[c] \notin Ended \cup {"idle"}

BrainInit ==
    /\ Init
    /\ wiring \in Wirings
    /\ at = [c \in Callers |-> "idle"]
    /\ offered = [c \in Callers |-> {}]
    /\ iteration = [c \in Callers |-> 0]
    /\ uses = [c \in Callers |-> <<>>]
    /\ answers = [c \in Callers |-> <<>>]
    /\ pending = [c \in Callers |-> NoRow]
    /\ trail = [c \in Callers |-> <<>>]
    /\ why = [c \in Callers |-> "none"]
    /\ acted = {}
    /\ asked = [t \in Tasks |-> NoUse]

-----------------------------------------------------------------------------
(***************************************************************************)
(* The use a decision handles, and the row it gives rise to.               *)
(***************************************************************************)
Idx(c)       == Len(answers[c]) + 1
HasUse(c)    == at[c] = "tools" /\ Len(answers[c]) < Len(uses[c])
ThisUse(c)   == uses[c][Idx(c)]
AskFor(c)    == [use |-> ThisUse(c), turn |-> iteration[c], idx |-> Idx(c)]

\* slip: the row is numbered by the last use of the response
RowForLast(c, event, ok) ==
    [event |-> event, turn |-> iteration[c], idx |-> Len(uses[c]), ok |-> ok]

RowFor(c, event, ok) == [event |-> event, turn |-> iteration[c], idx |-> Idx(c), ok |-> ok]

AsToolCall(use) == [tool |-> use.name, domain |-> use.input]
Allows(use) ==
    IF use.name = CallService THEN EvaluateService(wiring.services, use.input)
    ELSE EvaluateTool(wiring.tools, AsToolCall(use))

\* slip: a verdict is kept by the tool's name for the rest of the response
GrantedByName(c) == \E i \in 1 .. Idx(c) :
    uses[c][i].name = ThisUse(c).name /\ uses[c][i].input # BadInput /\ Allows(uses[c][i])

\* Every use is judged by itself, right before it is carried out.
Granted(c) == Allows(ThisUse(c))

Goto(c, where) == at' = [at EXCEPT ![c] = where]

Fail(c, cause) ==
    /\ Goto(c, "failed")
    /\ why' = [why EXCEPT ![c] = cause]

Answer(c, answer) ==
    /\ answers' = [answers EXCEPT ![c] = Append(@, answer)]
    /\ Goto(c, "tools")

WriteRow(c, event, ok) ==
    /\ pending' = [pending EXCEPT ![c] = RowFor(c, event, ok)]
    /\ Goto(c, "audit")

(***************************************************************************)
(* build_brain_graph lists call_service when there is a client, and a      *)
(* worker tool when its capability has a registered worker at that moment. *)
(***************************************************************************)
OfferedNow(u) == HasRegistry /\ Members(CapOf[u]) # {}

Start(c) ==
    /\ praetor /\ at[c] = "idle"
    /\ offered' = [offered EXCEPT ![c] = {u \in WorkerTools : OfferedNow(u)}
                                             \cup {u \in {CallService} : HasHA}]
    /\ Goto(c, "llm")
    /\ UNCHANGED <<legionVars, iteration, uses, answers, pending, trail, why, acted, asked>>

\* The device route: without a client it answers 503, and a body that is no ServiceCall
\* is a 422; neither leaves anything behind.
PostService(c, input) ==
    /\ praetor /\ at[c] = "idle" /\ HasHA
    /\ uses' = [uses EXCEPT ![c] = <<[name |-> CallService, input |-> input]>>]
    /\ Goto(c, "tools")
    /\ UNCHANGED <<legionVars, offered, iteration, answers, pending, trail, why, acted, asked>>

\* 200 with the row's id, or 403 when the policy said no.
ServiceResponds(c) ==
    /\ iteration[c] = 0 /\ at[c] = "tools" /\ ~HasUse(c)
    /\ Goto(c, "answered")
    /\ UNCHANGED <<legionVars, offered, iteration, uses, answers, pending, trail, why, acted,
                   asked>>

(***************************************************************************)
(* call_llm and route_after_llm.                                           *)
(***************************************************************************)
RouteUncapped(n, us) == us # <<>> /\ n <= MaxIterations     \* slip: off by one
RouteToTools(n, us) == us # <<>> /\ n < MaxIterations

LLMReturns(c, us) ==
    /\ at[c] = "llm"
    /\ iteration' = [iteration EXCEPT ![c] = @ + 1]
    /\ uses' = [uses EXCEPT ![c] = us]
    /\ answers' = [answers EXCEPT ![c] = <<>>]
    /\ Goto(c, IF RouteToTools(iteration[c] + 1, us) THEN "tools" ELSE "closing")
    /\ UNCHANGED <<legionVars, offered, pending, trail, why, acted, asked>>

LLMFails(c) ==
    /\ at[c] = "llm" /\ Fail(c, "llm")
    /\ UNCHANGED <<legionVars, offered, iteration, uses, answers, pending, trail, acted, asked>>

-----------------------------------------------------------------------------
(***************************************************************************)
(* dispatch_tools: a name it does not know, and _handle_call_service with  *)
(* dispatch_service_call (caesar/praetor/dispatch.py).                     *)
(***************************************************************************)
UnknownTool(c) ==
    /\ HasUse(c) /\ ThisUse(c).name = Unknown
    /\ Answer(c, "error")
    /\ UNCHANGED <<legionVars, offered, iteration, uses, pending, trail, why, acted, asked>>

InvalidService(c) ==
    /\ HasUse(c) /\ ThisUse(c).name = CallService /\ ThisUse(c).input = BadInput
    /\ Answer(c, "error")
    /\ UNCHANGED <<legionVars, offered, iteration, uses, pending, trail, why, acted, asked>>

ValidService(c) == HasUse(c) /\ ThisUse(c).name = CallService /\ ThisUse(c).input # BadInput

ServiceWithoutHA(c) ==
    /\ ValidService(c) /\ ~HasHA /\ Fail(c, "assert")
    /\ UNCHANGED <<legionVars, offered, iteration, uses, answers, pending, trail, acted, asked>>

ServiceDenied(c) ==
    /\ ValidService(c) /\ HasHA /\ ~Granted(c)
    /\ WriteRow(c, "policy.denied", FALSE)
    /\ UNCHANGED <<legionVars, offered, iteration, uses, answers, trail, why, acted, asked>>

ServiceAllowed(c) ==
    /\ ValidService(c) /\ HasHA /\ Granted(c)
    /\ Goto(c, "ha")
    /\ UNCHANGED <<legionVars, offered, iteration, uses, answers, pending, trail, why, acted,
                   asked>>

Act(c) == [decision |-> c, use |-> ThisUse(c), turn |-> iteration[c], idx |-> Idx(c)]

HAReturns(c) ==
    /\ at[c] = "ha"
    /\ acted' = acted \cup {Act(c)}
    /\ WriteRow(c, "service.called", TRUE)
    /\ UNCHANGED <<legionVars, offered, iteration, uses, answers, trail, why, asked>>

HAFails(c) ==
    /\ at[c] = "ha" /\ Fail(c, "ha")
    /\ acted' \in {acted, acted \cup {Act(c)}}
    /\ UNCHANGED <<legionVars, offered, iteration, uses, answers, pending, trail, asked>>

(***************************************************************************)
(* _handle_generic_tool, _handle_recall_memory and _handle_semantic_recall *)
(* around WorkerRegistry.dispatch.  The recall tools are not gated.        *)
(***************************************************************************)
WorkerUse(c) == HasUse(c) /\ ThisUse(c).name \in WorkerTools

WorkerUseWithoutRegistry(c) ==
    /\ WorkerUse(c) /\ ~HasRegistry /\ Fail(c, "assert")
    /\ UNCHANGED <<legionVars, offered, iteration, uses, answers, pending, trail, acted, asked>>

ToolDenied(c) ==
    /\ WorkerUse(c) /\ HasRegistry
    /\ ThisUse(c).name \in Gated /\ ~Granted(c)
    /\ WriteRow(c, "tool.denied", FALSE)
    /\ UNCHANGED <<legionVars, offered, iteration, uses, answers, trail, why, acted, asked>>

DispatchTool(c) ==
    /\ WorkerUse(c) /\ HasRegistry
    /\ ThisUse(c).name \in Gated => Granted(c)
    /\ Call(c, CapOf[ThisUse(c).name])
    /\ asked' = [asked EXCEPT ![Fresh(c)] = AskFor(c)]
    /\ Goto(c, "legion")
    /\ UNCHANGED <<offered, iteration, uses, answers, pending, trail, why, acted>>

\* The row dispatch writes before it returns is one of the decision's.
RecordTool(c) ==
    /\ Record(c)
    /\ trail' = [trail EXCEPT ![c] =
                   Append(@, RowFor(c, "legion.dispatched", reply[Current(c)] = "ok"))]
    /\ UNCHANGED <<at, offered, iteration, uses, answers, pending, why, acted, asked>>

Returned(c, results) == at[c] = "legion" /\ pc[c] = "idle" /\ res[c] \in results

ToolReturnsFlipped(c) == TRUE      \* slip: a failed TaskResult is recorded as a success
ToolSucceeded(c) == res[c] = "ok"

GatedReturns(c) ==
    /\ Returned(c, {"ok", "failed"}) /\ ThisUse(c).name \in Gated
    /\ WriteRow(c, "tool.called", ToolSucceeded(c))
    /\ UNCHANGED <<legionVars, offered, iteration, uses, answers, trail, why, acted, asked>>

RecallReturns(c) ==
    /\ Returned(c, {"ok", "failed"}) /\ ThisUse(c).name \in Recall
    /\ Answer(c, IF ToolSucceeded(c) THEN "ok" ELSE "error")
    /\ UNCHANGED <<legionVars, offered, iteration, uses, pending, trail, why, acted, asked>>

DispatchRaises(c) ==
    /\ Returned(c, Raised) /\ Fail(c, res[c])
    /\ UNCHANGED <<legionVars, offered, iteration, uses, answers, pending, trail, acted, asked>>

-----------------------------------------------------------------------------
(***************************************************************************)
(* AuditLogger.record for the row of a tool use, then its ToolResult.      *)
(***************************************************************************)
TrailAfterLost(c) == IF pending[c].ok THEN trail[c] ELSE Append(trail[c], pending[c])
TrailAfter(c) == Append(trail[c], pending[c])   \* the slip above audits errors only

AuditReturns(c) ==
    /\ at[c] = "audit"
    /\ trail' = [trail EXCEPT ![c] = TrailAfter(c)]
    /\ pending' = [pending EXCEPT ![c] = NoRow]
    /\ Answer(c, IF pending[c].ok THEN "ok" ELSE "error")
    /\ UNCHANGED <<legionVars, offered, iteration, uses, why, acted, asked>>

AuditFails(c) ==
    /\ at[c] = "audit" /\ Fail(c, "auditfail")
    /\ pending' = [pending EXCEPT ![c] = NoRow]
    /\ UNCHANGED <<legionVars, offered, iteration, uses, answers, trail, acted, asked>>

EndTurn(c) ==
    /\ iteration[c] > 0 /\ at[c] = "tools" /\ ~HasUse(c)
    /\ Goto(c, "llm")
    /\ UNCHANGED <<legionVars, offered, iteration, uses, answers, pending, trail, why, acted,
                   asked>>

(***************************************************************************)
(* The caller of the graph: the chat.completed row, then the response.     *)
(***************************************************************************)
Close(c) ==
    /\ at[c] = "closing"
    /\ trail' = [trail EXCEPT ![c] = Append(@, [event |-> "chat.completed",
                                   turn |-> iteration[c], idx |-> 0, ok |-> TRUE])]
    /\ Goto(c, "answered")
    /\ UNCHANGED <<legionVars, offered, iteration, uses, answers, pending, why, acted, asked>>

CloseFails(c) ==
    /\ at[c] = "closing" /\ Fail(c, "auditfail")
    /\ UNCHANGED <<legionVars, offered, iteration, uses, answers, pending, trail, acted, asked>>

Shutdown ==
    /\ PraetorDown
    /\ at' = [c \in Callers |-> IF Live(c) THEN "failed" ELSE at[c]]
    /\ why' = [c \in Callers |-> IF Live(c) THEN "aborted" ELSE why[c]]
    /\ acted' \in {acted \cup A : A \in SUBSET {Act(c) : c \in {d \in Callers : at[d] = "ha"}}}
    /\ pending' = [c \in Callers |-> NoRow]
    /\ UNCHANGED <<offered, iteration, uses, answers, trail, asked>>

-----------------------------------------------------------------------------
Responses == UNION {[1 .. n -> Use] : n \in 0 .. MaxUses}

Think(c)   == LLMFails(c) \/ \E us \in Responses : LLMReturns(c, us)
Service(c) == InvalidService(c) \/ ServiceWithoutHA(c) \/ ServiceDenied(c)
                  \/ ServiceAllowed(c) \/ HAReturns(c) \/ HAFails(c) \/ ServiceResponds(c)
Begin(c)   == Start(c) \/ \E input \in ServiceInputs : PostService(c, input)
Worker(c)  == WorkerUseWithoutRegistry(c) \/ ToolDenied(c) \/ DispatchTool(c)
                  \/ GatedReturns(c) \/ RecallReturns(c) \/ DispatchRaises(c)
Finishing(c) == AuditReturns(c) \/ AuditFails(c) \/ EndTurn(c) \/ Close(c) \/ CloseFails(c)

Step(c) ==
    /\ Think(c) \/ UnknownTool(c) \/ Service(c) \/ Worker(c) \/ Finishing(c)
    /\ UNCHANGED wiring

BrainNext ==
    \/ \E c \in Callers : Step(c) \/ ((Begin(c) \/ RecordTool(c)) /\ UNCHANGED wiring)
    \/ \E c \in Callers : Await(c) /\ UNCHANGED brainVars
    \/ (StartPraetor \/ (HasRegistry /\ Background)) /\ UNCHANGED brainVars
    \/ Shutdown /\ UNCHANGED wiring

BrainSpec == BrainInit /\ [][BrainNext]_vars

(***************************************************************************)
(* Fairness: a decision's coroutine goes on when it can, and what it       *)
(* awaits ends: the provider's and Home Assistant's HTTP clients and       *)
(* bus.request have timeouts.                                              *)
(***************************************************************************)
BrainFairness ==
    \A c \in Callers : /\ WF_vars(Step(c))
                       /\ WF_vars(Timeout(c) /\ UNCHANGED brainVars)
                       /\ WF_vars(\/ RecordTool(c) /\ UNCHANGED wiring
                                  \/ RecordFails(c) /\ UNCHANGED brainVars)

WorkerFairness ==
    /\ WF_vars(Register /\ UNCHANGED brainVars)
    /\ \A p \in InProcess : WF_vars(Subscribe(p) /\ UNCHANGED brainVars)
    /\ \A p \in Procs : WF_vars(Announce(p) /\ UNCHANGED brainVars)

FairBrainSpec == BrainSpec /\ BrainFairness /\ WorkerFairness

-----------------------------------------------------------------------------
(***************************************************************************)
(* Properties.                                                             *)
(***************************************************************************)
\* Every variable holds a value the program can put there.
BrainTypeOK ==
    /\ wiring \in Wirings
    /\ at \in [Callers -> {"idle", "llm", "tools", "ha", "legion", "audit", "closing"}
                               \cup Ended]
    /\ offered \in [Callers -> SUBSET Tools]
    /\ iteration \in [Callers -> 0 .. MaxIterations]
    /\ uses \in [Callers -> Seq(Use)]
    /\ answers \in [Callers -> Seq(Answers)]
    /\ pending \in [Callers -> TrailRow \cup {NoRow}]
    /\ trail \in [Callers -> Seq(TrailRow)]
    /\ why \in [Callers -> {"none", "llm", "ha", "assert"} \cup Raised]
    /\ acted \subseteq [decision : Callers, use : Use, turn : 0 .. MaxIterations,
                        idx : 0 .. MaxUses]
    /\ asked \in [Tasks -> [use : Use, turn : 0 .. MaxIterations, idx : 0 .. MaxUses]
                               \cup {NoUse}]

Sent(t) == to[t] # NoId
TasksOf(c) == {t \in Tasks : t[1] = c}
Ran(t) == \E p \in Procs : begun[p][t] > 0
Rows(c) == {trail[c][i] : i \in 1 .. Len(trail[c])}

\* A rule of the operator's file that permits a use by itself.
PermitsService(r, ask) ==
    /\ r.service = ask.service
    /\ r.pinned => /\ ask.target.shape \in {"string", "list"}
                   /\ ask.target.ids \ {NotAString} \subseteq r.entities
PermitsTool(r, use) ==
    r.tool = use.name /\ (use.input \in Domains /\ r.domains # {} => use.input \in r.domains)
Permitted(use) ==
    \/ use.name = CallService /\ \E r \in wiring.services : PermitsService(r, use.input)
    \/ use.name \in Gated /\ \E r \in wiring.tools : PermitsTool(r, use)

\* Nothing takes effect that no single rule of the policy permits, however turns, timeouts
\* and retries fall: neither Home Assistant nor a worker behind a gated tool carries it out
\* (graph.py:332-348, dispatch.py:37-50), and two rules that permit half of a target each
\* do not permit the whole.
OnlyGranted ==
    /\ \A a \in acted : Permitted(a.use)
    /\ \A t \in Tasks : Ran(t) /\ asked[t].use.name \in Gated => Permitted(asked[t].use)

RowOfUse(u) == IF u.name = CallService THEN "service.called"
               ELSE IF u.name \in Gated THEN "tool.called" ELSE "legion.dispatched"

\* What the model is told has succeeded is in the audit log by then.
ToldIsAudited ==
    \A c \in Callers : \A i \in 1 .. Len(answers[c]) :
        answers[c][i] = "ok" =>
            [event |-> RowOfUse(uses[c][i]), turn |-> iteration[c], idx |-> i, ok |-> TRUE]
                \in Rows(c)

\* The audit log of a decision does not lie: a service.called row stands for a call
\* Home Assistant carried out, a successful tool.called row for a task a worker
\* finished with success, and the task's own row comes before it.
TrailTruthful ==
    \A c \in Callers : \A i \in 1 .. Len(trail[c]) :
        LET r == trail[c][i] IN
        /\ r.event = "service.called" =>
             \E a \in acted : a.decision = c /\ a.turn = r.turn /\ a.idx = r.idx
        /\ r.event = "tool.called" /\ r.ok =>
             /\ \E j \in 1 .. i - 1 : trail[c][j] = [r EXCEPT !.event = "legion.dispatched"]
             /\ \E t \in TasksOf(c), p \in Procs :
                   /\ Sent(t) /\ asked[t].turn = r.turn /\ asked[t].idx = r.idx
                   /\ verdict[p][t] = "ok"

\* graph.py:10-12, the cap on the loop: a decision gets at most MaxIterations
\* responses, and what the last one asks for is not carried out.
LoopCap ==
    /\ \A c \in Callers : iteration[c] <= MaxIterations
    /\ \A a \in acted : a.turn < MaxIterations
    /\ \A t \in Tasks : Sent(t) => asked[t].turn < MaxIterations

\* Every decision is answered or fails.
DecisionEnds == \A c \in Callers : Live(c) ~> at[c] \in Ended

=============================================================================
