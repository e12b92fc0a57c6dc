---------------------------- MODULE Conversation ----------------------------
(***************************************************************************)
(* What the language model gets to see (caesar/llm, safety.py, the         *)
(* messages of graph.py): a decision's conversation grows by an assistant  *)
(* message per answer and a user message with the tool results per turn,   *)
(* and is sent as a whole at every turn, translated into the dialect of    *)
(* the provider that the router picks.  What the tools do, and what ends a *)
(* decision early, is Brain's subject.                                     *)
(*                                                                         *)
(* A text is a label that says whose it is.  The providers' servers are    *)
(* the environment.                                                        *)
(***************************************************************************)
EXTENDS Naturals, Sequences, SequencesExt

CONSTANTS
    Configs,        \* the settings considered: llm.provider, .model, .task_routing, the keys
    Chats,          \* bound: the lists of messages clients post
    Overrides,      \* bound: the models clients name, NoModel for none
    MaxIterations,  \* build_brain_graph's max_iterations
    RawCalls,       \* bound: per provider, the kinds of tool call its server makes
    MaxUses,        \* bound: tool uses per answer
    NoModel, NoText, NoRequest

Providers == {"anthropic", "openai", "ollama"}

VARIABLES
    config,         \* settings.llm
    at,             \* where Praetor and its one decision are
    client,         \* the messages the decision began with
    named,          \* the model its request named
    system,         \* state["system"], the parts it was composed of
    model,          \* state["model"]
    messages,       \* state["messages"]
    iteration,      \* state["iteration"]
    response,       \* state["response"]: its tool uses
    sent            \* the request on its way or last sent

vars == <<config, at, client, named, system, model, messages, iteration, response, sent>>

-----------------------------------------------------------------------------
(***************************************************************************)
(* The gateway: one provider per configured task and a default             *)
(* (_build_provider, _default_gateway, TaskRouter).                        *)
(***************************************************************************)
NeedsKey == {"anthropic", "openai"}

Route(c, task) ==
    IF task \in DOMAIN c.routing THEN c.routing[task]
    ELSE [provider |-> c.provider, model |-> c.model]

Wanted(c) == {c.provider} \cup {c.routing[task].provider : task \in DOMAIN c.routing}

\* `model or self._default_model`.
UsedModel(asked, default) == IF asked = NoModel THEN default ELSE asked

-----------------------------------------------------------------------------
(***************************************************************************)
(* Messages.  A tool use has an id, a canonical input, and, for the        *)
(* properties, the answer and the place in it that made it; a result, the  *)
(* use it answers.                                                         *)
(***************************************************************************)
Id     == {"srv", "tc"} \X Nat \X Nat
Use    == [id : Id, input : {"given", "raw", "empty"}, turn : Nat, idx : Nat]
Result == [id : Id, of : Use]

MessageOf(texts) == [role : {"system", "user", "assistant"}, text : texts,
                     uses : Seq(Use), results : Seq(Result)]

Message(role, text, uses, results) ==
    [role |-> role, text |-> text, uses |-> uses, results |-> results]

TextBlocks(text) == IF text = NoText THEN <<>> ELSE <<[kind |-> "text", of |-> text]>>
CallBlock(use)   == [kind |-> "call", id |-> use.id, of |-> use]
ResultBlock(r)   == [kind |-> "result", id |-> r.id, of |-> r.of]

Each(Op(_), s) == [i \in DOMAIN s |-> Op(s[i])]

Entry(role, blocks) == [role |-> role, blocks |-> blocks]

AssistantEntry(m) == Entry("assistant", TextBlocks(m.text) \o Each(CallBlock, m.uses))

(***************************************************************************)
(* _message_to_anthropic: results and text share one user message, the     *)
(* text in front.  _messages_to_openai and _messages_to_ollama: one "tool" *)
(* message per result, then the text.                                      *)
(***************************************************************************)
MessageToAnthropic(m) ==
    IF m.role = "assistant" THEN <<AssistantEntry(m)>>
    ELSE <<Entry("user", TextBlocks(m.text) \o Each(ResultBlock, m.results))>>

ToolMessages(m) == [i \in DOMAIN m.results |-> Entry("tool", <<ResultBlock(m.results[i])>>)]

\* slip: the free text beside results is forgotten
MessageToOpenAIBare(m) ==
    IF m.role = "assistant" THEN <<AssistantEntry(m)>>
    ELSE IF m.results # <<>> THEN ToolMessages(m)
    ELSE <<Entry("user", TextBlocks(m.text))>>

MessageToOpenAI(m) ==
    IF m.role = "assistant" THEN <<AssistantEntry(m)>>
    ELSE IF m.results # <<>> /\ m.text = NoText THEN ToolMessages(m)
    ELSE ToolMessages(m) \o <<Entry("user", TextBlocks(m.text))>>

MessageToOllama(m) == MessageToOpenAI(m)

Translated(provider, m) ==
    CASE provider = "anthropic" -> MessageToAnthropic(m)
      [] provider = "openai"    -> MessageToOpenAI(m)
      [] provider = "ollama"    -> MessageToOllama(m)

SystemText(m) == IF m.role = "system" THEN <<m.text>> ELSE <<>>

\* System messages leave the conversation for the system prompt, behind what the caller
\* composed: an argument of Anthropic's, a leading message of the others'.
SystemParts(prompt, ms) == prompt \o FlattenSeq(Each(SystemText, ms))

EntriesOf(provider, m) == IF m.role = "system" THEN <<>> ELSE Translated(provider, m)

Entries(provider, ms) == FlattenSeq([i \in DOMAIN ms |-> EntriesOf(provider, ms[i])])

Request(provider, used, prompt, ms) ==
    [provider |-> provider, model |-> used,
     system |-> SystemParts(prompt, ms), entries |-> Entries(provider, ms)]

-----------------------------------------------------------------------------
(***************************************************************************)
(* What a provider makes of a server's tool calls.  Arguments amount to an *)
(* object (it, its JSON, or none at all), to JSON of something else, or to *)
(* text that is no JSON; ToolUse accepts an object only.  Anthropic's SDK  *)
(* hands over objects, and Ollama's may leave the id out.                  *)
(***************************************************************************)
RawCall(provider) ==
    [arguments : IF provider = "anthropic" THEN {"object"} ELSE {"object", "other", "broken"},
     named : IF provider = "ollama" THEN BOOLEAN ELSE {TRUE}]

PostedTexts == UNION {{ms[i].text : i \in DOMAIN ms} : ms \in Chats}

ASSUME ConversationAssumption ==
    /\ Chats \subseteq Seq(MessageOf(PostedTexts))
    /\ \A c \in Configs : Wanted(c) \subseteq Providers
    /\ \A p \in Providers : RawCalls[p] \subseteq RawCall(p)
    /\ MaxIterations \in Nat \ {0} /\ MaxUses \in Nat

Input(arguments) ==
    CASE arguments = "object" -> "given"
      [] arguments = "broken" -> "raw"
      [] arguments = "other"  -> "empty"

\* complete raises: JSON of something else reaches ToolUse in OpenAI's only.
Rejected(provider, raw) == provider = "openai" /\ \E i \in DOMAIN raw : raw[i].arguments = "other"

\* slip: the calls that come without an id get one and the same
CallIdSame(call, turn, idx) == IF call.named THEN <<"srv", turn, idx>> ELSE <<"tc", 0, 0>>

\* A server's id is its own; Ollama's may be missing, and is then made of the place alone.
CallId(call, turn, idx) == IF call.named THEN <<"srv", turn, idx>> ELSE <<"tc", 0, idx>>

RawAnswers(provider) == UNION {[1 .. n -> RawCalls[provider]] : n \in 0 .. MaxUses}

ToolUses(raw, turn) ==
    [i \in DOMAIN raw |-> [id |-> CallId(raw[i], turn, i), input |-> Input(raw[i].arguments),
                           turn |-> turn, idx |-> i]]

-----------------------------------------------------------------------------
(***************************************************************************)
(* compose_system_prompt, with the parts it joins.                         *)
(***************************************************************************)
Compose(prompt) == <<"preamble">> \o prompt
ComposeProactive(prompt) == <<"preamble", "proactive">> \o prompt

Init ==
    /\ config \in Configs
    /\ at = "off"
    /\ client = <<>> /\ named = NoModel
    /\ system = <<>> /\ model = NoModel
    /\ messages = <<>> /\ iteration = 0
    /\ response = <<>> /\ sent = NoRequest

\* create_app builds every provider a task is routed to, or raises.
Boot ==
    /\ at = "off"
    /\ at' = IF Wanted(config) \cap NeedsKey \subseteq config.keys THEN "idle" ELSE "refused"
    /\ UNCHANGED <<config, client, named, system, model, messages, iteration, response, sent>>

Begin(ms, prompt, asked) ==
    /\ at = "idle"
    /\ client' = ms /\ messages' = ms
    /\ system' = prompt
    /\ model' = asked
    /\ at' = "llm"
    /\ UNCHANGED <<config, iteration, response, sent>>

\* POST /v1/chat, the system prompt being the settings' or the dashboard's.
Chat ==
    \E ms \in Chats, m \in Overrides :
        /\ Begin(ms, <<"operator">>, UsedModel(m, config.model))
        /\ named' = m

Prompted == Message("user", "prompt", <<>>, <<>>)

\* ProactiveRunner.fire.
Fire ==
    /\ Begin(<<Prompted>>, ComposeProactive(<<"operator">>),
             config.model)
    /\ named' = NoModel

\* call_llm: the router picks by the task "chat", and the provider builds its request.
CallLLM ==
    /\ at = "llm"
    /\ LET r == Route(config, "chat") IN
       sent' = Request(r.provider, UsedModel(model, r.model), Compose(system), messages)
    /\ at' = "provider"
    /\ UNCHANGED <<config, client, named, system, model, messages, iteration, response>>

LLMFails ==
    /\ at = "provider"
    /\ at' = "failed"
    /\ UNCHANGED <<config, client, named, system, model, messages, iteration, response, sent>>

\* route_after_llm.
RouteToTools(uses, n) == uses # <<>> /\ n < MaxIterations

LLMReturns(raw, text) ==
    /\ at = "provider" /\ ~Rejected(sent.provider, raw)
    /\ LET uses == ToolUses(raw, iteration + 1) IN
       /\ response' = uses
       /\ messages' = Append(messages, Message("assistant", text, uses, <<>>))
       /\ at' = IF RouteToTools(uses, iteration + 1) THEN "tools" ELSE "answered"
    /\ iteration' = iteration + 1
    /\ UNCHANGED <<config, client, named, system, model, sent>>

ResultFor(use) == [id |-> use.id, of |-> use]

\* Each branch of dispatch_tools appends one result, for a denied, failed, malformed or
\* unknown use too.
ResultsFor(uses) == Each(ResultFor, uses)

DispatchTools ==
    /\ at = "tools"
    /\ messages' = Append(messages, Message("user", NoText, <<>>, ResultsFor(response)))
    /\ at' = "llm"
    /\ UNCHANGED <<config, client, named, system, model, iteration, response, sent>>

DispatchFails ==
    /\ at = "tools"
    /\ at' = "failed"
    /\ UNCHANGED <<config, client, named, system, model, messages, iteration, response, sent>>

Answer ==
    /\ at = "provider"
    /\ \E raw \in RawAnswers(sent.provider), text \in {NoText, <<"said", iteration + 1>>} :
          LLMReturns(raw, text)

Next == Boot \/ Chat \/ Fire \/ CallLLM \/ Answer \/ LLMFails \/ DispatchTools \/ DispatchFails

Spec == Init /\ [][Next]_vars

-----------------------------------------------------------------------------
(***************************************************************************)
(* Properties.                                                             *)
(***************************************************************************)
\* Every variable holds a value the program can put there.
TypeOK ==
    /\ config \in Configs
    /\ at \in {"off", "idle", "refused", "llm", "provider", "tools", "answered", "failed"}
    /\ client \in Chats \cup {<<>>, <<Prompted>>}
    /\ named \in Overrides \cup {NoModel}
    /\ model \in Overrides \cup {NoModel, config.model}
    /\ iteration \in 0 .. MaxIterations
    /\ response \in Seq(Use) /\ Len(response) <= MaxUses
    /\ \A i \in DOMAIN messages : messages[i] \in MessageOf({messages[i].text})
    /\ sent # NoRequest => sent.provider \in Wanted(config)

\* The entries that come from the decision, behind those of the client's messages.
OwnFrom == Len(Entries(sent.provider, client)) + 1

CallOf(b)   == IF b.kind = "call" THEN <<b>> ELSE <<>>
Calls(e)    == FlattenSeq(Each(CallOf, e.blocks))
After(s, i) == FlattenSeq([j \in 1 .. Len(s) - i |-> s[i + j].blocks])

\* The calls of the entry s[i] are followed at once by one result each, in their order, that
\* carries the call's id and is the result of that very call; their ids tell them apart.
AnsweredAt(s, i) ==
    LET calls == Calls(s[i]) n == Len(calls) IN
    /\ Len(After(s, i)) >= n
    /\ \A k \in 1 .. n : After(s, i)[k] = [calls[k] EXCEPT !.kind = "result"]
    /\ \A k, l \in 1 .. n : calls[k].id = calls[l].id => k = l

\* In every request the calls of an answer are followed at once by one result each, in
\* their order, that carries the call's id and is the result of that very call as the
\* model is shown it; the ids tell the calls of one answer apart.  Ollama's ids repeat
\* from answer to answer (ollama.py:195-197), so their place has to tell them apart.
CallsAnswered ==
    sent # NoRequest => \A i \in OwnFrom .. Len(sent.entries) : AnsweredAt(sent.entries, i)

SaidBy(m)    == IF m.role = "system" \/ m.text = NoText THEN <<>> ELSE <<m.text>>
TextsOf(ms)  == FlattenSeq(Each(SaidBy, ms))
TextOf(b)    == IF b.kind = "text" THEN <<b.of>> ELSE <<>>
TextsAt(e)   == FlattenSeq(Each(TextOf, e.blocks))
TextsSent(s) == FlattenSeq(Each(TextsAt, s))

\* A translation loses and reorders nothing anyone said, and the system prompt of every
\* request, at every turn and for every caller, begins with the safety preamble
\* (safety.py:1-20); the client's system messages come after the operator's prompt.
NothingLost ==
    at = "provider" =>
        /\ TextsSent(sent.entries) = TextsOf(messages)
        /\ Head(sent.system) = "preamble"
        /\ \E n \in 1 .. Len(sent.system) :
              /\ sent.system[n] = "operator"
              /\ \A i \in 1 .. Len(sent.system) :
                    sent.system[i] \notin {"preamble", "proactive", "operator"} => i > n

\* config.py:96-99: a task's row in task_routing picks "a different provider/model for
\* that task", so a chat that names no model is answered by the row's model.
RoutedModelUsed ==
    sent # NoRequest /\ named = NoModel => sent.model = Route(config, "chat").model
=============================================================================
