# CAESAR: formal specifications

TLA+ models of CAESAR (the code under `src/caesar/`), the TLC configurations that
check them on small instances, and TLAPS proofs of the properties that matter
most. Paths below are relative to `src/` unless they name a file of this directory.

CAESAR is a self-hosted home assistant around a language model. **Praetor**, a
FastAPI process, runs the *brain graph*: it asks a model, carries out the tool
calls the *policy* allows - on Home Assistant or on the workers of the *Legion*,
reached over NATS - and writes an *audit log*. Decisions begin with a chat
request or with a *trigger*: a cron slot, a Home Assistant event or a webhook.
Behind it, *memory* reads the audit log into a semantic index, and a retention sweep
deletes from it; a *dashboard* shows it and edits the system prompt. An extractor of
facts and their store are written and tested, but nothing under `caesar/` builds them yet.

1. [Inventory](#1-inventory)
2. [Modules](#2-modules-and-the-code-they-stand-for)
3. [Runs](#3-runs)
4. [Fairness](#4-fairness)
5. [Proofs](#5-proofs)
6. [Where code and documents disagree](#6-where-code-and-documents-disagree)
7. [What is not modelled](#7-what-is-not-modelled)
8. [Plan](#8-plan)

To repeat a check: `tlc -config MCLegion.cfg MCLegion`, and
`tlapm BrainProofs.tla`. `PROJECT.json` maps every definition to its source
lines, lists the hazards, and gives for every property a mutant of the model
under which TLC finds it violated. The definitions marked `\* slip:` are those
mutants; no specification uses them.

## 1. Inventory

| Part (code) | State | Operations | Interacts with |
| --- | --- | --- | --- |
| Worker registry (`caesar/legion/registry.py`) | `_workers`, one `itertools.cycle` per capability | `start`, `stop`, `_on_register`, `find`, `dispatch` | bus, workers, audit log |
| Worker (`caesar/legion/worker.py`) | its subscription, the task in `handle()` | `start` (subscribe, announce once), `_on_dispatch`, `stop` | bus |
| Bus (`caesar/bus/client.py`) | the NATS connection | `publish`, `request` with timeout, `subscribe` | everything in the Legion |
| Brain graph (`caesar/praetor/graph.py`, `dispatch.py`) | the LangGraph state of one decision: messages, iteration, tool uses | `call_llm`, `dispatch_tools` and its handlers | LLM gateway, policy, Home Assistant, registry, audit log |
| Chat route (`caesar/praetor/routes/chat.py`) | none | `POST /v1/chat` | brain graph, audit log |
| Policy (`caesar/policy/`) | rule lists loaded at start | `evaluate` | brain graph |
| HA event driver (`caesar/proactive/ha_driver.py`, `caesar/ha/subscription.py`) | `_last_fired`, `_suppressed`, `_connect_count`, `_announced_this_connect`, one task | `start`, `stop`, the stream's loop, `_on_event` | HA WebSocket, runner, audit log |
| Webhooks (`caesar/praetor/routes/webhook.py`, `caesar/proactive/webhook_dispatcher.py`) | `_last_fired`, `_suppressed`, the set of fire tasks | the route, `fire`, `stop` | runner, audit log |
| Scheduler (`caesar/proactive/scheduler.py`) | `next_fire` per trigger, one task, the stop event | `start`, `tick`, `_fire`, `stop` | runner, audit log |
| Runner (`caesar/proactive/runner.py`) | none | `fire` | brain graph |
| Audit log (`caesar/db/audit.py`, `audit_clamp.py`, `caesar/praetor/audit_bus.py`) | append-only table, bounded queues of live listeners | `record`, `publish`, `subscribe` | every part writes, dashboard and memory read |
| Memory: facts and extractor (`caesar/memory/facts.py`, `extract.py`), not wired in | facts, the cursor into the audit log | `upsert`, `delete`, `user_edit`, `user_delete`, `extract_once`, the loop | LLM gateway, audit log |
| Memory: semantic index and retention (`caesar/memory/semantic.py`, `retention.py`) | vectors per audit row | `index_pending`, `sweep_once`, both loops | audit log, embedder |
| Dashboard (`caesar/praetor/dashboard/`) | sessions in signed cookies, failed logins per address | login, settings, audit stream | settings store, audit bus |
| Lifespan (`caesar/praetor/app.py`) | the parts it started | create, start in order, stop in order | all of them |
| Database, backup, settings (`caesar/db/`) | SQLite | migrations, backup, restore, get/set | all of them |
| LLM gateway (`caesar/llm/`), safety preamble (`caesar/praetor/safety.py`) | the conversation, in the decision's state | `complete` of three providers, routing, translation both ways | brain graph, outside services |
| Tool workers (`caesar/legion/calculator.py` ...) | none | one HTTP request or computation per call | outside services |
| Configuration, CLI, logging, metrics, tracing | none that control flow reads | - | - |

What is hard in each part, and what makes it correct (`PROJECT.json` lists the
hazards one by one, at their lines):

- **Legion.** Selection, delivery, execution, reply and timeout are separate steps
  of separate processes, each of which restarts on its own; NATS drops what nobody
  hears. Correct: no task is executed twice or by two processes, the audit rows are
  true, turns are fair, every dispatch comes back, a worker inside Praetor gets known.
- **Brain.** Several decisions share workers and registry; the model may ask for
  anything; every await may raise. Correct: what the policy denies never takes
  effect, the trail tells the truth and what the model was told is on it, the loop is capped and ends.
- **Policy.** Several rules for one service or tool. Correct: rules only grant and do
  not combine.
- **HA driver.** One task reads events, writes rows and awaits brain runs of minutes,
  while the link breaks and a stop cancels it at any await. Correct: cooldowns and
  time windows are kept, suppressed matches are all reported, once, in one row per
  window, the stream's rows are in order, the task always comes back.
- **Webhooks.** The cooldown is checked in one coroutine and marked in another.
  Correct: refusals are justified and reported, what was answered 202 fires.
- **Scheduler.** Runs take longer than the gaps between slots. Correct: runs do not
  overlap, no slot is fired twice or early, none is lost but to the trigger's own
  run, no trigger starves another.
- **Conversation.** Three providers take the same messages apart in three ways, turn
  after turn. Correct: every tool call is followed by its own result, no text is lost or
  moved, every request begins with the safety preamble.
- **Memory.** The extractor's cursor and the index's chunks refer to row ids that a
  sweep frees and SQLite gives out again; a batch can be abandoned anywhere, and a call to the
  LLM that raises does not abandon it. Correct: a chat is passed over only where its call raised, none is
  given to the LLM again without need, a chunk is shown with its own row, every reply is embedded in the end.
- **Facts.** Read, write and audit are three transactions, and the docstrings foresee two kinds of callers.
  Correct: the rows tell the history of a fact, and confidence only rises while the value stays.
- **Dashboard.** Failures age out one by one between two readings of the clock; a page
  loads its rows and follows the stream at the same time, past a bounded queue; the prompt
  and its row are saved apart. Correct: the limit and Retry-After agree, the page misses a row
  only for a reason that can be named, the newest row tells of the stored prompt.
- **Lifespan.** A dozen parts that use each other, one order to start and one to stop,
  either of which may fail halfway. Correct: nothing at work lacks what it uses, Praetor
  serves with all it was asked for or not at all, a stop ends.

## 2. Modules and the code they stand for

```
Legion <-- Brain --> Policy      Cooldown <--refine-- HADriver, Webhook
             ^                   Agenda   <--refines- Scheduler
        BrainProofs
                                 HADriver  <-- HADriverProofs
Login <-- Dashboard <---         Webhook   <-- WebhookProofs
                        \        Scheduler <-- SchedulerProofs
              PraetorProofs      Memory    <-- MemoryProofs
                        /        Facts     <-- FactsProofs
    Conversation <------         Lifespan  <-- LifespanProofs
```

An arrow points at the module that is EXTENDed; `refines` stands for an instance with a refinement mapping. An `MC` module gives one specification's
constants their values; `Memory` needs none, its constants are numbers and sets of them. `BrainProofs` proves about
all three modules it reaches - Legion, Policy and Brain -, `PraetorProofs` about Login, Dashboard and Conversation.

**Legion** - `registry.py`, `worker.py`, the bus as they use it. A *caller* is a
coroutine of Praetor, a *process* a worker, in Praetor's process or on a host of its
own. `known` and `rank` are `registry._workers` with its insertion order and `cursor`
where each capability's cycle stands; `regQ` and `inbox` are the queues of the two
kinds of subscription; a reply is a message of its own. `Dispatch`, `Timeout`, `Receive`,
`Record` and `RecordFails` are the awaits of `dispatch`; `Take` and `Finish` are
`_on_dispatch` around `handle()`, which may return, raise or hang, or return what cannot be written as
JSON, and then no reply is sent; `Subscribe` and
`Announce` are `Worker.start`; `PraetorDown` and `WorkerDown` are an orderly stop and a crash.
A restart brings the process back with an empty registry and empty queues. The history
variables `begun`, `verdict` and `picks` record what the properties speak of.

**Brain** - `graph.py`, `dispatch.py`, `routes/chat.py`; it EXTENDS Legion, whose callers
become decisions. `at` is where a decision awaits, `uses` and `answers` are the tool uses of the
last response and the results so far, `trail` its audit rows in order. There is one action
per handler and outcome (`ServiceDenied`, `HAFails`, `DispatchTool`, `RecallReturns`, ...);
`DispatchTool` is joined with Legion's `Dispatch` step, `RecordTool` with `Record`. The model and
Home Assistant are the environment: any response, and a service call that acted although it
raised. `Granted` is the policy's verdict on the use in hand. `wiring` is what `create_app` was given: a Home Assistant client or none, a bus or none, the rules.

The device route is a caller too, with one use and no graph (`PostService`).

**Policy** - `engine.py`, `allowlist.py`: operators without state. The rules are sets of records,
`EvaluateService` and `EvaluateTool` the two evaluations, `Allowed` their front `evaluate`. Brain
calls them with the rules of its `wiring` on every use the model asks for.

**Cooldown** - what `Trigger.cooldown_seconds` promises of one trigger, whatever feeds it:
time passes, a match is allowed outside the cooldown and refused inside it.

**Agenda** - what a list of cron triggers promises: the earliest slot that has come is run for, one run at a
time, and the next slot of a trigger is the first one after its run. It leaves out rows, sleep, stop and failures.

**HADriver** - `ha_driver.py` and `subscription.py`, the matcher of `triggers.py`. `at` is where
the stream task awaits; `"match"` is the synchronous walk over the triggers between two
awaits, and the only place where `Stop` cannot cancel it. `last`, `pending`,
`connects`, `announced` are the attributes of the two objects; `told` and `streamRows` the rows
written; `seen` the `now` that `_on_event` takes once per event. A cancelled or failing write of
a row may lose it (`cut`). The stop is `Stop`, `RecordClosed`, `FlushPending`, `Stopped`,
each with its failure.

**Webhook** - `routes/webhook.py` and `webhook_dispatcher.py`. `pc` follows a request and then
the task it spawned: `Accept` (cooldown checked), `Received` (row written, task spawned, 202), `Fire` or
`FlushFirst` / `FlushWritten` (marked), `FireReturns` / `FireRaises` / `Reported`. `StopFlush` and its
outcomes, then `Stopped`, are `stop()`. All posts interleave.

**Scheduler** - `scheduler.py`. A cron expression is the set of its slots, `NextFire` is croniter's
`get_next`. `at` is where the one task is: `top` and `tick` of the loop, `fired`, `run`, `outcome` inside
`_fire`, `idle` between the two reads of the clock, `sleep`. `RowFails` is the audit write that ends the
task, which `stop()` then raises again.

**Conversation** - `caesar/llm/`, `safety.py`, the messages of `graph.py`. One decision:
`Chat` or `Fire` begins it, `CallLLM` routes the request and translates the whole
conversation (`MessageToAnthropic`, `MessageToOpenAI`, `MessageToOllama`), `Answer` turns the server's tool calls into
tool uses (`CallId`, `Input`, `Rejected`), `DispatchTools` appends the results. A text is a
label that says whose it is, so a lost or moved one shows.

**Memory** - `memory/extract.py`, `memory/semantic.py`, `memory/retention.py` over `audit_log`. A row
has the id SQLite gives it (the largest in the table plus one) and a serial number that no
table holds, which tells rows with one id apart. `Fetch`, `SkipRow`, `Heard`, `CursorWritten` are
`extract_once`. `CallRaises` is the call to the LLM that raises, which `_extract_one` swallows so that the batch goes
on; `UpsertRaises`, `CursorFails` and `Restart` abandon the batch. The history variables `asked`, `heard` and `missed` keep apart how often
a transcript was given to the LLM, whether it answered and whether the call raised. `Select` and `Store`
are `index_pending`; `Sweep` and `SweepRow` the two transactions of `sweep_once`, in the service and from the
command line.

**Facts** - `memory/facts.py`. `Ask` is the read, `Write` (an insert, a confirmation, an
overwriting or a deletion, by the id that was read) the second transaction, `Audit` the third; `AuditEdit` is the
second row of `user_edit`; `Cut` ends a call between two of them.

Praetor starts the sweeper and the indexer (`praetor/app.py:305-343`) and neither the extractor nor the store:
nothing under `caesar/` builds `MemoryExtractor` or `FactsStore`, `settings.memory.facts_extract` is read by nothing, and
the dashboard's page of facts is an open item of `docs/ROADMAP.md:352`. What Memory says of the extractor, and all
that Facts says, is of the classes as they are written and tested. That `Extractor` and `Editors` call the store at a time is
what the docstrings foresee ("operators editing facts via the dashboard call the same methods", `memory/facts.py:18-20`).

**Login** and **Dashboard** - `praetor/dashboard/`, `praetor/audit_bus.py`, `db/audit.py`,
`db/settings_store.py`. `Login` has the clock, the buckets and the sessions; a step reads the clock twice
where the handler does. `Dashboard` adds the writers of audit rows (`Commit`, then
`Publish`), the tabs (`AuditRows`, `Swap`, `Subscribe`, `Receive`, `Disconnect`) and the settings post.

**Lifespan** - `praetor/app.py`, with what it reads of `config.py`, `bus/client.py` and the
triggers file. `settings` is what the operator wrote, `StartOrder` and `StopOrder` the two
sequences, `up` what is there to be used and `jobs` what is at work; `Uses` is what a
job may reach. `StartRaises` leaves what was started as it is, as the code does.

## 3. Runs

"States" are distinct states; every passing run is exhausted within its bounds.

| Run | Bounds | States | What it shows |
| --- | --- | --- | --- |
| `legion` | 2 callers, 2 dispatches together, 2 processes (one inside Praetor) that share a capability, 2 starts of each and of Praetor | 581,662 | `HandledOnce`, `HandledByOne`, `RowsTruthful`, `ReturnsAreRecorded`, `RoundRobinFair` |
| `brain` | 1 decision of 2 LLM responses with 2 tool uses each, or device requests; calls on one and on two entities and a malformed one, 2 domains, 4 wirings: neither Home Assistant nor bus; no rules; an entity or a domain per rule; a free service with two tool rules; under fairness | 161,543 | `OnlyGranted`, `TrailTruthful`, `ToldIsAudited`, `LoopCap`, `DecisionEnds`, `InProcessOnline` |
| `conversation` | 3 answers of up to 2 tool uses, 4 settings, 4 client histories and a proactive prompt | 392,603 | `CallsAnswered`, `NothingLost` |
| `routed_model` | the same with 1 tool use | - | a counterexample to `RoutedModelUsed` |
| `memory` | batches of 2, 3 rows of 4 kinds, 3 moments, retention of 1, 1 failure or restart, under fairness | 587,956 | `CursorCovers`, `AskedAgainOnlyIfCut`, `RecallsOwnText`, `ReplyIsIndexed` |
| `llm_down` | the instance of `memory` | - | a counterexample to `FailureIsRetried` |
| `facts` | a task that upserts and deletes and one that edits, 2 keys, values and confidences, 4 calls, 1 cut short | 1,911,542 | `TrailReplays`, `TableTold` |
| `dashboard` | a limit of 2 failures in a window of 3 half seconds, 7 moments, 2 addresses; 2 tabs, pages of 2 rows, queues of 1, 3 rows, 2 writers; 4 mixtures of actors | 1,843,316 | `LoginThrottled`, `PageAccounts`, `PromptTold` |
| `lifespan` | 16 settings - complete, minimal and with one mistake each - and 1 start or stop that raises, under fairness | 3,813 | `UsesOnlyRunning`, `AllOrNothing`, `StopEnds` |
| `ha_driver` | 2 armed triggers (a cooldown; a window across midnight in another zone) and a disabled one, 4 moments, 4 events, 2 in the socket, 1 failing write | 158,676 | `SuppressionsAccounted`, `StreamRowsInOrder`, `FiresInTheWindow`, `CooldownKept`, `KeepsListening` |
| `webhook` | 3 posts, an armed trigger and an unknown name, 4 moments, 1 failing write | 410,675 | `RefusalsJustified`, `CloseFiresOverlap`, `SuppressionsAccounted`, `AcceptedIsFired` |
| `scheduler` | a trigger due at every moment with a cap of 2, one with the slots 1 and 3, a disabled one and one of another kind; 4 moments, 1 failing write | 195,605 | `RowsBracketed`, `FiresFreshSlots`, `SkippedOnlyWhileBusy`, `AtMostOneAhead`, `DueIsServed` |

Four more configurations keep a divergence each (`MCStaleEmbedding`, `MCTextlessBatch`, `MCWebhookOverlap`, `MCLegionSharedId`):
TLC refutes their one property, see [section 6](#6-where-code-and-documents-disagree).

Every module with variables also states its type invariant; they are proved for all constants
([section 5](#5-proofs)). So are five statements that no passing configuration lists, because they are consequences of the same
invariants: `DoneIsDone`, `ConfidenceRatchets`, `CursorOnlyForward`, `AgendaKept` and, under `OneByOne`, Webhook's `CooldownKept`. TLC agrees with
them on the instances above, without their symmetry, on the facts with three calls and on the webhook under `OneByOne`.

Why the bounds are enough, as far as bounds ever are:

- *legion*: two dispatches suffice for a late reply to meet a later wait, for turns to
  be taken out of order and for a stale registration to misroute; two starts for a
  message, a reply or a registration to outlive the process it belongs to. The remaining
  bound, how many, is what the proofs remove.
- *brain*: two responses are the least for which the cap and the second turn differ. With
  two pinned rules a call on both entities is the least that pooling rules would let through. Two uses per
  response let an earlier answer, or the verdict on an earlier use, be taken for a later one. Decisions share
  nothing but the registry and its workers, whose concurrent use is the subject of `legion`; that any number of
  decisions keeps `OnlyGranted`, `TrailTruthful`, `ToldIsAudited` and `LoopCap` is proved.
- *conversation*: with three answers an id of the first can meet one of the second and the
  cap still cuts the third; the histories have a system message in the middle, a tool turn with
  a text beside its result, and a tool turn without its result.
- *memory*: with three rows the newest can be swept and its id given again while a batch
  that holds the old one is at work; a batch of two is fuller than one row and emptier than the log.
- *facts*: four calls are a row added, read by two writers, changed or deleted by one and written by
  the other, with its id given to the other key in between.
- *dashboard*: two failures and a window of 3 have an attempt before, at and after the edge, and a second
  of two parts a rounding of Retry-After; a queue of 1 overflows at the second row; three rows exceed
  a page of two. The actors that share no state are not mixed: the login with nobody else at work, the tabs
  with writers, the settings posts with a tab, and one browser that signs in and looks.
- *lifespan*: the settings decide the orders and the failures; that they may be
  combined is left to the one setting that has everything.
- *ha_driver*: a cooldown of 2 within 4 moments has an event before, at and after its
  end; 4 events fill a window, close it and open the next; a day of 4 minutes
  wraps. Longer days, lists and runs are covered by the proofs, as are those of the other modules with one.
- *webhook*: three posts are a fire, a refusal and another fire, in any overlap.
- *scheduler*: runs of 0 to 2 moments against gaps of 1 and 2; the clock
  stops at the last moment, up to which every slot is judged.

The bounds on time, starts, calls and failures end every behaviour, and a decision, a
driver or a dispatcher that has finished has nothing left to do. The configurations of all
modules therefore say `CHECK_DEADLOCK FALSE`; `brain`, `ha_driver`, `webhook`,
`scheduler`, `memory` and `lifespan` have liveness properties instead, which a real deadlock would violate.

Symmetry (callers in `legion`, keys and values in `facts`) is used only where safety alone is checked.

## 4. Fairness

Fairness is assumed of steps that the code or its runtime brings about, never of the
outside world:

- **Legion.** `asyncio.wait_for` fires (`Timeout`), the event loop runs what is ready (`Register`,
  `Record` or its failure), a lifespan that started goes on to its workers (`Subscribe` of in-process
  workers, `Announce`). Nothing is assumed of a handler, a remote process or Praetor's start.
- **Brain.** A decision's coroutine goes on: the LLM clients, the Home Assistant client and
  `bus.request` have timeouts, so each await returns or raises.
- **HADriver.** The task runs (`StreamNext`, `WalkNext`); a brain run returns or raises, because its loop
  is capped and its awaits time out (`DecisionEnds` in Brain); the steps of `stop()`. *Strong*
  fairness of `ConnectSucceeds`: Home Assistant, tried again and again, answers at last. It is the
  only assumption about the outside, and `KeepsListening` would mean nothing without it.
- **Webhook.** Spawned tasks and `stop()` run; a brain run returns or raises.
- **Scheduler.** The loop runs what is ready; time passes, so that `asyncio.timeout` ends a run
  that does not end itself.
- **Memory.** `Indexes`, the passes of the indexer: its loop is started with Praetor (`app.py:341-343`), runs as long and outlives
  every exception. Nothing is assumed of the extractor, which Praetor does not start, nor of sweeps, operators and failures. The
  liveness is of the form "again and again nothing is left to do", because new chats may always come until the bound on rows.
- **Lifespan.** The event loop runs what is ready; whatever is at work ends - decisions by their cap and
  timeouts, passes and sweeps by their batch - but for an audit stream, which lasts as long as its browser
  likes. That a *tick* of the scheduler ends is an assumption the code does not secure
  ([section 6](#6-where-code-and-documents-disagree)).

## 5. Proofs

Every theorem holds for all values of the constants that satisfy the modules' `ASSUME`s. Beyond types
these say: a schedule trigger always has a later slot (true of every scheduler that runs on five-field expressions, which are
periodic: one that names no date at all, like `0 0 30 2 *`, passes the loader and raises in `Scheduler.__init__`, so Praetor does
not start with it); the triggers of the HA driver have ids of their own; the posts a webhook run considers are finitely many; a response may ask for a tool at
all (`MaxUses` is not zero); the model values that stand for "no row", "no fact" and "no value" are none
themselves; no worker has the label of a part of Praetor; and a conversation consists of the messages that `ChatRequest` admits, the
providers a configuration wants being among the three there are (pydantic's literals see to both). Two theorems add
hypotheses, without which they are false: `OneProcessPerTask` that worker ids are not shared, `CooldownKeptOneByOne` that no
two POSTs to one trigger are under way together.

Most properties are not inductive: they speak of rows, answers and pages, and what
makes those true lies in queues, in the place of a coroutine, in what it read before an await. An
inductive invariant adds exactly that. Each is preserved action by action, in lemmas for the groups of actions that could
disturb a part of it; the others leave that part alone because they leave alone what
it reads. Two devices recur. A sum or a count over a set or a sequence is a recursive function in the
model, and induction over data is out of reach; what is needed of it is proved by the least position, or the
smallest set, at which it could fail (`NoSmallest`, `TotalUnfolds`). And
an invariant "for every trigger" or "for every key" is proved for one of them that is fixed first.

### BrainProofs

**Legion.** `TypeOK` is not inductive: the row that `Record` writes is well formed
because its caller awaits a task of its own (`CurrentIsTask`); together they are `TypeInv`. On it stand

- `OnceInv`: a task is queued at a process at most once and not after the process began it; it is
  queued and begun only if it was issued, and only under the id it was sent to (`QueueInv`,
  `BegunInv`) - hence `AtMostOnce` and `OneProcessPerTask`;
- `TruthInv`: an answer is the verdict of a process under the task's id (`AnswerInv`), and a
  verdict never changes, which follows from `OnceInv` (`VerdictsSettle`) - hence `AuditTruthful`
  and `ReturnsRecorded`;
- `DoneIsDone`, an action property of the same `OnceInv`: what a process has returned from, raised in or died in, it
  never takes up again, and its verdict stands (`NothingIsTakenUpAgain`);
- `FairInv`: ranks tell the registered ids apart (`RankInv`), and the members of a ring up to
  the cursor have been picked exactly once more than those beyond it (`RingInv`) - hence
  `FairSelection`.

**Policy.** What an operator may rely on when writing rules: they are read one by one
(`ServiceRulesDoNotCombine`, `ToolRulesDoNotCombine`), adding one takes nothing away
(`RulesOnlyGrant`), no rules allow nothing (`NoRulesDenyAll`), and a service whose every rule is pinned
is never called without entities of one of them - though an empty list of entities passes
(`PinnedStaysPinned`).

**Brain.** `BrainImplementsLegion`: Brain EXTENDS Legion and every one of its steps is a step of
Legion's `Next` or leaves Legion's variables alone (`BrainSteps`, `CalmSteps`), so `BrainSpec => Spec` and
Legion's theorems carry over; `BrainTasksAtMostOnce` is the first to. On it stand

- `GrantInv`: a decision that awaits Home Assistant does so for a use some one rule permits
  (`AwaitsPermitted`), and a task that is queued or begun was asked for with the policy's consent
  (`QueuedConsented`, `BegunConsented`) - hence `NothingBeyondTheRules`. `OnlyGranted` alone is not
  inductive: a task waits in a queue, whose content it does not constrain, before a process begins it;
- `LoopInv`, for each decision: it asks and carries out only below the cap (`Room`), the use in hand is one of the
  response's (`InHand`), a dispatch under way was asked for that use (`Linked`), and so was the row about
  to be written (`Writing`) - hence `BrainTypeCorrect` and `LoopIsCapped`;
- `TrailInv`: every row, the one about to be written included, is backed by the call or the verdict it tells of and
  follows the row it stands on (`Backed`, `Follows`), an answer "ok" has its row (`AnswersRecorded`), and what backs a row is
  never taken back (`Steady`): a verdict settles, a call that acted stays among those that did - hence
  `TrailIsTruthful` and `ToldIsInTheLog`.

### HADriverProofs

- `TypeCorrect`.
- `CooldownImplemented`, the refinement of `Cooldown`: under `CoolInv` (`seen` is not ahead of the clock, and a
  trigger whose row is being written before its fire is still out of its cooldown) each step of the
  driver is, for each trigger, an `Allow`, a `Refuse`, a `Pass` or a stutter of it (`CooldownRefined`).
- `WindowsKept`: the comparison of minutes in `_is_in_window` is membership of the arc from start to
  end modulo the day (`WindowIsArc`), and the trigger that is flushing or firing matched at `seen` (`WindowInv`).
- `StreamRowsTellInOrder`, by `StreamInv`: where the task awaits decides which row comes next (`Placed`), and the
  rows so far carry the connection they belong to (`RowsNumbered`).
- `SuppressionsAreAccounted`, by `SuppressInv`: fires are a cooldown apart and each row lies in the window of one of
  them, no two in the same (`WindowsOf`); what is pending or in flight lies in the window of the last fire (`PendingInLast`); and
  what the rows, the row in flight and the pending one count is never more than the refused matches, and as many
  unless a write was cut (`Counts`).

### WebhookProofs

`FireInv` says that a request is judged before its fire is marked (`InOrder`), that `_last_fired` is the
moment of a fire and no fire is later (`LastIsAFire`), that a request let through after a fire was judged a
whole cooldown after it (`Spaced`) and that refusals are justified. From it `RefusalsAreJustified` and
`OnlyOverlapsGetAround`: two POSTs whose judgement and fire overlap are the only way around a
webhook's cooldown ([section 6](#6-where-code-and-documents-disagree)). `AccountInv` holds for each trigger the balance
of refusals: written, lost, being flushed by a fire or by `stop()`, or pending (`Accounted`); `stop()` takes only what no
fire has taken and leaves nothing (`NothingLeft`) - hence `RefusalsAreAccounted`.

`CooldownKeptOneByOne` is the refinement of `Cooldown` that an HA trigger has without conditions: while no two POSTs to one
trigger are between judgement and mark (`OneByOne`), a POST under way is still out of the cooldown it was judged by
(`StillOut`), and each step is, for each trigger, an `Allow`, a `Refuse`, a `Pass` or a stutter. Without `OneByOne` TLC
finds the step that is none of them: the second of two overlapping fires.

### SchedulerProofs

`LoopInv`: the trigger about to fire is due and no armed slot is earlier than its own;
`BracketInv` adds that the last row is the fired row while a run is under way; `FreshInv` that rows carry past
moments (`MomentsInv`) and that the armed slot lies after the last outcome (`RearmInv`). `PassedIsBehind`: a
trigger's run that began when another one was due leaves its own slot behind that one. `SchedulerInv` is their
conjunction with the properties, and gives `OneRunAtATime`, `SlotsAreFresh`, `WaitsOneRunEach`, `NoSlotIsLost`.
`AgendaImplemented` is the refinement of `Agenda`: the trigger that runs there is the one whose fired row is the last row here
(`UnderWay`), writing that row is `Begin`, writing the outcome `End`, and everything else time or a stutter. A task that
dies during a run leaves its agenda with that run for ever, which `Agenda` allows: it promises no progress.

### MemoryProofs

`IInv`: a row's id is at most its serial number, which it shares with no other row (`Identity`); of the rows in the
table a later one has a greater id (`InOrder`); the batch at work is what stands next beyond the cursor, without a gap, and
its done part was given to the LLM (`BatchIsNext`), as was everything behind the cursor (`AskedCovers`); what is still to be given away was so only
in batches that were abandoned (`NotYetAgain`); what was given away was answered or its call raised (`AskedEnded`); what is
embedded keeps its place in the order of the rows left (`TextsInOrder`). Hence `CursorCoversAll` - a chat behind the cursor that the LLM never
answered for is one whose call raised -, `AskedOnce` and `RecallIsOwn`. `CursorMovesForward` follows for each
step: the cursor never goes back, and passes no transcript but those of the batch just done. The
difficulty is the reuse of ids: the newest row can be swept and its id given again while a batch that holds it is at
work, so every part has to say which ids it still speaks for.

### FactsProofs

A writer acts on what it read two transactions ago. `StoredIsTold` needs that a value without its row is owed one
by some writer (`TellsOf`). `FactsReplay`, by `ReplayInv`: for every key whose calls did not race and which lost no row, the
rows so far replay to what is stored, but for the one row that its one writer still owes
(`Replays`); a key has one fact (`OneFact`). From the same invariant `ConfidenceIsARatchet`: the one writer at work on a key has
read what is stored, so the greater of two confidences is the greater of the stored one and its own.

### PraetorProofs

- `LoginIsThrottled`, by `LoginInv`: a bucket is the tail of what was recorded, in order, what was pruned being older than
  the window (`DequeIsTail`), and never longer than the limit (`DequeIsShort`); a Retry-After outlasts the failures it was
  computed from (`ToldOutlasts`).
- `DashboardImplementsLogin`: each step of Dashboard is a step of Login or a stutter of it, so `DashboardIsThrottled`.
- `NoRowLost`, by `PageInv`: a row that a page has not is committed after the page was read and still in its queue, or
  yet to be published, or missed for a named reason.
- `PromptIsTold`, by `WriterInv` and `ToldOrSaving`: the newest row tells of the stored prompt unless the one post that saves is
  between its two writes; posts that overlap are marked (`blurred`).

- `ConversationTypeCorrect`, `EveryCallIsAnswered` and `NothingIsLost`, by `ConversationInv`. It says that the conversation is
  *settled* whenever a provider is to be asked (`Answered`): translated for any of the three, every call beyond the client's
  own messages is followed by its result. All three, because only the next request decides which of them gets it. While tools are
  dispatched one answer is open, the last, and what stands before it is settled (`Dispatching`); and what is under way to
  a provider is the translation of the conversation as it stands (`Requesting`). A request is the concatenation of the translations of its
  messages. What that is for one message more is a lemma (`EntriesMore`, from `FlattenJoin`, proved by the least
  position at which a concatenation could differ), and with it translation keeps the texts and their order (`TranslationKeepsTexts`), no answer to
  an earlier call is moved by what comes later (`AnsweredStays`), and a whole turn leaves every call answered (`TurnsAreAnswered`).

### LifespanProofs

`LifeInv` reads what is up off the place in the two sequences: starting at position n, the first n - 1 parts of `StartOrder`;
stopping at n, those of `StopOrder` from n on; and jobs only of parts that are up. The
rest is about the sequences: a rank for each part sorts `StartOrder` and `StopOrder` for every list of workers and every
setting (`StartSorted`, `StopSorted`), and what a job uses ranks lower to start and higher to stop than the job
(`LowerIsEarlier`). Hence `NothingLacksItsParts` and `ServesWithAllOrNot`.

### Only model-checked

Liveness: `InProcessOnline`, `DecisionEnds`, `KeepsListening`, `AcceptedIsFired`, `DueIsServed`,
`ReplyIsIndexed` and `StopEnds` need fairness and ENABLED, which are out of the prover's reach. Every safety property of the passing runs is proved.

## 6. Where code and documents disagree

Two runs end in a counterexample to what the repository says of itself.

- `routed_model` (`caesar/praetor/routes/chat.py:94`). The chat route fills the default model in before the
  router is asked, so with `task_routing` for `"chat"` the routed provider is asked for the default
  provider's model; `caesar/config.py:96-98` says that the row picks "a different
  provider/model for that task". Proactive runs do the same (`runner.py`).
- `llm_down` (`caesar/memory/extract.py:237`). A call to the LLM that raises yields no facts, and the cursor passes its
  row (`:277-279`), which is never tried again; `docs/adr/0033-personal-facts.md:103-104` says that failures
  "skip the row but don't advance the cursor - retried on next poll". A test wants what the code does
  (`test_extract_once_handles_llm_failure_without_aborting`). `CursorCovers` says that nothing else passes over a chat.

Four configurations beside the runs do so as well, each on the instance of a run:

- `MCStaleEmbedding`, of module Memory (`EmbeddingGoesWithRow`, `caesar/memory/retention.py:63`). The sweep leaves the chunks of the rows it deletes;
  `docs/adr/0020-memory-retention-ttl.md:88-89`: "If the audit row goes, its embedding goes with it". Recall joins the two
  tables and does not see such a chunk, until its id is given to another row.
- `MCTextlessBatch`, of module Memory (`PassFindsText`, `caesar/memory/semantic.py:86`). A pass takes the first rows without a chunk and only then drops those without
  text, so a full batch of these hides every newer reply, pass after pass, until a sweep takes one of them (`Starved`); the docstring of
  `index_pending` (`:78`) says that it embeds the un-indexed rows.
- `MCWebhookOverlap`, of MCWebhook (`CooldownKept`, `caesar/praetor/routes/webhook.py:79`). Two overlapping POSTs both pass a webhook's cooldown, which the
  fire marks later (`webhook_dispatcher.py:194`); `docs/PROACTIVE-CAESAR.md:167` has every POST inside the window
  return 429. `CloseFiresOverlap` says that nothing else gets around it.
- `MCLegionSharedId`, of MCLegion (`HandledByOne`, `caesar/legion/worker.py:93`). A worker's id is an attribute of its class, so a class on two hosts
  subscribes twice to one subject, without a queue group, and both execute each task; `caesar/legion/registry.py:118`: "Send one
  task to a worker". `HandledByOne` holds of distinct ids.

Seen while modelling, without a run of their own:

- A worker registers once (`legion/worker.py:99`): nobody hears it before the registry subscribed,
  and after a restart of Praetor nobody remembers it, where `docs/RUN-A-WORKER.md:123-125` promises a worker
  that "shows up as online within a few seconds" and a heartbeat. Workers inside Praetor are not
  affected (`InProcessOnline`).
- Rows are written after effects; an exception in between leaves a service call or a task without one
  (`praetor/dispatch.py:53`, against `docs/ARCHITECTURE.md:83`). What the model is *told* has its row (`ToldIsAudited`).
- A stop that cancels the HA driver at the write of a `trigger.suppressed` row loses the row, which was
  popped before the await (`ha_driver.py:182`), although the module's docstring (lines 22-23) says that
  stop() leaves the audit log complete. `SuppressionsAccounted` counts such rows as cut.
- "Confidence is a ratchet" (`tests/test_memory_facts.py:127`), and `upsert` takes the maximum of its own and of the stored
  one - the one it read a transaction earlier (`memory/facts.py:149`). An operator's edit that confirms the value in between,
  at full confidence, is lowered again. `ConfidenceRatchets` says that it is
  never lowered otherwise, for a key whose changes all have their rows.
- Every registration rebuilds every cycle (`registry.py:97`), so turns start again;
  `RoundRobinFair` is stated between registrations.
- `graph.py:266` asserts what the offer of tools was meant to guarantee: a model that asks for a tool
  it was not offered ends the decision (`ServiceWithoutHA`, `WorkerUseWithoutRegistry`).
- The HA driver starts a cooldown before the brain run, ADR-0031 section 4 says "after a successful fire".
- `max_runtime_seconds` caps scheduled runs only; `docs/PROACTIVE-CAESAR.md:157` and `:168` say it
  caps the other two kinds as well.
- A TimeoutError that a scheduled run raises itself is recorded as `trigger.timeout`
  (`scheduler.py:193`, `RunTimesOut`).
- A stopping scheduler is not heard while its tick finds more that is due, and a failing audit
  write ends its task silently; `stop()` then raises and the rest of the shutdown is skipped.
- **Ids come back.** `audit_log.id` and `personal_facts.id` have no AUTOINCREMENT: after the newest rows are
  deleted their ids are given again. A chat under such an id may lie behind the extractor's
  cursor and is never heard, a chunk may be shown beside another row's text, and an update by id
  may change another key's fact (`HitOther`). The properties of Memory and Facts say so: `FirstUse`, `lost`.
- The extractor's docstring says "never re-extract" (`extract.py:15-16`): it holds between batches, not when one is
  abandoned (`AskedAgainOnlyIfCut`).
- Several comments speak of the extractor as a worker that runs and of edits on the dashboard (`facts.py:18-20`,
  `config.py:187-223`); neither is wired in ([section 2](#2-modules-and-the-code-they-stand-for)).
- `compare_digest` raises on text that is not ASCII: a webhook bearer or a dashboard token of that kind is answered 500, in the dashboard
  without a failure recorded (`webhook_dispatcher.py:98`, `dashboard/auth.py:84`; `Unauthorized`, `CompareRaises`).
- Two calls on one key at a time (an upsert and an edit) may leave rows that tell what did not
  happen (`raced`).
- The live audit page may show rows twice or out of order, and can miss some: a queue that
  is full, a stream that reconnects, rows streamed before the first page is swapped in. `PageAccounts` holds of every page
  to which none of that happened.
- A blank system prompt is answered as if the override were gone, and is not saved.
- An exception while starting stops nothing that was started; one while stopping skips the rest. An open
  audit stream holds uvicorn's shutdown, and a second signal skips the lifespan's.
- OpenAI arguments that are JSON but no object end the decision (`Rejected`); Ollama's become `{}`. The
  OpenAI and Ollama translations drop `is_error`. Ollama's made-up ids repeat from answer to answer, so
  only their place tells results apart. A proactive prompt has the safety preamble twice.
- A reply at the iteration cap may be blank, and proactive runs write no `chat.completed` row.

## 7. What is not modelled

- **Tool workers' bodies, HTTP clients**: one request each, without state; their results are
  unconstrained inputs (any response, `handle()` returns or raises).
- **Backup, restore, migrations**: offline programs of one process and one pass (`db/backup.py` removes the
  destination before it copies).
- **Parsing** of YAML fields, environment, CLI arguments and messages, but for what decides the control of Lifespan; formatting of prompts, bodies and
  rows; logging, metrics, tracing: no modelled behaviour depends on them.
- **Equal trigger ids**: cooldowns and suppressions are kept by the trigger's id, whose uniqueness no loader
  checks; HADriver keeps them by the trigger's place in the file, so its triggers have ids of their own.
- **Payloads of rows**: a `settings.updated` row has the prompt's key and length only; in Dashboard it stands for the
  prompt it was written for.
- **SQLite**: a row is written atomically or the write raises. In HADriver a cancelled write may have
  reached the database or not.
- **NATS** itself: at most once, in order per subscription, "no responders" at once. Reconnection inside
  the client is a loss of messages at most, which is covered by processes going down.
- **Time** counts in moments (a second, a minute); the wall clock does not go backwards.
- The length of the HA backoff, signatures of cookies and NKeys, the clamp of long payloads, read-only pages
  and routes.

## 8. Plan

The parts of the system that keep state over time are modelled, and every safety property of the passing runs is proved. What would come next:

1. **Triggers and Brain together**: the three drivers call the runner, whose `fire` is a step here and a decision of Brain there;
   a composition would carry `OnlyGranted` over to what an unattended trigger makes happen.
2. **The clamp of long payloads** (`db/audit_clamp.py`) as an operator, with what it keeps of a row.
3. **The extractor and the facts in Praetor**, once the lifespan starts them: their jobs in Lifespan, fairness of the extractor's
   loop, and with it that every chat is heard.
4. **Heartbeats**, as soon as the code has them: `InProcessOnline` for remote workers and for a Praetor that restarts.
