------------------------------ MODULE Dashboard ------------------------------
(***************************************************************************)
(* The dashboard of Praetor: the login, the live audit page and the        *)
(* settings page (caesar/praetor/dashboard/routes.py, templates/home.html) *)
(* over AuditLogger (db/audit.py), AuditEventBus (praetor/audit_bus.py)    *)
(* and SettingsStore (db/settings_store.py).                               *)
(*                                                                         *)
(* A tab loads the newest rows with one request and follows the new ones   *)
(* on a stream it opens at the same time.  AuditLogger commits a row       *)
(* before it publishes it.  A row is its id, the place in the log, and for *)
(* a settings.updated row the prompt it was written for; the payload       *)
(* itself has no more of it than the length.                               *)
(***************************************************************************)
EXTENDS Login

CONSTANTS
    Tabs,         \* browser tabs
    AddressOf,    \* the address of each tab
    Writers,      \* coroutines that write audit rows
    Prompts,      \* system prompts an operator may save
    NoPrompt,     \* no override; a row of another event
    HistoryLimit, \* dashboard.history_limit
    QueueSize,    \* AuditEventBus's queue_size
    Crowds,       \* who is there: the actors of a behaviour
    MaxRows       \* bound: audit rows

ASSUME DashboardAssumption ==
    /\ AddressOf \in [Tabs -> Addresses]
    /\ NoPrompt \notin Prompts
    /\ HistoryLimit \in Nat \ {0} /\ QueueSize \in Nat \ {0} /\ MaxRows \in Nat
    /\ \A c \in Crowds :
           /\ c.knocking \subseteq Addresses /\ c.signedIn \subseteq Addresses
           /\ c.tabs \subseteq Tabs
           /\ c.editors \subseteq Writers /\ c.deciders \subseteq Writers

VARIABLES
    crowd,
    log,      \* audit_log: per id, the prompt it tells of or NoPrompt
    prompt,   \* the row llm.system_prompt of app_settings
    pc,       \* per writer: where it is
    text,     \* per writer: the prompt it saves, NoPrompt for another event
    mine,     \* per writer: the id of its row
    page,     \* per tab: the rows' place on the page
    snap,     \* per tab: the ids the request has selected
    shown,    \* per tab: the ids on the page
    stream,   \* per tab: its EventSource
    queue,    \* per tab: its queue on the bus
    gaps,     \* history, per tab: how it may have missed a row
    blurred   \* history: posts overlapped or a settings.updated row failed

pageVars   == <<page, snap, shown, stream, queue, gaps>>
writerVars == <<log, prompt, pc, text, mine, blurred>>
dashboardVars == <<loginVars, crowd, pageVars, writerVars>>

Causes == {"overflow", "wiped", "apart"}

DashboardInit ==
    /\ LoginInit
    /\ crowd \in Crowds /\ signedIn = crowd.signedIn
    /\ log = <<>> /\ prompt = NoPrompt /\ blurred = FALSE
    /\ pc = [w \in Writers |-> "idle"]
    /\ text = [w \in Writers |-> NoPrompt]
    /\ mine = [w \in Writers |-> 0]
    /\ page = [t \in Tabs |-> "closed"]
    /\ snap = [t \in Tabs |-> {}]
    /\ shown = [t \in Tabs |-> {}]
    /\ stream = [t \in Tabs |-> "off"]
    /\ queue = [t \in Tabs |-> <<>>]
    /\ gaps = [t \in Tabs |-> {}]

Ids(rows) == {rows[i] : i \in DOMAIN rows}
HasSession(t) == AddressOf[t] \in signedIn

-----------------------------------------------------------------------------
(***************************************************************************)
(* AuditLogger.record(): commit, then publish.  post_settings saves the    *)
(* prompt in a transaction of its own before.                              *)
(***************************************************************************)
\* slip: the row in app_settings is inserted but never updated
InsertedOnce(p) == IF prompt = NoPrompt THEN p ELSE prompt

Upserted(p) == p

Saving == {w \in Writers : pc[w] = "saved"}

\* A blank prompt is neither saved nor told: Prompts are the others.
PostSettings(w, p) ==
    /\ pc[w] = "idle" /\ signedIn # {}
    /\ prompt' = Upserted(p)
    /\ text' = [text EXCEPT ![w] = p]
    /\ pc' = [pc EXCEPT ![w] = "saved"]
    /\ blurred' = (Saving # {})
    /\ UNCHANGED <<log, mine, pageVars>>

Commit(w) ==
    /\ Len(log) < MaxRows
    /\ log' = Append(log, text[w])
    /\ mine' = [mine EXCEPT ![w] = Len(log) + 1]
    /\ pc' = [pc EXCEPT ![w] = "publish"]

TellSettings(w) ==
    /\ pc[w] = "saved" /\ Commit(w)
    /\ UNCHANGED <<prompt, text, blurred, pageVars>>

TellFails(w) ==
    /\ pc[w] = "saved"
    /\ pc' = [pc EXCEPT ![w] = "idle"]
    /\ text' = [text EXCEPT ![w] = NoPrompt]
    /\ blurred' = TRUE
    /\ UNCHANGED <<log, prompt, mine, pageVars>>

\* A row of any other event.
Decide(w) ==
    /\ pc[w] = "idle" /\ Commit(w)
    /\ UNCHANGED <<prompt, text, blurred, pageVars>>

\* A tab misses an event for good when its rows are read without it and its stream is
\* not there, or is full.
MissedBy(t, id) ==
    IF stream[t] = "on" THEN (IF Len(queue[t]) = QueueSize THEN {"overflow"} ELSE {})
    ELSE IF page[t] \in {"selected", "loaded"} /\ id \notin snap[t] THEN {"apart"}
    ELSE {}

Publish(w) ==
    /\ pc[w] = "publish"
    /\ queue' = [t \in Tabs |-> IF stream[t] = "on" /\ Len(queue[t]) < QueueSize
                                THEN Append(queue[t], mine[w]) ELSE queue[t]]
    /\ gaps' = [t \in Tabs |-> gaps[t] \cup MissedBy(t, mine[w])]
    /\ pc' = [pc EXCEPT ![w] = "idle"]
    /\ text' = [text EXCEPT ![w] = NoPrompt]
    /\ mine' = [mine EXCEPT ![w] = 0]
    /\ UNCHANGED <<log, prompt, blurred, page, snap, shown, stream>>

-----------------------------------------------------------------------------
(***************************************************************************)
(* A tab: the request for the rows and the stream go their own ways.       *)
(***************************************************************************)
Open(t) ==
    /\ page[t] = "closed" /\ HasSession(t)
    /\ page' = [page EXCEPT ![t] = "asked"]
    /\ stream' = [stream EXCEPT ![t] = "wanted"]
    /\ UNCHANGED <<snap, shown, queue, gaps>>

\* slip: the oldest rows instead of the newest
SelectedOldest == {id \in DOMAIN log : id <= HistoryLimit}

\* order_by(desc(id)).limit(history_limit)
Selected == {id \in DOMAIN log : id > Len(log) - HistoryLimit}

AuditRows(t) ==
    /\ page[t] = "asked" /\ HasSession(t)
    /\ page' = [page EXCEPT ![t] = "selected"]
    /\ snap' = [snap EXCEPT ![t] = Selected]
    /\ UNCHANGED <<shown, stream, queue, gaps>>

\* hx-swap innerHTML: what the stream has put there is gone.
Swap(t) ==
    /\ page[t] = "selected"
    /\ page' = [page EXCEPT ![t] = "loaded"]
    /\ shown' = [shown EXCEPT ![t] = snap[t]]
    /\ gaps' = [gaps EXCEPT ![t] = @ \cup
                   (IF shown[t] \subseteq snap[t] THEN {} ELSE {"wiped"})]
    /\ UNCHANGED <<snap, stream, queue>>

Subscribe(t) ==
    /\ stream[t] = "wanted" /\ HasSession(t)
    /\ stream' = [stream EXCEPT ![t] = "on"]
    /\ UNCHANGED <<page, snap, shown, queue, gaps>>

Receive(t) ==
    /\ queue[t] # <<>>
    /\ shown' = [shown EXCEPT ![t] = @ \cup {Head(queue[t])}]
    /\ queue' = [queue EXCEPT ![t] = Tail(@)]
    /\ UNCHANGED <<page, snap, stream, gaps>>

\* An EventSource connects again by itself; a 401 ends it.
Unsubscribed(t) == IF queue[t] = <<>> THEN {} ELSE {"apart"}

Disconnect(t) ==
    /\ stream[t] = "on"
    /\ stream' = [stream EXCEPT ![t] = "wanted"]
    /\ queue' = [queue EXCEPT ![t] = <<>>]
    /\ gaps' = [gaps EXCEPT ![t] = @ \cup Unsubscribed(t)]
    /\ UNCHANGED <<page, snap, shown>>

Unauthorized(t) ==
    /\ ~ HasSession(t)
    /\ \/ /\ page[t] = "asked"
          /\ page' = [page EXCEPT ![t] = "refused"] /\ UNCHANGED stream
       \/ /\ stream[t] = "wanted"
          /\ stream' = [stream EXCEPT ![t] = "off"] /\ UNCHANGED page
    /\ UNCHANGED <<snap, shown, queue, gaps>>

Close(t) ==
    /\ page[t] # "closed"
    /\ page' = [page EXCEPT ![t] = "closed"]
    /\ stream' = [stream EXCEPT ![t] = "off"]
    /\ snap' = [snap EXCEPT ![t] = {}]
    /\ shown' = [shown EXCEPT ![t] = {}]
    /\ queue' = [queue EXCEPT ![t] = <<>>]
    /\ gaps' = [gaps EXCEPT ![t] = {}]

-----------------------------------------------------------------------------
\* Praetor goes down and comes back: its streams, its requests and what it was writing
\* are cut, a committed row is never published.
Unpublished == {mine[w] : w \in {v \in Writers : pc[v] = "publish"}}

Restart ==
    /\ LoginRestart
    /\ page' = [t \in Tabs |-> IF page[t] \in {"asked", "selected"} THEN "refused"
                               ELSE page[t]]
    /\ stream' = [t \in Tabs |-> IF stream[t] = "on" THEN "wanted" ELSE stream[t]]
    /\ queue' = [t \in Tabs |-> <<>>]
    /\ gaps' = [t \in Tabs |-> gaps[t] \cup Unsubscribed(t) \cup
                   (IF Unpublished \subseteq snap[t] THEN {} ELSE {"apart"})]
    /\ blurred' = (blurred \/ Saving # {})
    /\ pc' = [w \in Writers |-> "idle"]
    /\ text' = [w \in Writers |-> NoPrompt]
    /\ mine' = [w \in Writers |-> 0]
    /\ UNCHANGED <<crowd, log, prompt, snap, shown>>

TabStep(t) ==
    Open(t) \/ AuditRows(t) \/ Swap(t) \/ Subscribe(t) \/ Receive(t) \/ Disconnect(t)
        \/ Unauthorized(t) \/ Close(t)

WriterStep(w) ==
    \/ w \in crowd.editors /\ (TellSettings(w) \/ TellFails(w)
                                  \/ \E p \in Prompts : PostSettings(w, p))
    \/ w \in crowd.deciders /\ Decide(w)
    \/ Publish(w)

DashboardNext ==
    \/ (\E a \in crowd.knocking : Visit(a) \/ Tick)
          /\ UNCHANGED <<crowd, pageVars, writerVars>>
    \/ (\E t \in crowd.tabs : TabStep(t)) /\ UNCHANGED <<loginVars, crowd, writerVars>>
    \/ (\E w \in Writers : WriterStep(w)) /\ UNCHANGED <<loginVars, crowd>>
    \/ Restart

DashboardSpec == DashboardInit /\ [][DashboardNext]_dashboardVars

-----------------------------------------------------------------------------
DashboardTypeOK ==
    /\ LoginTypeOK /\ crowd \in Crowds
    /\ log \in Seq(Prompts \cup {NoPrompt}) /\ prompt \in Prompts \cup {NoPrompt}
    /\ pc \in [Writers -> {"idle", "saved", "publish"}]
    /\ text \in [Writers -> Prompts \cup {NoPrompt}]
    /\ mine \in [Writers -> 0 .. MaxRows]
    /\ page \in [Tabs -> {"closed", "asked", "selected", "loaded", "refused"}]
    /\ snap \in [Tabs -> SUBSET (1 .. MaxRows)] /\ shown \in [Tabs -> SUBSET (1 .. MaxRows)]
    /\ stream \in [Tabs -> {"off", "wanted", "on"}]
    /\ queue \in [Tabs -> Seq(1 .. MaxRows)]
    /\ gaps \in [Tabs -> SUBSET Causes] /\ blurred \in BOOLEAN

Oldest(t) ==
    IF snap[t] = {} THEN 1 ELSE CHOOSE id \in snap[t] : \A other \in snap[t] : id <= other

\* A loaded page shows every row from its oldest on, or will, unless its own queue
\* overflowed, the swap wiped a streamed row, or a row was published while its stream was
\* away (home.html, audit_bus.py:3-6): no order of commit, SELECT, publish, subscription
\* and swap, and no other tab, costs it a row.
PageAccounts ==
    \A t \in Tabs : page[t] = "loaded" /\ gaps[t] = {} =>
        Oldest(t) .. Len(log) \subseteq shown[t] \cup Ids(queue[t]) \cup Unpublished

LastTold ==
    LET rows == {i \in DOMAIN log : log[i] # NoPrompt}
    IN  IF rows = {} THEN NoPrompt
        ELSE log[CHOOSE i \in rows : \A j \in rows : j <= i]

\* The newest settings.updated row tells of the prompt that is stored, from a post on that
\* no other overlapped and whose row was written (routes.py, post_settings).
PromptTold == ~ blurred /\ Saving = {} => LastTold = prompt
=============================================================================
