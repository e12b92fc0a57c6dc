-------------------------------- MODULE Memory --------------------------------
(***************************************************************************)
(* What reads the audit log by rowid (caesar/db/audit.py) and what deletes *)
(* from it: the retention sweep (caesar/memory/retention.py), the fact     *)
(* extractor with its cursor (memory/extract.py) and the semantic indexer  *)
(* with its chunks (memory/semantic.py).                                   *)
(*                                                                         *)
(* audit_log.id is an INTEGER PRIMARY KEY without AUTOINCREMENT: SQLite    *)
(* gives a new row the largest id in the table plus one, so the id of a    *)
(* row that was swept can be given again.  A serial number, which no table *)
(* holds, tells the rows apart.                                            *)
(*                                                                         *)
(* Praetor starts the sweeper and the indexer (praetor/app.py:305-343).    *)
(* Nothing under caesar/ builds the extractor yet: it is modelled as its   *)
(* class is written and tested, and no fairness is assumed of it.          *)
(***************************************************************************)
EXTENDS Integers, FiniteSets

CONSTANTS
    BatchSize,    \* rows the extractor and the indexer take at a time
    Retention,    \* settings.memory.retention_days
    Days,         \* what an operator gives to "caesar memory sweep --apply --days"
    MaxRows,      \* bound: rows ever written
    MaxTime,      \* bound: the last moment
    MaxFaults     \* bound: failures and restarts

ASSUME MemoryAssumption ==
    /\ BatchSize \in Nat \ {0}
    /\ Retention \in Nat \ {0} /\ Days \subseteq Nat \ {0}
    /\ MaxRows \in Nat /\ MaxTime \in Nat /\ MaxFaults \in Nat

VARIABLES
    log,       \* the rows of audit_log
    written,   \* rows ever written
    now,       \* the present moment
    sweeping,  \* the sweeps that deleted rows and have yet to write their own
    cursor,    \* memory_extract_cursor.last_audit_id, 0 without the row
    ext,       \* the extractor's batch: the rows to do and those done
    idx,       \* the indexer's batch
    chunks,    \* semantic_chunks: the audit_log_id and whose text it holds
    faults,
    asked,     \* history: how often a row's transcript was given to the LLM
    heard,     \* history: the rows, by serial, for which it answered
    missed,    \* history: the rows for which its call raised
    cut        \* history: how often a batch was abandoned after it was asked

history == <<asked, heard, missed, cut>>
vars == <<log, written, now, sweeping, cursor, ext, idx, chunks, faults, history>>

\* The chat.completed rows by what they say: "talk" has the operator's words and a
\* reply, "mute" an empty reply, "blank" no words of the operator's.
Kinds == {"talk", "mute", "blank", "other"}
Chats == {r \in log : r.kind # "other"}
HasTranscript(r) == r.kind \in {"talk", "mute"}
HasText(r) == r.kind \in {"talk", "blank"}

Serials == 1 .. MaxRows
Rows == [id : Serials, serial : Serials, kind : Kinds, ts : 0 .. MaxTime]
NoBatch == [todo |-> {}, done |-> {}]

Init ==
    /\ log = {} /\ written = 0 /\ now = 0 /\ sweeping = {}
    /\ cursor = 0
    /\ ext = NoBatch /\ idx = {}
    /\ chunks = {}
    /\ faults = 0
    /\ asked = [s \in Serials |-> 0] /\ heard = {} /\ missed = {} /\ cut = [s \in Serials |-> 0]

MaxId(S) == CHOOSE m \in {r.id : r \in S} \cup {0} : \A r \in S : r.id <= m
NextId == MaxId(log) + 1

\* ORDER BY id LIMIT n
First(S, n) == {r \in S : Cardinality({q \in S : q.id < r.id}) < n}

Fault == faults < MaxFaults /\ faults' = faults + 1

-----------------------------------------------------------------------------
(***************************************************************************)
(* Writers of the log.  A row beyond MaxRows is left out.                  *)
(***************************************************************************)
Appended(kind) == log \cup {[id |-> NextId, serial |-> written + 1, kind |-> kind, ts |-> now]}

Insert(kind) ==
    /\ written < MaxRows
    /\ log' = Appended(kind)
    /\ written' = written + 1

Audit == \/ Insert("other")
         \/ written = MaxRows /\ UNCHANGED <<log, written>>

\* AuditLogger.record, for a chat and for anything else.
Record(kind) ==
    /\ Insert(kind)
    /\ UNCHANGED <<now, sweeping, cursor, ext, idx, chunks, faults, history>>

Tick ==
    /\ now < MaxTime
    /\ now' = now + 1
    /\ UNCHANGED <<log, written, sweeping, cursor, ext, idx, chunks, faults, history>>

\* sweep_once: one transaction deletes, a later one writes the row that says so.  It is
\* run by the loop of RetentionSweeper and, in a process of its own, from the command line.
Sweepers == {"service", "cli"}

Expired(age) == {r \in log : r.ts < now - age}

Sweep(who, age) ==
    /\ who \notin sweeping
    /\ Expired(age) # {}
    /\ log' = log \ Expired(age)
    /\ sweeping' = sweeping \cup {who}
    /\ UNCHANGED <<written, now, cursor, ext, idx, chunks, faults, history>>

SweepRow(who) ==
    /\ who \in sweeping
    /\ sweeping' = sweeping \ {who}
    /\ \/ Audit /\ UNCHANGED faults
       \/ Fault /\ UNCHANGED <<log, written>>
    /\ UNCHANGED <<now, cursor, ext, idx, chunks, history>>

ServiceSweeps == Sweep("service", Retention)

OperatorSweeps == \E days \in Days : Sweep("cli", days)

-----------------------------------------------------------------------------
(***************************************************************************)
(* The extractor.  extract_once reads the cursor and a batch of chats      *)
(* beyond it, goes through them in the order of their ids, and writes the  *)
(* cursor once at the end; an exception abandons the batch.                *)
(***************************************************************************)
\* slip: the batch begins at the cursor instead of after it
PendingInclusive == {r \in Chats : r.id >= cursor}

Pending == {r \in Chats : r.id > cursor}

Fetch ==
    /\ ext = NoBatch
    /\ Pending # {}
    /\ ext' = [todo |-> First(Pending, BatchSize), done |-> {}]
    /\ UNCHANGED <<log, written, now, sweeping, cursor, idx, chunks, faults, history>>

IsNext(r) == r \in ext.todo /\ \A q \in ext.todo : r.id <= q.id

Advanced(r) == [todo |-> ext.todo \ {r}, done |-> ext.done \cup {r}]

SkipRow(r) ==
    /\ IsNext(r) /\ ~ HasTranscript(r)
    /\ ext' = Advanced(r)
    /\ UNCHANGED <<log, written, now, sweeping, cursor, idx, chunks, faults, history>>

Asked(r) ==
    /\ IsNext(r) /\ HasTranscript(r)
    /\ asked' = [asked EXCEPT ![r.serial] = @ + 1]

\* The provider answers.  An answer without a usable fact is no fact; a fact is upserted
\* and leaves a row (memory/facts.py).
Heard(r) ==
    /\ Asked(r)
    /\ heard' = heard \cup {r.serial}
    /\ ext' = Advanced(r)
    /\ Audit \/ UNCHANGED <<log, written>>
    /\ UNCHANGED <<now, sweeping, cursor, idx, chunks, faults, missed, cut>>

\* The provider is down: _extract_one swallows what complete() raises and returns no
\* fact, so the batch goes on past the row as past one that has none.
CallRaises(r) ==
    /\ Fault
    /\ Asked(r)
    /\ missed' = missed \cup {r.serial}
    /\ ext' = Advanced(r)
    /\ UNCHANGED <<log, written, now, sweeping, cursor, idx, chunks, heard, cut>>

Abandoned(done) == [s \in Serials |->
    IF \E r \in done : r.serial = s /\ HasTranscript(r) THEN cut[s] + 1 ELSE cut[s]]

\* The upsert of one of the row's facts raises.
UpsertRaises(r) ==
    /\ Fault
    /\ Asked(r)
    /\ heard' = heard \cup {r.serial}
    /\ cut' = Abandoned(ext.done \cup {r})
    /\ ext' = NoBatch
    /\ UNCHANGED <<log, written, now, sweeping, cursor, idx, chunks, missed>>

\* slip: the cursor takes the newest id of the log instead of the batch's
CursorNewest ==
    /\ ext.todo = {} /\ ext.done # {}
    /\ cursor' = MaxId(Chats \cup ext.done)
    /\ ext' = NoBatch
    /\ UNCHANGED <<log, written, now, sweeping, idx, chunks, faults, history>>

CursorWritten ==
    /\ ext.todo = {} /\ ext.done # {}
    /\ cursor' = MaxId(ext.done)
    /\ ext' = NoBatch
    /\ UNCHANGED <<log, written, now, sweeping, idx, chunks, faults, history>>

CursorFails ==
    /\ Fault
    /\ ext.todo = {} /\ ext.done # {}
    /\ cut' = Abandoned(ext.done)
    /\ ext' = NoBatch
    /\ UNCHANGED <<log, written, now, sweeping, cursor, idx, chunks, asked, heard, missed>>

-----------------------------------------------------------------------------
(***************************************************************************)
(* The indexer.  index_pending takes the first rows without a chunk, then  *)
(* drops those without text, embeds the rest and stores them together.     *)
(***************************************************************************)
Unindexed == {r \in Chats : \A c \in chunks : c.id # r.id}

\* slip: a row without text ends the pass
SelectedUpToGap == IF \A r \in First(Unindexed, BatchSize) : HasText(r)
                   THEN First(Unindexed, BatchSize) ELSE {}

Selected == {r \in First(Unindexed, BatchSize) : HasText(r)}

Select ==
    /\ idx = {}
    /\ Selected # {}
    /\ idx' = Selected
    /\ UNCHANGED <<log, written, now, sweeping, cursor, ext, chunks, faults, history>>

\* slip: the vectors are zipped with the rows selected, those without text included
ChunksShifted(batch) ==
    LET rows == First(Unindexed, Cardinality(batch))
        Rank(S, r) == Cardinality({q \in S : q.id < r.id})
    IN  {[id |-> rq[1].id, serial |-> rq[2].serial] :
            rq \in {p \in rows \X batch : Rank(rows, p[1]) = Rank(batch, p[2])}}

\* Each vector is stored with the row and the text it was made from.
ChunksOf(batch) == {[id |-> r.id, serial |-> r.serial] : r \in batch}

Store ==
    /\ idx # {}
    /\ chunks' = chunks \cup ChunksOf(idx)
    /\ idx' = {}
    /\ UNCHANGED <<log, written, now, sweeping, cursor, ext, faults, history>>

EmbedFails ==
    /\ Fault
    /\ idx # {} /\ idx' = {}
    /\ UNCHANGED <<log, written, now, sweeping, cursor, ext, chunks, history>>

\* Praetor stops, or dies, and starts again.
Restart ==
    /\ Fault
    /\ ext # NoBatch \/ idx # {} \/ "service" \in sweeping
    /\ cut' = Abandoned(ext.done)
    /\ ext' = NoBatch /\ idx' = {} /\ sweeping' = sweeping \ {"service"}
    /\ UNCHANGED <<log, written, now, cursor, chunks, asked, heard, missed>>

-----------------------------------------------------------------------------
Indexes == Select \/ Store

Next ==
    \/ \E kind \in Kinds : Record(kind)
    \/ Tick
    \/ ServiceSweeps \/ OperatorSweeps
    \/ \E who \in Sweepers : SweepRow(who)
    \/ Fetch \/ CursorWritten \/ CursorFails
    \/ \E r \in ext.todo : SkipRow(r) \/ Heard(r) \/ CallRaises(r) \/ UpsertRaises(r)
    \/ Select \/ Store \/ EmbedFails
    \/ Restart

Spec == Init /\ [][Next]_vars

\* The indexer's loop is started with Praetor and outlives every exception
\* (semantic.py, SemanticIndexer._loop).
FairSpec == Spec /\ WF_vars(Indexes)

-----------------------------------------------------------------------------
TypeOK ==
    /\ log \subseteq Rows /\ written \in 0 .. MaxRows /\ now \in 0 .. MaxTime
    /\ sweeping \subseteq Sweepers /\ cursor \in 0 .. MaxRows
    /\ ext \in [todo : SUBSET Rows, done : SUBSET Rows]
    /\ idx \subseteq Rows
    /\ chunks \subseteq [id : Serials, serial : Serials]
    /\ faults \in 0 .. MaxFaults
    /\ asked \in [Serials -> Nat] /\ heard \subseteq Serials /\ missed \subseteq Serials
    /\ cut \in [Serials -> Nat]

\* A row keeps its place in the order of writing as its id until a sweep has taken the
\* newest row of the log; from then on every new row has an id that was given before.
FirstUse(r) == r.id = r.serial

\* The chats behind the cursor that the LLM never answered for.
PassedOver ==
    {r \in log : HasTranscript(r) /\ r.id <= cursor /\ FirstUse(r) /\ r.serial \notin heard}

\* The cursor passes such a chat for one reason: the call to the LLM raised (extract.py,
\* extract_once with _extract_one).  No abandoned batch, restart or sweep makes it do so;
\* of chats under an id that was given before it says nothing.
CursorCovers == \A r \in PassedOver : r.serial \in missed

\* "Failures (LLM down, bad JSON) skip the row but don't advance the cursor - retried on
\* next poll" (docs/adr/0033-personal-facts.md:103-104): no chat is passed over at all.
\* The code passes those whose call raised; bad JSON counts as an answer here.
FailureIsRetried == PassedOver = {}

\* A transcript is given to the LLM once, and once more only for each batch that was
\* abandoned after it had been, the cursor being written batch by batch.
AskedAgainOnlyIfCut ==
    \A s \in Serials : asked[s] <= cut[s] + 1

\* cosine_top_k joins the chunks to the log by id; the text it finds beside a row is that
\* row's own, unless the row's id was given before.
Recalled == {cr \in chunks \X log : cr[1].id = cr[2].id}

RecallsOwnText ==
    \A cr \in Recalled : FirstUse(cr[2]) => cr[1].serial = cr[2].serial

\* "If the audit row goes, its embedding goes with it"
\* (docs/adr/0020-memory-retention-ttl.md:88-89).  The sweep leaves the chunks.
EmbeddingGoesWithRow == \A c \in chunks : \E r \in log : r.serial = c.serial

\* Once the operator falls silent every reply left is embedded (SemanticIndexer._loop),
\* unless its id was given before or a whole batch of older rows without text stands before
\* it: index_pending selects those again on every pass until a sweep takes them.
Starved(r) == Cardinality({q \in Chats : q.id < r.id /\ ~ HasText(q)}) >= BatchSize

Unembedded == {r \in log : HasText(r) /\ FirstUse(r) /\ \A c \in chunks : c.serial # r.serial}

ReplyIsIndexed == []<>(\A r \in Unembedded : Starved(r))

\* "Embed and store un-indexed audit rows of the configured types" (semantic.py:78): a pass
\* that selects nothing leaves no text behind.  The LIMIT is applied before the rows without
\* text are dropped, so a full batch of those hides what stands after it.
PassFindsText == Selected = {} => \A r \in Unindexed : ~ HasText(r)

\* The cursor only moves forward, and what a step moves it past was done in the batch just
\* ended, but for the rows no transcript of which is due: those of another kind and those
\* whose id was given before (extract.py, extract_once and _write_cursor).
CursorOnlyForward ==
    [][/\ cursor <= cursor'
       /\ \A r \in log : HasTranscript(r) /\ FirstUse(r) /\ cursor < r.id /\ r.id <= cursor'
              => r \in ext.done]_vars
=============================================================================
