----------------------------- MODULE MemoryProofs -----------------------------
(***************************************************************************)
(* Theorems about Memory for every batch size, every retention and every   *)
(* bound: what the extractor's cursor covers, how often a transcript is    *)
(* given away, and whose text a chunk finds.                               *)
(***************************************************************************)
EXTENDS Memory, FiniteSetTheorems, WellFoundedInduction, TLAPS

USE DEF history

-----------------------------------------------------------------------------
(***************************************************************************)
(* The two queries of the code: MAX(id) and ORDER BY id LIMIT n.           *)
(***************************************************************************)

\* A non-empty set of numbers has a least element.
LEMMA LeastNumber ==
    ASSUME NEW T \in SUBSET Nat, T # {}
    PROVE  \E x \in T : \A y \in T : x <= y
<1>1. PICK x \in T : \A y \in T : ~ (<<y, x>> \in OpToRel(<, Nat))
  BY WFMin, NatLessThanWellFounded, Zenon
<1>2. \A y \in T : ~ (y < x)
  BY <1>1 DEF OpToRel
<1> QED
  BY <1>2

\* MaxId bounds the ids of a set of rows, and is one of them or zero.
LEMMA MaxIdIsMax ==
    ASSUME NEW S \in SUBSET Rows
    PROVE  /\ MaxId(S) \in {r.id : r \in S} \cup {0}
           /\ MaxId(S) \in Nat
           /\ \A r \in S : r.id <= MaxId(S)
<1> DEFINE Ids == {r.id : r \in S} \cup {0}
           Bounds == {b \in Nat : \A i \in Ids : i <= b}
<1>1. \A i \in Ids : i \in Nat /\ i <= MaxRows
  BY MemoryAssumption DEF Rows, Serials
<1>2. MaxRows \in Bounds
  BY <1>1, MemoryAssumption
<1>3. PICK b \in Bounds : \A c \in Bounds : b <= c
  BY <1>2, LeastNumber
<1>4. b \in Ids
  <2>1. CASE b = 0
    BY <2>1
  <2>2. CASE b # 0 /\ b \notin Ids
    <3>1. b - 1 \in Nat /\ \A i \in Ids : i <= b - 1
      BY <1>1, <2>2
    <3> QED
      BY <3>1, <1>3
  <2> QED
    BY <2>1, <2>2
<1>5. \A r \in S : r.id \in Ids
  OBVIOUS
<1>6. \E m \in {r.id : r \in S} \cup {0} : \A r \in S : r.id <= m
  BY <1>4, <1>5
<1>7. MaxId(S) \in {r.id : r \in S} \cup {0} /\ \A r \in S : r.id <= MaxId(S)
  BY <1>6 DEF MaxId
<1> QED
  BY <1>1, <1>7

\* The first n rows leave no row out before one they hold.
LEMMA FirstIsDownward ==
    ASSUME NEW S \in SUBSET Rows, IsFiniteSet(S), NEW n \in Nat,
           NEW b \in First(S, n), NEW r \in S, r.id <= b.id
    PROVE  r \in First(S, n)
<1> DEFINE Before(x) == {q \in S : q.id < x.id}
<1>1. Before(r) \subseteq Before(b)
  BY DEF First, Rows, Serials
<1>2. IsFiniteSet(Before(b)) /\ Cardinality(Before(b)) \in Nat
  BY FS_Subset, FS_CardinalityType
<1>3. Cardinality(Before(r)) <= Cardinality(Before(b)) /\ Cardinality(Before(r)) \in Nat
  BY <1>1, <1>2, FS_Subset, FS_CardinalityType
<1>4. Cardinality(Before(b)) < n
  BY DEF First
<1> QED
  BY <1>2, <1>3, <1>4 DEF First

-----------------------------------------------------------------------------
(***************************************************************************)
(* Types.                                                                  *)
(***************************************************************************)
\* What a step does to the log: a sweep takes rows away, a writer adds one beyond every id.
NewRow(new) ==
    /\ log' = log \cup {new} /\ written' = written + 1
    /\ new.serial = written + 1 /\ new.id <= written + 1
    /\ \A r \in log : r.id < new.id

LogMoves == \/ log' \subseteq log /\ written' = written
            \/ \E new \in Rows : NewRow(new)

\* The rows a batch may still hold besides those of the log, and what their ids may be:
\* a serial belongs to one row, and an id is at most the serial.
Batched == ext.todo \cup ext.done
Known == log \cup Batched

Identity ==
    /\ IsFiniteSet(log)
    /\ \A r \in Known : r.id <= r.serial /\ r.serial <= written
    /\ \A r, q \in Known : r.serial = q.serial => r = q

LEMMA TypedInit == Init => TypeOK
BY MemoryAssumption DEF Init, TypeOK, NoBatch, Rows, Serials

LEMMA InsertMoves ==
    ASSUME TypeOK, Identity, NEW kind \in Kinds, Insert(kind)
    PROVE  written' \in 0 .. MaxRows /\ \E new \in Rows : NewRow(new)
<1> DEFINE new == [id |-> NextId, serial |-> written + 1, kind |-> kind, ts |-> now]
<1>1. NextId \in Nat \ {0} /\ NextId <= written + 1 /\ \A r \in log : r.id < NextId
  <2>1. log \in SUBSET Rows /\ written \in Nat
    BY DEF TypeOK
  <2>2. /\ MaxId(log) \in {r.id : r \in log} \cup {0} /\ MaxId(log) \in Nat
        /\ \A r \in log : r.id <= MaxId(log)
    BY <2>1, MaxIdIsMax
  <2>3. \A r \in log : r.id \in Nat /\ r.serial \in Nat /\ r.id <= written
    BY <2>1 DEF Identity, Known, Rows, Serials
  <2>4. MaxId(log) <= written
    BY <2>1, <2>2, <2>3
  <2> QED
    BY <2>1, <2>2, <2>3, <2>4 DEF NextId
<1>2. written + 1 \in Serials /\ written' \in 0 .. MaxRows
  BY MemoryAssumption DEF TypeOK, Insert, Serials
<1>3. new \in Rows
  BY <1>1, <1>2, MemoryAssumption DEF Rows, Serials, TypeOK
<1>4. NewRow(new)
  BY <1>1 DEF NewRow, Insert, Appended
<1> QED
  BY <1>2, <1>3, <1>4

LEMMA StepMoves ==
    ASSUME TypeOK, Identity, [Next]_vars
    PROVE  LogMoves /\ written' \in 0 .. MaxRows /\ log' \subseteq Rows
<1>1. ASSUME NEW kind \in Kinds, Insert(kind)
      PROVE  LogMoves /\ written' \in 0 .. MaxRows /\ log' \subseteq Rows
  BY <1>1, InsertMoves DEF LogMoves, NewRow, TypeOK
<1>2. ASSUME log' \subseteq log, written' = written
      PROVE  LogMoves /\ written' \in 0 .. MaxRows /\ log' \subseteq Rows
  BY <1>2 DEF LogMoves, TypeOK
<1>3. "other" \in Kinds
  BY DEF Kinds
<1>4. ASSUME NEW kind \in Kinds, Record(kind) PROVE Insert(kind)
  BY <1>4 DEF Record
<1>5. ASSUME NEW who \in Sweepers, SweepRow(who)
      PROVE  Insert("other") \/ (log' = log /\ written' = written)
  BY <1>5 DEF SweepRow, Audit
<1>6. ASSUME NEW who \in Sweepers, NEW age, Sweep(who, age)
      PROVE  log' \subseteq log /\ written' = written
  BY <1>6 DEF Sweep
<1>7. ASSUME NEW r \in ext.todo, Heard(r)
      PROVE  Insert("other") \/ (log' = log /\ written' = written)
  BY <1>7 DEF Heard, Audit
<1>8. CASE \/ Tick \/ Fetch \/ CursorWritten \/ CursorFails \/ Select \/ Store \/ EmbedFails
           \/ Restart \/ UNCHANGED vars
           \/ \E r \in ext.todo : SkipRow(r) \/ CallRaises(r) \/ UpsertRaises(r)
  <2>1. log' = log /\ written' = written
    BY <1>8 DEF Tick, Fetch, CursorWritten, CursorFails, Select, Store, EmbedFails, Restart,
                SkipRow, CallRaises, UpsertRaises, vars
  <2> QED
    BY <2>1, <1>2
<1> QED
  BY <1>1, <1>2, <1>3, <1>4, <1>5, <1>6, <1>7, <1>8
  DEF Next, ServiceSweeps, OperatorSweeps, Sweepers

LEMMA BatchTyped ==
    ASSUME TypeOK, Identity, [Next]_vars
    PROVE  /\ cursor' \in 0 .. MaxRows
           /\ ext' \in [todo : SUBSET Rows, done : SUBSET Rows]
           /\ Batched' \subseteq Batched \/ Batched' \subseteq log
<1> USE DEF TypeOK, Batched
<1>1. CASE Fetch
  BY <1>1 DEF Fetch, First, Pending, Chats
<1>2. CASE CursorWritten
  <2>1. MaxId(ext.done) \in {r.id : r \in ext.done} \cup {0}
    BY MaxIdIsMax
  <2>2. \A r \in ext.done : r.id \in 0 .. MaxRows
    BY DEF Rows, Serials
  <2>3. MaxId(ext.done) \in 0 .. MaxRows
    BY <2>1, <2>2, MemoryAssumption
  <2> QED
    BY <1>2, <2>3 DEF CursorWritten, NoBatch
<1>3. ASSUME NEW r \in ext.todo, SkipRow(r) \/ Heard(r) \/ CallRaises(r) \/ UpsertRaises(r)
      PROVE  /\ cursor' = cursor
             /\ ext' \in [todo : SUBSET Rows, done : SUBSET Rows]
             /\ Batched' \subseteq Batched
  BY <1>3 DEF SkipRow, Heard, CallRaises, UpsertRaises, Advanced, NoBatch
<1>4. CASE CursorFails \/ Restart
  BY <1>4 DEF CursorFails, Restart, NoBatch
<1>5. CASE \/ \E kind \in Kinds : Record(kind)
           \/ Tick \/ ServiceSweeps \/ OperatorSweeps
           \/ \E who \in Sweepers : SweepRow(who)
           \/ Select \/ Store \/ EmbedFails \/ UNCHANGED vars
  BY <1>5 DEF Record, Tick, ServiceSweeps, OperatorSweeps, Sweep, SweepRow, Select, Store,
              EmbedFails, vars
<1> QED
  BY <1>1, <1>2, <1>3, <1>4, <1>5 DEF Next

\* What the indexer holds comes from the log, and a chunk from what the indexer holds.
LEMMA IndexTyped ==
    ASSUME TypeOK, [Next]_vars
    PROVE  /\ idx' \subseteq idx \/ idx' \subseteq log
           /\ chunks' \subseteq chunks \cup ChunksOf(idx)
<1>1. CASE Select
  BY <1>1 DEF Select, Selected, First, Unindexed, Chats
<1>2. CASE Store \/ EmbedFails \/ Restart
  BY <1>2 DEF Store, EmbedFails, Restart
<1>3. CASE \/ \E kind \in Kinds : Record(kind)
           \/ Tick \/ ServiceSweeps \/ OperatorSweeps
           \/ \E who \in Sweepers : SweepRow(who)
           \/ Fetch \/ CursorWritten \/ CursorFails
           \/ \E r \in ext.todo : SkipRow(r) \/ Heard(r) \/ CallRaises(r) \/ UpsertRaises(r)
           \/ UNCHANGED vars
  BY <1>3 DEF Record, Tick, ServiceSweeps, OperatorSweeps, Sweep, SweepRow, Fetch,
              CursorWritten, CursorFails, SkipRow, Heard, CallRaises, UpsertRaises, vars
<1> QED
  BY <1>1, <1>2, <1>3 DEF Next

LEMMA CountsTyped ==
    ASSUME TypeOK, [Next]_vars
    PROVE  /\ asked' \in [Serials -> Nat] /\ cut' \in [Serials -> Nat]
           /\ heard' \subseteq Serials /\ missed' \subseteq Serials
           /\ now' \in 0 .. MaxTime /\ sweeping' \subseteq Sweepers /\ faults' \in 0 .. MaxFaults
<1> USE DEF TypeOK
<1>1. Fault => faults' \in 0 .. MaxFaults
  BY MemoryAssumption DEF Fault
<1>2. \A done : Abandoned(done) \in [Serials -> Nat]
  BY DEF Abandoned
<1>3. CASE Tick
  BY <1>3, MemoryAssumption DEF Tick
<1>4. ASSUME NEW r \in ext.todo, Heard(r) \/ CallRaises(r) \/ UpsertRaises(r)
      PROVE  /\ asked' \in [Serials -> Nat] /\ cut' \in [Serials -> Nat]
             /\ heard' \subseteq Serials /\ missed' \subseteq Serials
             /\ now' = now /\ sweeping' = sweeping /\ faults' \in 0 .. MaxFaults
  <2>1. r.serial \in Serials
    BY DEF Rows
  <2>2. asked' = [asked EXCEPT ![r.serial] = @ + 1]
    BY <1>4 DEF Heard, CallRaises, UpsertRaises, Asked
  <2>3. asked' \in [Serials -> Nat]
    BY <2>1, <2>2
  <2> QED
    BY <1>1, <1>2, <1>4, <2>1, <2>3 DEF Heard, CallRaises, UpsertRaises
<1>5. CASE CursorFails \/ Restart \/ EmbedFails
  BY <1>1, <1>2, <1>5 DEF CursorFails, Restart, EmbedFails
<1>6. ASSUME NEW who \in Sweepers, SweepRow(who)
      PROVE  /\ asked' = asked /\ cut' = cut /\ heard' = heard /\ missed' = missed /\ now' = now
             /\ sweeping' \subseteq Sweepers /\ faults' \in 0 .. MaxFaults
  BY <1>1, <1>6 DEF SweepRow
<1>7. CASE ServiceSweeps \/ OperatorSweeps
  BY <1>7 DEF ServiceSweeps, OperatorSweeps, Sweep, Sweepers
<1>8. CASE \/ \E kind \in Kinds : Record(kind)
           \/ Fetch \/ CursorWritten \/ Select \/ Store
           \/ \E r \in ext.todo : SkipRow(r)
           \/ UNCHANGED vars
  BY <1>8 DEF Record, Fetch, CursorWritten, Select, Store, SkipRow, vars
<1> QED
  BY <1>3, <1>4, <1>5, <1>6, <1>7, <1>8 DEF Next

LEMMA TypedStep ==
    ASSUME TypeOK, Identity, [Next]_vars
    PROVE  TypeOK'
<1>1. \A r \in Rows : r.id \in Serials /\ r.serial \in Serials
  BY DEF Rows
<1>2. idx' \subseteq Rows /\ chunks' \subseteq [id : Serials, serial : Serials]
  BY <1>1, IndexTyped DEF TypeOK, ChunksOf
<1> QED
  BY <1>2, StepMoves, BatchTyped, CountsTyped DEF TypeOK

-----------------------------------------------------------------------------
(***************************************************************************)
(* The inductive invariant.                                                *)
(***************************************************************************)
\* A later row has a greater id.
InOrder ==
    \A r, q \in log : (r.id = q.id => r = q) /\ (r.id < q.id <=> r.serial < q.serial)

\* A batch is what stands next beyond the cursor, without a gap, and its done part was given away.
BatchIsNext ==
    /\ cursor <= written
    /\ \A b \in Batched : cursor < b.id
    /\ \A r \in log, b \in Batched :
           HasTranscript(r) /\ FirstUse(r) /\ cursor < r.id /\ r.id <= b.id => r \in Batched
    /\ \A r \in ext.done : HasTranscript(r) => asked[r.serial] > 0

\* What is still to be given away has been given to the LLM only in batches that were abandoned.
NotYetAgain ==
    /\ \A s \in Serials : s > written => asked[s] = 0
    /\ \A r \in ext.todo : asked[r.serial] <= cut[r.serial]
    /\ \A r \in ext.done : ~ HasTranscript(r) => asked[r.serial] <= cut[r.serial]
    /\ \A r \in log : cursor < r.id /\ r \notin ext.done => asked[r.serial] <= cut[r.serial]

\* What is embedded keeps its place in the order of the rows left.
TextsInOrder ==
    \A x \in idx \cup chunks :
        /\ x.id <= x.serial /\ x.serial <= written
        /\ \A r \in log : r.serial < x.serial => r.id < x.id

\* What lies behind the cursor was given to the LLM.
AskedCovers ==
    \A r \in log : HasTranscript(r) /\ r.id <= cursor /\ FirstUse(r) => asked[r.serial] > 0

\* And whatever was given to it was answered, or the call raised.
AskedEnded == \A s \in Serials : asked[s] > 0 => s \in heard \cup missed

IInv == /\ TypeOK /\ Identity /\ InOrder /\ BatchIsNext /\ NotYetAgain /\ TextsInOrder
        /\ AskedCovers /\ AskedEnded /\ AskedAgainOnlyIfCut

LEMMA IInvInit == Init => IInv
<1> SUFFICES ASSUME Init PROVE IInv
  OBVIOUS
<1>1. TypeOK
  BY TypedInit
<1>2. IsFiniteSet(log)
  BY FS_EmptySet DEF Init
<1> QED
  BY <1>1, <1>2 DEF Init, NoBatch, IInv, Identity, Known, Batched, InOrder, BatchIsNext, NotYetAgain,
     TextsInOrder, AskedCovers, AskedEnded, AskedAgainOnlyIfCut

LEMMA RowNumbers == \A r \in Rows : r.id \in Nat /\ r.serial \in Nat /\ r.serial \in Serials
BY DEF Rows, Serials

LEMMA Numbers ==
    ASSUME TypeOK, Identity
    PROVE  /\ written \in Nat /\ cursor \in Nat
           /\ Known \subseteq Rows /\ Batched \subseteq Known /\ log \subseteq Known
           /\ ext.todo \subseteq Batched /\ ext.done \subseteq Batched
           /\ \A r \in Known : r.id \in Nat /\ r.serial \in Nat /\ r.id <= written /\ r.serial <= written
           /\ \A x \in idx \cup chunks : x.id \in Nat /\ x.serial \in Nat
<1>1. Known \subseteq Rows /\ Batched \subseteq Known /\ log \subseteq Known
      /\ ext.todo \subseteq Batched /\ ext.done \subseteq Batched
  BY DEF TypeOK, Known, Batched
<1>2. written \in Nat /\ cursor \in Nat
  BY DEF TypeOK
<1>3. \A r \in Known : r.id \in Nat /\ r.serial \in Nat /\ r.id <= written /\ r.serial <= written
  BY <1>1, <1>2, RowNumbers DEF Identity
<1>4. \A x \in idx : x.id \in Nat /\ x.serial \in Nat
  BY RowNumbers DEF TypeOK
<1>5. \A x \in chunks : x.id \in Nat /\ x.serial \in Nat
  BY DEF TypeOK, Serials
<1> QED
  BY <1>1, <1>2, <1>3, <1>4, <1>5

\* Whatever the step, the rows that can still be seen and their places.
LEMMA IdentityStep ==
    ASSUME TypeOK, Identity, [Next]_vars
    PROVE  Identity'
<1>1. IsFiniteSet(log')
  BY StepMoves, FS_Subset, FS_AddElement DEF LogMoves, NewRow, Identity
<1>2. written \in Nat /\ \A r \in Known : r.id \in Nat /\ r.serial \in Nat
  BY Numbers
<1>3. Batched' \subseteq Known
  BY BatchTyped DEF Known
<1>4. CASE log' \subseteq log /\ written' = written
  <2>1. Known' \subseteq Known
    BY <1>3, <1>4 DEF Known
  <2> QED
    BY <2>1, <1>1, <1>4 DEF Identity
<1>5. ASSUME NEW new \in Rows, NewRow(new)
      PROVE  Identity'
  <2>1. Known' \subseteq Known \cup {new}
    BY <1>3, <1>5 DEF Known, NewRow
  <2>2. /\ new.id <= new.serial /\ new.serial = written' /\ written' = written + 1
        /\ new.id \in Nat /\ new.serial \in Nat
    BY <1>2, <1>5 DEF NewRow, Rows, Serials
  <2>3. \A r \in Known : r.serial < new.serial /\ r.serial <= written'
    BY <1>2, <2>2 DEF Identity
  <2>4. \A r \in Known \cup {new} : r.id <= r.serial /\ r.serial <= written'
    BY <2>2, <2>3 DEF Identity
  <2>5. \A r, q \in Known \cup {new} : r.serial = q.serial => r = q
    BY <1>2, <2>2, <2>3 DEF Identity
  <2> QED
    BY <1>1, <2>1, <2>4, <2>5 DEF Identity
<1> QED
  BY <1>4, <1>5, StepMoves DEF LogMoves

LEMMA InOrderStep ==
    ASSUME TypeOK, Identity, InOrder, [Next]_vars
    PROVE  InOrder'
<1>1. written \in Nat
      /\ \A r \in log : r.id \in Nat /\ r.serial \in Nat /\ r.serial <= written
  BY Numbers
<1>2. ASSUME NEW new \in Rows, NewRow(new)
      PROVE  InOrder'
  <2>1. log' = log \cup {new} /\ new.id \in Nat
        /\ \A r \in log : r.id < new.id /\ r.serial < new.serial
    BY <1>1, <1>2 DEF NewRow, Rows, Serials
  <2> QED
    BY <1>1, <1>2, <2>1 DEF InOrder, NewRow
<1>3. CASE log' \subseteq log
  BY <1>3 DEF InOrder
<1> QED
  BY <1>2, <1>3, StepMoves DEF LogMoves

LEMMA TextsStep ==
    ASSUME TypeOK, Identity, InOrder, TextsInOrder, [Next]_vars
    PROVE  TextsInOrder'
<1>1. /\ written \in Nat /\ \A r \in log : r.id \in Nat /\ r.serial \in Nat
      /\ \A x \in idx \cup chunks : x.id \in Nat /\ x.serial \in Nat
  BY Numbers
<1> DEFINE Placed(x) == /\ x.id <= x.serial /\ x.serial <= written
                        /\ \A r \in log : r.serial < x.serial => r.id < x.id
<1>2. \A x \in log : Placed(x)
  BY DEF Identity, Known, InOrder
<1>3. \A x \in ChunksOf(idx) : \E q \in idx : x.id = q.id /\ x.serial = q.serial
  BY DEF ChunksOf
<1>4. \A x \in idx' \cup chunks' : x.id \in Nat /\ x.serial \in Nat /\ Placed(x)
  BY <1>1, <1>2, <1>3, IndexTyped DEF TextsInOrder
<1>5. ASSUME NEW new \in Rows, NewRow(new), NEW x \in idx' \cup chunks'
      PROVE  /\ x.id <= x.serial /\ x.serial <= written'
             /\ \A r \in log' : r.serial < x.serial => r.id < x.id
  BY <1>1, <1>4, <1>5 DEF NewRow
<1>6. CASE log' \subseteq log /\ written' = written
  BY <1>4, <1>6 DEF TextsInOrder
<1> QED
  BY <1>5, <1>6, StepMoves DEF LogMoves, TextsInOrder

-----------------------------------------------------------------------------
(***************************************************************************)
(* The extractor's batch and its cursor.                                   *)
(***************************************************************************)
\* A step of another part: the log moves, and the extractor keeps everything.
Aside == UNCHANGED <<cursor, ext, asked, cut>>

\* What the new row of a step is to the extractor: beyond the cursor and the batch if its
\* id is its own, and never given away.
LEMMA NewRowIsBeyond ==
    ASSUME TypeOK, Identity, BatchIsNext, NotYetAgain, NEW new \in Rows, NewRow(new)
    PROVE  /\ FirstUse(new) => cursor < new.id /\ \A b \in Batched : b.id < new.id
           /\ asked[new.serial] = 0 /\ cut[new.serial] \in Nat
           /\ new.serial \in Serials
           /\ \A b \in Known : b.serial \in Nat /\ b.serial # new.serial
           /\ new \notin Known
<1>1. written \in Nat /\ cursor \in Nat
      /\ \A b \in Known : b.id \in Nat /\ b.serial \in Nat /\ b.id <= written /\ b.serial <= written
  BY Numbers
<1>2. new.serial = written + 1 /\ new.serial \in Serials
  BY DEF NewRow, Rows
<1>3. cut[new.serial] \in Nat /\ asked[new.serial] = 0
  BY <1>1, <1>2 DEF TypeOK, NotYetAgain
<1> QED
  BY <1>1, <1>2, <1>3 DEF FirstUse, BatchIsNext, Known

\* What the four conjuncts of the extractor say of a step that only moves the log.
LEMMA AsideStep ==
    ASSUME IInv, LogMoves, Aside
    PROVE  /\ BatchIsNext' /\ NotYetAgain' /\ AskedCovers' /\ AskedAgainOnlyIfCut'
<1> USE DEF IInv
<1>1. AskedAgainOnlyIfCut'
  BY DEF Aside, AskedAgainOnlyIfCut
<1>2. Batched' = Batched
  BY DEF Aside, Batched
<1>3. CASE log' \subseteq log /\ written' = written
  BY <1>1, <1>2, <1>3 DEF Aside, BatchIsNext, NotYetAgain, AskedCovers
<1>4. ASSUME NEW new \in Rows, NewRow(new)
      PROVE  BatchIsNext' /\ NotYetAgain' /\ AskedCovers'
  <2>1. /\ FirstUse(new) => cursor < new.id /\ \A b \in Batched : b.id < new.id
        /\ asked[new.serial] = 0 /\ cut[new.serial] \in Nat
    BY <1>4, NewRowIsBeyond
  <2>2. /\ written \in Nat /\ cursor \in Nat /\ new.id \in Nat
        /\ \A b \in Batched : b.id \in Nat
        /\ log' = log \cup {new} /\ written' = written + 1
    BY <1>4 DEF TypeOK, Batched, Rows, Serials, NewRow
  <2>3. BatchIsNext'
    BY <1>2, <2>1, <2>2 DEF Aside, BatchIsNext
  <2>4. AskedCovers'
    BY <2>1, <2>2 DEF Aside, AskedCovers
  <2>5. \A r \in log' : cursor < r.id /\ r \notin ext.done => asked[r.serial] <= cut[r.serial]
    BY <2>1, <2>2 DEF NotYetAgain
  <2>6. \A s \in Serials : s > written' => asked[s] = 0
    BY <2>2 DEF NotYetAgain, Serials
  <2>7. NotYetAgain'
    BY <2>5, <2>6 DEF Aside, NotYetAgain
  <2> QED
    BY <2>3, <2>4, <2>7
<1> QED
  BY <1>1, <1>3, <1>4 DEF LogMoves

LEMMA FetchStep ==
    ASSUME IInv, Fetch
    PROVE  BatchIsNext' /\ NotYetAgain' /\ AskedCovers' /\ AskedAgainOnlyIfCut'
<1> USE DEF IInv
<1>1. /\ ext = NoBatch /\ ext' = [todo |-> First(Pending, BatchSize), done |-> {}]
      /\ UNCHANGED <<log, written, cursor, asked, cut>>
  BY DEF Fetch
<1>2. Pending \in SUBSET Rows /\ IsFiniteSet(Pending) /\ BatchSize \in Nat
  BY FS_Subset, MemoryAssumption DEF Pending, Chats, TypeOK, Identity
<1>3. Batched' = First(Pending, BatchSize) /\ ext.done = {} /\ ext'.done = {} /\ ext'.todo = Batched'
  BY <1>1 DEF Batched, NoBatch
<1>4. Batched' \subseteq Pending
  BY <1>3 DEF First
<1>5. ASSUME NEW r \in log, NEW b \in Batched',
             HasTranscript(r), cursor < r.id, r.id <= b.id
      PROVE  r \in Batched'
  <2>1. r \in Pending
    BY <1>5 DEF HasTranscript, Pending, Chats
  <2> QED
    BY <1>2, <1>3, <1>5, <2>1, FirstIsDownward
<1>6. BatchIsNext'
  BY <1>1, <1>3, <1>4, <1>5 DEF BatchIsNext, Pending
<1>7. NotYetAgain'
  BY <1>1, <1>3, <1>4 DEF NotYetAgain, Pending, Chats
<1>8. AskedCovers' /\ AskedAgainOnlyIfCut'
  BY <1>1 DEF AskedCovers, AskedAgainOnlyIfCut
<1> QED
  BY <1>6, <1>7, <1>8

LEMMA SkipStep ==
    ASSUME IInv, NEW r \in ext.todo, SkipRow(r)
    PROVE  BatchIsNext' /\ NotYetAgain' /\ AskedCovers' /\ AskedAgainOnlyIfCut'
<1> USE DEF IInv
<1>1. /\ ~ HasTranscript(r) /\ ext' = [todo |-> ext.todo \ {r}, done |-> ext.done \cup {r}]
      /\ UNCHANGED <<log, written, cursor, asked, cut>>
  BY DEF SkipRow, Advanced
<1>2. Batched' = Batched
  BY <1>1 DEF Batched
<1>3. BatchIsNext'
  BY <1>1, <1>2 DEF BatchIsNext
<1>4. NotYetAgain'
  BY <1>1 DEF NotYetAgain
<1>5. AskedCovers' /\ AskedAgainOnlyIfCut'
  BY <1>1 DEF AskedCovers, AskedAgainOnlyIfCut
<1> QED
  BY <1>3, <1>4, <1>5

\* One more transcript is given away: of the counts only that row's changes.
LEMMA OneMoreAsked ==
    ASSUME IInv, NEW r \in ext.todo, asked' = [asked EXCEPT ![r.serial] = @ + 1]
    PROVE  /\ r.serial \in Serials /\ r.serial <= written
           /\ asked'[r.serial] = asked[r.serial] + 1
           /\ asked[r.serial] <= cut[r.serial]
           /\ \A s \in Serials : asked[s] \in Nat /\ cut[s] \in Nat
           /\ \A s \in Serials : s # r.serial => asked'[s] = asked[s]
           /\ \A s \in Serials : asked'[s] \in Nat /\ asked[s] <= asked'[s]
           /\ \A q \in Known : q.serial = r.serial => q = r
<1>1. r \in Known /\ r.serial \in Serials /\ r.serial <= written
  BY Numbers, RowNumbers DEF IInv
<1>2. asked \in [Serials -> Nat] /\ cut \in [Serials -> Nat]
  BY DEF IInv, TypeOK
<1> QED
  BY <1>1, <1>2 DEF IInv, Identity, NotYetAgain

LEMMA HeardStep ==
    ASSUME IInv, LogMoves, NEW r \in ext.todo, Heard(r) \/ CallRaises(r)
    PROVE  BatchIsNext' /\ NotYetAgain' /\ AskedCovers' /\ AskedAgainOnlyIfCut'
<1> USE DEF IInv
<1>1. /\ HasTranscript(r) /\ ext' = [todo |-> ext.todo \ {r}, done |-> ext.done \cup {r}]
      /\ asked' = [asked EXCEPT ![r.serial] = @ + 1]
      /\ UNCHANGED <<cursor, cut>>
  BY DEF Heard, CallRaises, Asked, Advanced
<1>2. Batched' = Batched
  BY <1>1 DEF Batched
<1>3. /\ r.serial \in Serials /\ r.serial <= written
      /\ asked'[r.serial] = asked[r.serial] + 1
      /\ asked[r.serial] <= cut[r.serial]
      /\ \A s \in Serials : asked[s] \in Nat /\ cut[s] \in Nat
      /\ \A s \in Serials : s # r.serial => asked'[s] = asked[s]
      /\ \A s \in Serials : asked'[s] \in Nat /\ asked[s] <= asked'[s]
      /\ \A q \in Known : q.serial = r.serial => q = r
  BY <1>1, OneMoreAsked
<1>4. /\ written \in Nat /\ cursor \in Nat /\ ext.todo \subseteq Batched /\ ext.done \subseteq Batched
      /\ Batched \subseteq Known /\ log \subseteq Known
      /\ \A q \in Known : q \in Rows /\ q.id \in Nat /\ q.serial \in Serials
  BY Numbers, RowNumbers
<1>5. AskedAgainOnlyIfCut'
  BY <1>1, <1>3 DEF AskedAgainOnlyIfCut
<1>6. \A q \in ext'.done : HasTranscript(q) => asked'[q.serial] > 0
  <2>1. asked'[r.serial] > 0
    BY <1>3
  <2>2. \A q \in ext.done : HasTranscript(q) => asked'[q.serial] > 0
    BY <1>3, <1>4 DEF BatchIsNext
  <2> QED
    BY <1>1, <2>1, <2>2
<1>7. /\ \A q \in ext'.todo : asked'[q.serial] <= cut[q.serial]
      /\ \A q \in ext'.done : ~ HasTranscript(q) => asked'[q.serial] <= cut[q.serial]
      /\ \A q \in log : cursor < q.id /\ q \notin ext'.done => asked'[q.serial] <= cut[q.serial]
  BY <1>1, <1>3, <1>4 DEF NotYetAgain
<1>8. \A q \in log : HasTranscript(q) /\ q.id <= cursor /\ FirstUse(q) => asked'[q.serial] > 0
  BY <1>3, <1>4 DEF AskedCovers
<1>9. CASE log' \subseteq log /\ written' = written
  <2>1. BatchIsNext'
    BY <1>1, <1>2, <1>6, <1>9 DEF BatchIsNext
  <2>2. NotYetAgain'
    BY <1>1, <1>3, <1>4, <1>7, <1>9 DEF NotYetAgain, Serials
  <2>3. AskedCovers'
    BY <1>1, <1>8, <1>9 DEF AskedCovers
  <2> QED
    BY <1>5, <2>1, <2>2, <2>3
<1>10. ASSUME NEW new \in Rows, NewRow(new)
       PROVE  BatchIsNext' /\ NotYetAgain' /\ AskedCovers'
  <2>1. /\ FirstUse(new) => cursor < new.id /\ \A b \in Batched : b.id < new.id
        /\ asked[new.serial] = 0 /\ cut[new.serial] \in Nat
        /\ new.serial \in Serials
        /\ \A b \in Known : b.serial \in Nat /\ b.serial # new.serial
    BY <1>10, NewRowIsBeyond
  <2>2. /\ new.id \in Nat /\ log' = log \cup {new} /\ written' = written + 1
    BY <1>10, RowNumbers DEF NewRow
  <2>3. asked'[new.serial] = 0
    BY <2>1, <1>3, <1>4
  <2>4. BatchIsNext'
    BY <1>1, <1>2, <1>4, <1>6, <2>1, <2>2 DEF BatchIsNext
  <2>5. \A s \in Serials : s > written' => asked'[s] = 0
    BY <1>3, <1>4, <2>2 DEF NotYetAgain, Serials
  <2>6. NotYetAgain'
    BY <1>1, <1>7, <2>1, <2>2, <2>3, <2>5 DEF NotYetAgain
  <2>7. AskedCovers'
    BY <1>1, <1>4, <1>8, <2>1, <2>2 DEF AskedCovers
  <2> QED
    BY <2>4, <2>6, <2>7
<1> QED
  BY <1>5, <1>9, <1>10 DEF LogMoves

\* A batch is abandoned: every transcript of its done part may be given away once more.
LEMMA AbandonedCounts ==
    ASSUME cut \in [Serials -> Nat], NEW done \in SUBSET Rows
    PROVE  /\ \A s \in Serials : Abandoned(done)[s] \in Nat /\ cut[s] \in Nat /\ cut[s] <= Abandoned(done)[s]
           /\ \A r \in done : HasTranscript(r) => Abandoned(done)[r.serial] = cut[r.serial] + 1
BY RowNumbers DEF Abandoned

LEMMA NoBatchLeft ==
    ASSUME ext' = NoBatch
    PROVE  ext'.todo = {} /\ ext'.done = {} /\ Batched' = {}
BY DEF NoBatch, Batched

LEMMA AbandonStep ==
    ASSUME IInv, cut' = Abandoned(ext.done), ext' = NoBatch,
           UNCHANGED <<log, written, cursor, asked>>
    PROVE  BatchIsNext' /\ NotYetAgain' /\ AskedCovers' /\ AskedAgainOnlyIfCut'
<1> USE DEF IInv
<1>1. /\ asked \in [Serials -> Nat] /\ cut \in [Serials -> Nat] /\ ext.done \in SUBSET Rows
      /\ log \subseteq Rows /\ \A r \in log : r.serial \in Serials
  BY RowNumbers DEF TypeOK
<1>2. /\ \A s \in Serials : cut'[s] \in Nat /\ cut[s] \in Nat /\ cut[s] <= cut'[s]
      /\ \A r \in ext.done : HasTranscript(r) => cut'[r.serial] = cut[r.serial] + 1
  BY <1>1, AbandonedCounts
<1>3. BatchIsNext'
  BY NoBatchLeft DEF BatchIsNext
<1>4. AskedCovers' /\ AskedAgainOnlyIfCut'
  BY <1>1, <1>2 DEF AskedCovers, AskedAgainOnlyIfCut
<1>5. \A r \in log : cursor < r.id => asked[r.serial] <= cut'[r.serial]
  <2> SUFFICES ASSUME NEW r \in log, cursor < r.id PROVE asked[r.serial] <= cut'[r.serial]
    OBVIOUS
  <2>1. CASE r \in ext.done /\ HasTranscript(r)
    BY <2>1, <1>1, <1>2 DEF AskedAgainOnlyIfCut
  <2>2. CASE r \notin ext.done \/ ~ HasTranscript(r)
    BY <2>2, <1>1, <1>2 DEF NotYetAgain
  <2> QED
    BY <2>1, <2>2
<1>6. NotYetAgain'
  BY <1>5, NoBatchLeft DEF NotYetAgain
<1> QED
  BY <1>3, <1>4, <1>6

LEMMA UpsertRaisesStep ==
    ASSUME IInv, NEW r \in ext.todo, UpsertRaises(r)
    PROVE  BatchIsNext' /\ NotYetAgain' /\ AskedCovers' /\ AskedAgainOnlyIfCut'
<1> USE DEF IInv
<1> DEFINE done == ext.done \cup {r}
<1>1. /\ HasTranscript(r) /\ asked' = [asked EXCEPT ![r.serial] = @ + 1]
      /\ cut' = Abandoned(done) /\ ext' = NoBatch
      /\ UNCHANGED <<log, written, cursor>>
  BY DEF UpsertRaises, Asked
<1>2. /\ r.serial \in Serials /\ r.serial <= written
      /\ asked'[r.serial] = asked[r.serial] + 1
      /\ asked[r.serial] <= cut[r.serial]
      /\ \A s \in Serials : asked[s] \in Nat /\ cut[s] \in Nat
      /\ \A s \in Serials : s # r.serial => asked'[s] = asked[s]
      /\ \A s \in Serials : asked'[s] \in Nat /\ asked[s] <= asked'[s]
      /\ \A q \in Known : q.serial = r.serial => q = r
  BY <1>1, OneMoreAsked
<1>3. /\ written \in Nat /\ cursor \in Nat
      /\ \A q \in log : q \in Known /\ q \in Rows /\ q.id \in Nat /\ q.serial \in Serials
  BY Numbers, RowNumbers
<1>4. done \in SUBSET Rows /\ cut \in [Serials -> Nat]
  BY DEF TypeOK
<1>5. /\ \A s \in Serials : cut'[s] \in Nat /\ cut[s] <= cut'[s]
      /\ \A q \in done : HasTranscript(q) => cut'[q.serial] = cut[q.serial] + 1
  BY <1>1, <1>4, AbandonedCounts
<1>6. cut'[r.serial] = cut[r.serial] + 1
  BY <1>1, <1>5
<1>7. AskedAgainOnlyIfCut'
  <2> SUFFICES ASSUME NEW s \in Serials PROVE asked'[s] <= cut'[s] + 1
    BY DEF AskedAgainOnlyIfCut
  <2>1. CASE s = r.serial
    BY <2>1, <1>2, <1>6
  <2>2. CASE s # r.serial
    BY <2>2, <1>2, <1>5 DEF AskedAgainOnlyIfCut
  <2> QED
    BY <2>1, <2>2
<1>8. AskedCovers'
  BY <1>1, <1>2, <1>3 DEF AskedCovers
<1>9. BatchIsNext'
  BY <1>1, NoBatchLeft DEF BatchIsNext
<1>10. \A q \in log : cursor < q.id => asked'[q.serial] <= cut'[q.serial]
  <2> SUFFICES ASSUME NEW q \in log, cursor < q.id PROVE asked'[q.serial] <= cut'[q.serial]
    OBVIOUS
  <2>1. CASE q.serial = r.serial
    BY <2>1, <1>2, <1>6
  <2>2. CASE q.serial # r.serial /\ q \in ext.done /\ HasTranscript(q)
    BY <2>2, <1>2, <1>3, <1>5 DEF AskedAgainOnlyIfCut
  <2>3. CASE q.serial # r.serial /\ (q \notin ext.done \/ ~ HasTranscript(q))
    BY <2>3, <1>2, <1>3, <1>5 DEF NotYetAgain
  <2> QED
    BY <2>1, <2>2, <2>3
<1>11. \A s \in Serials : s > written => asked'[s] = 0
  BY <1>2, <1>3 DEF NotYetAgain, Serials
<1>12. NotYetAgain'
  BY <1>1, <1>10, <1>11, NoBatchLeft DEF NotYetAgain
<1> QED
  BY <1>7, <1>8, <1>9, <1>12

\* A call ends in the step that counts it.
LEMMA AskedEndedStep ==
    ASSUME TypeOK, AskedEnded, [Next]_vars
    PROVE  AskedEnded'
<1>1. ASSUME NEW r \in ext.todo, Heard(r) \/ CallRaises(r) \/ UpsertRaises(r)
      PROVE  AskedEnded'
  <2>1. /\ asked' = [asked EXCEPT ![r.serial] = @ + 1]
        /\ heard' \cup missed' = heard \cup missed \cup {r.serial}
    BY <1>1 DEF Heard, CallRaises, UpsertRaises, Asked
  <2> QED
    BY <2>1 DEF AskedEnded, TypeOK
<1>2. CASE UNCHANGED <<asked, heard, missed>>
  BY <1>2 DEF AskedEnded
<1> QED
  BY <1>1, <1>2
  DEF Next, Record, Tick, ServiceSweeps, OperatorSweeps, Sweep, SweepRow, Fetch, CursorWritten,
      CursorFails, SkipRow, Select, Store, EmbedFails, Restart, vars

LEMMA CursorStep ==
    ASSUME IInv, CursorWritten
    PROVE  BatchIsNext' /\ NotYetAgain' /\ AskedCovers' /\ AskedAgainOnlyIfCut'
<1> USE DEF IInv
<1>1. /\ ext.todo = {} /\ ext.done # {} /\ cursor' = MaxId(ext.done) /\ ext' = NoBatch
      /\ UNCHANGED <<log, written, asked, cut>>
  BY DEF CursorWritten
<1>2. Batched = ext.done /\ ext.done \in SUBSET Rows
  BY <1>1 DEF Batched, TypeOK
<1>3. /\ cursor' \in {r.id : r \in ext.done} \cup {0} /\ cursor' \in Nat
      /\ \A r \in ext.done : r.id <= cursor'
  BY <1>1, <1>2, MaxIdIsMax
<1>4. /\ written \in Nat /\ cursor \in Nat
      /\ \A r \in ext.done : r.id \in Nat /\ r.id <= written /\ cursor < r.id
      /\ \A r \in log : r.id \in Nat
  BY <1>2, Numbers DEF BatchIsNext
<1>5. PICK b \in ext.done : b.id = cursor'
  BY <1>1, <1>3, <1>4
<1>6. BatchIsNext'
  BY <1>1, <1>4, <1>5, NoBatchLeft DEF BatchIsNext
<1>7. \A r \in log : cursor' < r.id => cursor < r.id /\ r \notin ext.done
  BY <1>3, <1>4, <1>5
<1>8. NotYetAgain'
  BY <1>1, <1>7, NoBatchLeft DEF NotYetAgain
<1>9. AskedCovers'
  <2> SUFFICES ASSUME NEW r \in log, HasTranscript(r), r.id <= cursor', FirstUse(r)
               PROVE  asked[r.serial] > 0
    BY <1>1 DEF AskedCovers
  <2>1. CASE r.id <= cursor
    BY <2>1 DEF AskedCovers
  <2>2. CASE cursor < r.id
    BY <2>2, <1>2, <1>5 DEF BatchIsNext
  <2> QED
    BY <2>1, <2>2, <1>4
<1>10. AskedAgainOnlyIfCut'
  BY <1>1 DEF AskedAgainOnlyIfCut
<1> QED
  BY <1>6, <1>8, <1>9, <1>10

-----------------------------------------------------------------------------
(***************************************************************************)
(* The theorems.                                                           *)
(***************************************************************************)
LEMMA IInvStep ==
    ASSUME IInv, [Next]_vars
    PROVE  IInv'
<1>1. TypeOK' /\ Identity' /\ InOrder' /\ TextsInOrder' /\ AskedEnded' /\ LogMoves
  BY TypedStep, IdentityStep, InOrderStep, TextsStep, AskedEndedStep, StepMoves DEF IInv
<1>2. CASE Aside
  BY <1>1, <1>2, AsideStep DEF IInv
<1>3. CASE \/ Fetch \/ CursorWritten
           \/ \E r \in ext.todo : SkipRow(r) \/ Heard(r) \/ CallRaises(r) \/ UpsertRaises(r)
  BY <1>1, <1>3, FetchStep, CursorStep, SkipStep, HeardStep, UpsertRaisesStep DEF IInv
<1>4. CASE CursorFails \/ Restart
  <2>1. /\ cut' = Abandoned(ext.done) /\ ext' = NoBatch
        /\ UNCHANGED <<log, written, cursor, asked>>
    BY <1>4 DEF CursorFails, Restart
  <2> QED
    BY <1>1, <2>1, AbandonStep DEF IInv
<1>5. CASE \/ \E kind \in Kinds : Record(kind)
           \/ Tick \/ ServiceSweeps \/ OperatorSweeps
           \/ \E who \in Sweepers : SweepRow(who)
           \/ Select \/ Store \/ EmbedFails \/ UNCHANGED vars
  <2>1. Aside
    BY <1>5 DEF Aside, Record, Tick, ServiceSweeps, OperatorSweeps, Sweep, SweepRow, Select,
                Store, EmbedFails, vars
  <2> QED
    BY <2>1, <1>2
<1> QED
  BY <1>3, <1>4, <1>5 DEF Next

\* The variables keep their types.
THEOREM TypeCorrect == Spec => []TypeOK
<1>1. IInv => TypeOK
  BY DEF IInv
<1> QED
  BY <1>1, IInvInit, IInvStep, PTL DEF Spec

\* The cursor of the extractor passes a chat that was not heard only where the call to the
\* LLM raised; whatever else failed, was swept or was restarted between two of its steps, it
\* passes none whose id is its own (extract.py, extract_once with _extract_one).
THEOREM CursorCoversAll == Spec => []CursorCovers
<1>1. IInv => CursorCovers
  <2> SUFFICES ASSUME IInv, NEW r \in PassedOver PROVE r.serial \in missed
    BY DEF CursorCovers
  <2>1. asked[r.serial] > 0 /\ r.serial \notin heard /\ r.serial \in Serials
    BY RowNumbers DEF IInv, TypeOK, AskedCovers, PassedOver
  <2> QED
    BY <2>1 DEF IInv, AskedEnded
<1> QED
  BY <1>1, IInvInit, IInvStep, PTL DEF Spec

\* A transcript goes to the LLM again only for a batch that was abandoned after it did.
THEOREM AskedOnce == Spec => []AskedAgainOnlyIfCut
<1>1. IInv => AskedAgainOnlyIfCut
  BY DEF IInv
<1> QED
  BY <1>1, IInvInit, IInvStep, PTL DEF Spec

\* The text recall finds beside a chunk is the one it was made from (semantic.py,
\* cosine_top_k), unless the row's id was given before.
THEOREM RecallIsOwn == Spec => []RecallsOwnText
<1>1. IInv => RecallsOwnText
  <2> SUFFICES ASSUME IInv, NEW cr \in Recalled, FirstUse(cr[2])
               PROVE  cr[1].serial = cr[2].serial
    BY DEF RecallsOwnText
  <2>1. cr[1] \in chunks /\ cr[2] \in log /\ cr[1].id = cr[2].id
    BY DEF Recalled
  <2>2. /\ cr[1].id \in Nat /\ cr[1].serial \in Nat /\ cr[2].id \in Nat /\ cr[2].serial \in Nat
    BY <2>1, Numbers DEF IInv
  <2>3. cr[1].id <= cr[1].serial /\ (cr[2].serial < cr[1].serial => cr[2].id < cr[1].id)
    BY <2>1 DEF IInv, TextsInOrder
  <2> QED
    BY <2>1, <2>2, <2>3 DEF FirstUse
<1> QED
  BY <1>1, IInvInit, IInvStep, PTL DEF Spec

(***************************************************************************)
(* The cursor never goes back, whatever failed or was swept while a batch  *)
(* was at work, and passes no transcript but those of that batch           *)
(* (extract.py, extract_once).                                             *)
(***************************************************************************)
THEOREM CursorMovesForward == Spec => CursorOnlyForward
<1>1. ASSUME IInv, [Next]_vars
      PROVE  /\ cursor <= cursor'
             /\ \A r \in log : HasTranscript(r) /\ FirstUse(r) /\ cursor < r.id /\ r.id <= cursor'
                    => r \in ext.done
  <2>1. cursor \in Nat /\ \A r \in log : r.id \in Nat
    BY <1>1, Numbers DEF IInv
  <2>2. CASE CursorWritten
    <3>1. /\ ext.todo = {} /\ ext.done # {} /\ cursor' = MaxId(ext.done)
          /\ Batched = ext.done /\ ext.done \in SUBSET Rows
      BY <1>1, <2>2 DEF CursorWritten, Batched, IInv, TypeOK
    <3>2. cursor' \in {r.id : r \in ext.done} \cup {0} /\ \A r \in ext.done : r.id <= cursor'
      BY <1>1, <3>1, MaxIdIsMax
    <3>3. \A r \in ext.done : r.id \in Nat /\ cursor < r.id
      BY <1>1, <3>1, RowNumbers DEF IInv, BatchIsNext
    <3>4. PICK b \in ext.done : b.id = cursor'
      BY <2>1, <3>1, <3>2, <3>3
    <3> QED
      BY <1>1, <2>1, <3>1, <3>3, <3>4 DEF IInv, BatchIsNext
  <2>3. CASE cursor' = cursor
    BY <2>1, <2>3
  <2> QED
    BY <1>1, <2>2, <2>3
       DEF Next, Record, Tick, ServiceSweeps, OperatorSweeps, Sweep, SweepRow, Fetch, CursorFails,
           SkipRow, Heard, CallRaises, UpsertRaises, Select, Store, EmbedFails, Restart, vars
<1> QED
  BY <1>1, IInvInit, IInvStep, PTL DEF Spec, CursorOnlyForward
=============================================================================
