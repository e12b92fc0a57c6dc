-------------------------------- MODULE Facts --------------------------------
(***************************************************************************)
(* The personal facts and their audit rows (caesar/memory/facts.py).       *)
(*                                                                         *)
(* FactsStore reads the fact under a key in one transaction, writes it by  *)
(* its row id in a second and records what it did in a third.  Tasks that  *)
(* call it may interleave there, and a task can be cancelled, or fail,     *)
(* between two of them.  As in audit_log the id of a deleted row may be    *)
(* given again.                                                            *)
(*                                                                         *)
(* Nothing under caesar/ builds the store yet.  The callers are those its  *)
(* docstrings name: the extractor, whose class calls upsert(), and an      *)
(* operator's edits.                                                       *)
(***************************************************************************)
EXTENDS Integers, Sequences, FiniteSets

CONSTANTS
    Extractor,   \* the task that calls upsert() and delete()
    Editors,     \* those that call user_edit() and user_delete()
    Keys, Values,
    Levels,      \* confidences
    MaxOps,      \* bound: calls
    MaxFaults,   \* bound: calls cut short
    None

ASSUME FactsAssumption ==
    /\ Levels \subseteq Nat
    /\ None \notin Values \cup [id : Nat, key : Keys, value : Values, conf : Levels]
    /\ MaxOps \in Nat /\ MaxFaults \in Nat

Writers == {Extractor} \cup Editors

VARIABLES
    table,    \* the rows of personal_facts
    trail,    \* the memory.fact.* rows, oldest first
    pc,       \* where a writer is: idle, write, audit or edited
    call,     \* what it was asked
    seen,     \* the row it read, None for no row
    calls, faults,
    raced,    \* history: keys two calls were at work on at a time
    lost      \* history: keys changed without a row of theirs

vars == <<table, trail, pc, call, seen, calls, faults, raced, lost>>

Writes  == [op : {"upsert", "user_edit"}, key : Keys, value : Values, conf : Levels]
Deletes == [op : {"delete", "user_delete"}, key : Keys]
CallsOf(w) == {c \in Writes \cup Deletes :
                 c.op \in IF w = Extractor THEN {"upsert", "delete"} ELSE {"user_edit", "user_delete"}}
Fact    == [id : 1 .. MaxOps, key : Keys, value : Values, conf : Levels]

Events == {"added", "confirmed", "updated", "deleted", "user_deleted", "user_edited"}

Init ==
    /\ table = {} /\ trail = <<>>
    /\ pc = [w \in Writers |-> "idle"]
    /\ call = [w \in Writers |-> None] /\ seen = [w \in Writers |-> None]
    /\ calls = 0 /\ faults = 0
    /\ raced = {} /\ lost = {}

\* get(): the key is UNIQUE.
Under(key) == {f \in table : f.key = key}

Read(key) == IF Under(key) = {} THEN None ELSE CHOOSE f \in Under(key) : TRUE

NextId == 1 + Cardinality({i \in 1 .. MaxOps : \E f \in table : f.id >= i})

Busy(key) == \E w \in Writers : pc[w] # "idle" /\ call[w].key = key

Goto(w, where) ==
    /\ pc' = [pc EXCEPT ![w] = where]
    /\ UNCHANGED <<call, seen>>

Returns(w) ==
    /\ pc' = [pc EXCEPT ![w] = "idle"]
    /\ call' = [call EXCEPT ![w] = None]
    /\ seen' = [seen EXCEPT ![w] = None]

-----------------------------------------------------------------------------
\* A call reads the fact under its key; a deletion of none is over.
Ask(w, c) ==
    /\ pc[w] = "idle" /\ calls < MaxOps
    /\ calls' = calls + 1
    /\ IF Under(c.key) = {} /\ c \in Deletes
       THEN UNCHANGED <<pc, call, seen>>
       ELSE /\ pc' = [pc EXCEPT ![w] = "write"]
            /\ call' = [call EXCEPT ![w] = c]
            /\ seen' = [seen EXCEPT ![w] = Read(c.key)]
    /\ raced' = IF Busy(c.key) THEN raced \cup {c.key} ELSE raced
    /\ UNCHANGED <<table, trail, faults, lost>>

\* The rows a statement with WHERE id = the id read applies to, perhaps another key's.
Hit(w) == {f \in table : f.id = seen[w].id}

HitOther(w) == {f.key : f \in Hit(w)} \ {call[w].key}

Replaced(w, fields) == (table \ Hit(w)) \cup {fields[f] : f \in Hit(w)}

Insert(w) ==
    /\ seen[w] = None
    /\ Under(call[w].key) = {}
    /\ table' = table \cup {[id |-> NextId, key |-> call[w].key,
                             value |-> call[w].value, conf |-> call[w].conf]}
    /\ Goto(w, "audit")
    /\ UNCHANGED lost

\* IntegrityError: another writer added the key.
InsertRaises(w) ==
    /\ seen[w] = None
    /\ Under(call[w].key) # {}
    /\ Returns(w)
    /\ UNCHANGED <<table, lost>>

\* max(existing.confidence, confidence)
Ratchet(w) == IF seen[w].conf > call[w].conf THEN seen[w].conf ELSE call[w].conf

Confirm(w) ==
    /\ seen[w] # None /\ call[w] \in Writes
    /\ seen[w].value = call[w].value
    /\ table' = Replaced(w, [f \in Hit(w) |-> [f EXCEPT !.conf = Ratchet(w)]])
    /\ lost' = lost \cup HitOther(w)
    /\ Goto(w, "audit")

Overwrite(w) ==
    /\ seen[w] # None /\ call[w] \in Writes
    /\ seen[w].value # call[w].value
    /\ table' = Replaced(w, [f \in Hit(w) |->
                    [f EXCEPT !.value = call[w].value, !.conf = call[w].conf]])
    /\ lost' = lost \cup HitOther(w)
    /\ Goto(w, "audit")

Delete(w) ==
    /\ call[w] \in Deletes
    /\ table' = table \ Hit(w)
    /\ lost' = lost \cup HitOther(w)
    /\ Goto(w, "audit")

Write(w) ==
    /\ pc[w] = "write"
    /\ Insert(w) \/ InsertRaises(w) \/ Confirm(w) \/ Overwrite(w) \/ Delete(w)
    /\ UNCHANGED <<trail, calls, faults, raced>>

-----------------------------------------------------------------------------
\* The row a call leaves; `was` is the value it replaces, None for none.
AuditRow(event, key, was, value, conf) ==
    [event |-> event, key |-> key, was |-> was, value |-> value, conf |-> conf]

\* slip: an update's row gives the value it was given as the old one
RowForgets(w) ==
    LET c == call[w]
    IN  CASE c \in Deletes -> AuditRow("deleted", c.key, seen[w].value, None, 0)
          [] seen[w] = None -> AuditRow("added", c.key, None, c.value, c.conf)
          [] OTHER -> AuditRow("updated", c.key, c.value, c.value, c.conf)

\* slip: an update's row is built from the fact that was read
RowOfSeen(w) ==
    LET c == call[w]
    IN  CASE c \in Deletes -> AuditRow("deleted", c.key, seen[w].value, None, 0)
          [] seen[w] = None -> AuditRow("added", c.key, None, c.value, c.conf)
          [] OTHER -> AuditRow("updated", c.key, seen[w].value, seen[w].value, c.conf)

RowOf(w) ==
    LET c == call[w]
    IN  CASE c \in Deletes ->
                 AuditRow(IF c.op = "delete" THEN "deleted" ELSE "user_deleted",
                          c.key, seen[w].value, None, 0)
          [] c \in Writes /\ seen[w] = None ->
                 AuditRow("added", c.key, None, c.value, c.conf)
          [] c \in Writes /\ seen[w] # None /\ seen[w].value = c.value ->
                 AuditRow("confirmed", c.key, c.value, c.value, Ratchet(w))
          [] OTHER ->
                 AuditRow("updated", c.key, seen[w].value, c.value, c.conf)

Audit(w) ==
    /\ pc[w] = "audit"
    /\ trail' = Append(trail, RowOf(w))
    /\ IF call[w].op = "user_edit" THEN Goto(w, "edited") ELSE Returns(w)
    /\ UNCHANGED <<table, calls, faults, raced, lost>>

\* The second row of user_edit().
AuditEdit(w) ==
    /\ pc[w] = "edited"
    /\ trail' = Append(trail, AuditRow("user_edited", call[w].key, None,
                                       call[w].value, call[w].conf))
    /\ Returns(w)
    /\ UNCHANGED <<table, calls, faults, raced, lost>>

\* The call is cancelled, Praetor dies, or the next transaction raises.
Cut(w) ==
    /\ faults < MaxFaults /\ faults' = faults + 1
    /\ pc[w] # "idle"
    /\ lost' = IF pc[w] = "audit" THEN lost \cup {call[w].key} ELSE lost
    /\ Returns(w)
    /\ UNCHANGED <<table, trail, calls, raced>>

Next ==
    \E w \in Writers :
        \/ \E c \in CallsOf(w) : Ask(w, c)
        \/ Write(w) \/ Audit(w) \/ AuditEdit(w) \/ Cut(w)

Spec == Init /\ [][Next]_vars

-----------------------------------------------------------------------------
TypeOK ==
    /\ table \subseteq Fact
    /\ pc \in [Writers -> {"idle", "write", "audit", "edited"}]
    /\ call \in [Writers -> Writes \cup Deletes \cup {None}]
    /\ seen \in [Writers -> Fact \cup {None}]
    /\ calls \in 0 .. MaxOps /\ faults \in 0 .. MaxFaults
    /\ raced \subseteq Keys /\ lost \subseteq Keys
    /\ \A i \in DOMAIN trail : trail[i].event \in Events /\ trail[i].key \in Keys

\* The history of a fact can be replayed from its audit rows (memory/facts.py upsert,
\* delete): each row takes over where the one before left off, and the last gives the
\* value and the confidence stored.  It can for every key but those two calls worked on
\* at a time, whose rows may say what did not happen, and those changed without a row.
RowsFor(key) == {i \in DOMAIN trail : trail[i].key = key /\ trail[i].event # "user_edited"}

Follows(i, key) ==
    LET earlier == {j \in RowsFor(key) : j < i}
    IN  IF earlier = {} THEN trail[i].was = None
        ELSE \E j \in earlier : (\A k \in earlier : k <= j) /\ trail[i].was = trail[j].value

EndsWith(i, key) ==
    IF trail[i].value = None THEN Under(key) = {}
    ELSE \E f \in Under(key) : f.value = trail[i].value /\ f.conf = trail[i].conf

TrailReplays ==
    \A key \in Keys \ (raced \cup lost) :
        /\ \A i \in RowsFor(key) : Follows(i, key)
        /\ ~ Busy(key) =>
               \/ RowsFor(key) = {} /\ Under(key) = {}
               \/ \E i \in RowsFor(key) : (\A k \in RowsFor(key) : k <= i) /\ EndsWith(i, key)

\* Whatever races, a value in the table has a row of its key that gives it, or its writer
\* is about to write that row, unless the change was cut short or hit a reused id.
TableTold ==
    \A f \in table :
        \/ \E i \in RowsFor(f.key) : trail[i].value = f.value
        \/ \E w \in Writers : pc[w] = "audit" /\ call[w].key = f.key /\ RowOf(w).value = f.value
        \/ f.key \in lost

\* "Confidence is a ratchet" (tests/test_memory_facts.py): the confidence of a value that
\* stays is never lowered (memory/facts.py, upsert), but by two calls that work on the key
\* at a time, the later of which writes the greater of its own and of a stale one.
ConfidenceRatchets ==
    [][\A key \in Keys \ (raced' \cup lost') : \A f \in Under(key), g \in Under(key)' :
           f.value = g.value => f.conf <= g.conf]_vars
=============================================================================
