----------------------------- MODULE FactsProofs -----------------------------
(***************************************************************************)
(* Theorems about Facts for any writers, keys, values and levels: what is  *)
(* stored has been recorded, and the rows of a fact replay its history.    *)
(***************************************************************************)
EXTENDS Facts, SequenceTheorems, FiniteSetTheorems, TLAPS

(***************************************************************************)
(* A writer at work has a call, and the fact it read is one of that key.   *)
(***************************************************************************)
FactRow  == [id : Nat, key : Keys, value : Values, conf : Levels]
TrailRow == [event : Events, key : Keys, was : Values \cup {None},
             value : Values \cup {None}, conf : Nat]

AtWork(w) == pc[w] # "idle" =>
    /\ call[w] \in Writes \cup Deletes
    /\ seen[w] # None => seen[w] \in FactRow /\ seen[w].key = call[w].key
    /\ call[w] \in Deletes => seen[w] # None
    /\ pc[w] = "edited" => call[w] \in Writes

Types ==
    /\ table \subseteq FactRow
    /\ trail \in Seq(TrailRow)
    /\ pc \in [Writers -> {"idle", "write", "audit", "edited"}]
    /\ call \in [Writers -> Writes \cup Deletes \cup {None}]
    /\ seen \in [Writers -> FactRow \cup {None}]
    /\ \A w \in Writers : AtWork(w)

\* Writes and deletions are told apart by their operation.
LEMMA CallsApart ==
    ASSUME NEW c
    PROVE  /\ c \in Writes => c \notin Deletes /\ c.key \in Keys /\ c.value \in Values
                              /\ c.conf \in Levels /\ c.conf \in Nat
           /\ c \in Deletes => c \notin Writes /\ c.key \in Keys
                               /\ c.op \in {"delete", "user_delete"}
  BY FactsAssumption DEF Writes, Deletes

\* The row a call leaves, by what the call was and what it read.
LEMMA RowCases ==
    ASSUME Types, NEW w \in Writers, pc[w] # "idle"
    PROVE  /\ call[w] \in Deletes =>
                 /\ RowOf(w).was = seen[w].value /\ RowOf(w).value = None
           /\ call[w] \in Writes /\ seen[w] = None =>
                 /\ RowOf(w).was = None /\ RowOf(w).value = call[w].value
                 /\ RowOf(w).conf = call[w].conf
           /\ call[w] \in Writes /\ seen[w] # None /\ seen[w].value = call[w].value =>
                 /\ RowOf(w).was = seen[w].value /\ RowOf(w).value = call[w].value
                 /\ RowOf(w).conf = Ratchet(w)
           /\ call[w] \in Writes /\ seen[w] # None /\ seen[w].value # call[w].value =>
                 /\ RowOf(w).was = seen[w].value /\ RowOf(w).value = call[w].value
                 /\ RowOf(w).conf = call[w].conf
           /\ RowOf(w) \in TrailRow /\ RowOf(w).key = call[w].key
           /\ RowOf(w).event # "user_edited"
<1>1. /\ call[w] \in Writes \cup Deletes
      /\ seen[w] # None => seen[w].value \in Values /\ seen[w].conf \in Nat
      /\ call[w] \in Deletes => seen[w] # None
  BY FactsAssumption DEF Types, AtWork, FactRow
<1>2. CASE call[w] \in Deletes
  <2>1. RowOf(w) = AuditRow(IF call[w].op = "delete" THEN "deleted" ELSE "user_deleted",
                            call[w].key, seen[w].value, None, 0)
    BY <1>2, CallsApart DEF RowOf
  <2> QED
    BY <1>1, <1>2, <2>1, CallsApart DEF AuditRow, TrailRow, Events
<1>3. CASE call[w] \in Writes /\ seen[w] = None
  <2>1. RowOf(w) = AuditRow("added", call[w].key, None, call[w].value, call[w].conf)
    BY <1>3, CallsApart DEF RowOf
  <2> QED
    BY <1>1, <1>3, <2>1, CallsApart DEF AuditRow, TrailRow, Events
<1>4. CASE call[w] \in Writes /\ seen[w] # None /\ seen[w].value = call[w].value
  <2>1. RowOf(w) = AuditRow("confirmed", call[w].key, call[w].value, call[w].value, Ratchet(w))
    BY <1>4, CallsApart DEF RowOf
  <2>2. Ratchet(w) \in Nat
    BY <1>1, <1>4, CallsApart DEF Ratchet
  <2> QED
    BY <1>1, <1>4, <2>1, <2>2, CallsApart DEF AuditRow, TrailRow, Events
<1>5. CASE call[w] \in Writes /\ seen[w] # None /\ seen[w].value # call[w].value
  <2>1. RowOf(w) = AuditRow("updated", call[w].key, seen[w].value, call[w].value, call[w].conf)
    BY <1>5, CallsApart DEF RowOf
  <2> QED
    BY <1>1, <1>5, <2>1, CallsApart DEF AuditRow, TrailRow, Events
<1> QED
  BY <1>1, <1>2, <1>3, <1>4, <1>5

\* What the store reads under a key.
LEMMA ReadCases ==
    ASSUME table \subseteq FactRow, NEW key
    PROVE  /\ Under(key) = {} => Read(key) = None
           /\ Under(key) # {} => Read(key) \in Under(key) /\ Read(key) # None
                                 /\ Read(key) \in FactRow /\ Read(key).key = key
  BY FactsAssumption DEF Read, Under, FactRow

LEMMA NextIdIsNat == NextId \in Nat
<1> DEFINE taken == {i \in 1 .. MaxOps : \E f \in table : f.id >= i}
<1>1. IsFiniteSet(1 .. MaxOps)
  BY FS_Interval, FactsAssumption
<1>2. IsFiniteSet(taken)
  BY <1>1, FS_Subset
<1>3. Cardinality(taken) \in Nat
  BY <1>2, FS_CardinalityType
<1> QED
  BY <1>3 DEF NextId

-----------------------------------------------------------------------------
(***************************************************************************)
(* The steps, told by what they do to the table and to the writers.        *)
(***************************************************************************)
Raises(w) == pc[w] = "write" /\ InsertRaises(w) /\ UNCHANGED <<trail, calls, faults, raced>>

\* The fact a write puts in the place of f.
Rewritten(w, f) ==
    IF seen[w].value = call[w].value THEN [f EXCEPT !.conf = Ratchet(w)]
    ELSE [f EXCEPT !.value = call[w].value, !.conf = call[w].conf]

Added(w) == [id |-> NextId, key |-> call[w].key, value |-> call[w].value, conf |-> call[w].conf]

Edits(w) ==
    /\ call[w] \in Writes /\ seen[w] # None
    /\ \A g : g \in table' <=> \/ g \in table /\ g.id # seen[w].id
                               \/ \E f \in table : f.id = seen[w].id /\ g = Rewritten(w, f)
    /\ lost' = lost \cup HitOther(w)

Adds(w) ==
    /\ call[w] \in Writes /\ seen[w] = None /\ Under(call[w].key) = {}
    /\ table' = table \cup {Added(w)}
    /\ lost' = lost

Removes(w) ==
    /\ call[w] \in Deletes /\ seen[w] # None
    /\ table' = {f \in table : f.id # seen[w].id}
    /\ lost' = lost \cup HitOther(w)

LEMMA WriteMoves ==
    ASSUME Types, NEW w \in Writers, Write(w), ~Raises(w)
    PROVE  /\ Edits(w) \/ Adds(w) \/ Removes(w)
           /\ pc[w] = "write" /\ pc' = [pc EXCEPT ![w] = "audit"]
           /\ UNCHANGED <<call, seen, trail, raced>>
<1>1. /\ pc[w] = "write" /\ UNCHANGED <<trail, calls, faults, raced>> /\ ~InsertRaises(w)
      /\ Insert(w) \/ Confirm(w) \/ Overwrite(w) \/ Delete(w)
  BY DEF Write, Raises
<1>2. /\ call[w] \in Writes \cup Deletes
      /\ call[w] \in Deletes => seen[w] # None
  BY <1>1 DEF Types, AtWork
<1>3. pc' = [pc EXCEPT ![w] = "audit"] /\ UNCHANGED <<call, seen>>
  BY <1>1 DEF Insert, Confirm, Overwrite, Delete, Goto
<1> SUFFICES Edits(w) \/ Adds(w) \/ Removes(w)
  BY <1>1, <1>3
<1>4. CASE Insert(w)
  BY <1>2, <1>4 DEF Insert, Adds, Added
<1>5. CASE Confirm(w)
  <2>1. table' = (table \ Hit(w)) \cup {[f EXCEPT !.conf = Ratchet(w)] : f \in Hit(w)}
    BY <1>5 DEF Confirm, Replaced
  <2>2. \A f \in Hit(w) : Rewritten(w, f) = [f EXCEPT !.conf = Ratchet(w)]
    BY <1>5 DEF Confirm, Rewritten
  <2> QED
    BY <1>5, <2>1, <2>2 DEF Confirm, Edits, Hit
<1>6. CASE Overwrite(w)
  <2>1. table' = (table \ Hit(w)) \cup
                   {[f EXCEPT !.value = call[w].value, !.conf = call[w].conf] : f \in Hit(w)}
    BY <1>6 DEF Overwrite, Replaced
  <2>2. \A f \in Hit(w) :
           Rewritten(w, f) = [f EXCEPT !.value = call[w].value, !.conf = call[w].conf]
    BY <1>6 DEF Overwrite, Rewritten
  <2> QED
    BY <1>6, <2>1, <2>2 DEF Overwrite, Edits, Hit
<1>7. CASE Delete(w)
  BY <1>2, <1>7 DEF Delete, Removes, Hit
<1> QED
  BY <1>1, <1>4, <1>5, <1>6, <1>7

LEMMA RewrittenIs ==
    ASSUME Types, NEW w \in Writers, pc[w] # "idle", call[w] \in Writes, seen[w] # None,
           NEW f \in table
    PROVE  /\ Rewritten(w, f) \in FactRow /\ Rewritten(w, f).key = f.key
           /\ seen[w].value = call[w].value =>
                 Rewritten(w, f).value = f.value /\ Rewritten(w, f).conf = Ratchet(w)
           /\ seen[w].value # call[w].value =>
                 Rewritten(w, f).value = call[w].value /\ Rewritten(w, f).conf = call[w].conf
<1>1. f \in FactRow /\ seen[w] \in FactRow
  BY DEF Types, AtWork
<1>2. call[w].value \in Values /\ call[w].conf \in Levels /\ Ratchet(w) \in Levels
  BY <1>1, CallsApart DEF Ratchet, FactRow
<1> QED
  BY <1>1, <1>2 DEF Rewritten, FactRow

LEMMA AddedIs ==
    ASSUME Types, NEW w \in Writers, call[w] \in Writes
    PROVE  /\ Added(w) \in FactRow /\ Added(w).key = call[w].key
           /\ Added(w).value = call[w].value /\ Added(w).conf = call[w].conf
<1>1. NextId \in Nat /\ call[w].key \in Keys /\ call[w].value \in Values /\ call[w].conf \in Levels
  BY NextIdIsNat, CallsApart
<1> QED
  BY <1>1 DEF Added, FactRow

LEMMA TypesStep == Types /\ [Next]_vars => Types'
<1> SUFFICES ASSUME Types, [Next]_vars
             PROVE  Types'
  OBVIOUS
<1>1. ASSUME NEW w \in Writers, Write(w), ~Raises(w)
      PROVE  Types'
  <2>1. /\ pc[w] = "write" /\ pc' = [pc EXCEPT ![w] = "audit"]
        /\ UNCHANGED <<call, seen, trail>>
    BY <1>1, WriteMoves
  <2>2. table' \subseteq FactRow
    <3>1. CASE Edits(w)
      BY <2>1, <3>1, RewrittenIs DEF Edits, Types
    <3>2. CASE Adds(w)
      BY <3>2, AddedIs DEF Adds, Types
    <3>3. CASE Removes(w)
      BY <3>3 DEF Removes, Types
    <3> QED
      BY <1>1, <3>1, <3>2, <3>3, WriteMoves
  <2>3. \A v \in Writers : AtWork(v)'
    BY <2>1 DEF Types, AtWork
  <2> QED
    BY <2>1, <2>2, <2>3 DEF Types
<1>2. ASSUME NEW w \in Writers, NEW c \in CallsOf(w), Ask(w, c)
      PROVE  Types'
  <2>1. UNCHANGED <<table, trail>> /\ c \in Writes \cup Deletes /\ pc[w] = "idle"
    BY <1>2 DEF Ask, CallsOf
  <2>2. CASE UNCHANGED <<pc, call, seen>>
    BY <2>1, <2>2 DEF Types, AtWork
  <2>3. CASE ~UNCHANGED <<pc, call, seen>>
    <3>1. /\ pc' = [pc EXCEPT ![w] = "write"] /\ call' = [call EXCEPT ![w] = c]
          /\ seen' = [seen EXCEPT ![w] = Read(c.key)]
          /\ Under(c.key) # {} \/ c \notin Deletes
      BY <1>2, <2>3 DEF Ask
    <3>2. /\ Read(c.key) \in FactRow \cup {None}
          /\ Read(c.key) # None => Read(c.key).key = c.key
          /\ Under(c.key) # {} => Read(c.key) # None
      BY ReadCases DEF Types
    <3>3. \A v \in Writers : AtWork(v)'
      BY <2>1, <3>1, <3>2 DEF Types, AtWork
    <3> QED
      BY <2>1, <3>1, <3>2, <3>3 DEF Types
  <2> QED
    BY <2>2, <2>3
<1>3. ASSUME NEW w \in Writers, Raises(w) \/ Cut(w)
      PROVE  Types'
  <2>1. Returns(w) /\ UNCHANGED <<table, trail>>
    BY <1>3 DEF Raises, InsertRaises, Cut
  <2> QED
    BY <2>1 DEF Types, AtWork, Returns
<1>4. ASSUME NEW w \in Writers, Audit(w)
      PROVE  Types'
  <2>1. trail' = Append(trail, RowOf(w)) /\ UNCHANGED table /\ pc[w] = "audit"
    BY <1>4 DEF Audit
  <2>2. RowOf(w) \in TrailRow
    BY <2>1, RowCases
  <2>3. trail' \in Seq(TrailRow)
    BY <2>1, <2>2, AppendProperties DEF Types
  <2>4. CASE call[w].op = "user_edit" /\ Goto(w, "edited")
    <3>1. call[w] \in Writes
      BY <2>1, <2>4, CallsApart DEF Types, AtWork
    <3>2. \A v \in Writers : AtWork(v)'
      BY <2>1, <2>4, <3>1 DEF Types, AtWork, Goto
    <3> QED
      BY <2>1, <2>3, <2>4, <3>2 DEF Types, Goto
  <2>5. CASE Returns(w)
    <3>1. \A v \in Writers : AtWork(v)'
      BY <2>5 DEF Types, AtWork, Returns
    <3> QED
      BY <2>1, <2>3, <2>5, <3>1 DEF Types, Returns
  <2> QED
    BY <1>4, <2>4, <2>5 DEF Audit
<1>5. ASSUME NEW w \in Writers, AuditEdit(w)
      PROVE  Types'
  <2> DEFINE row == AuditRow("user_edited", call[w].key, None, call[w].value, call[w].conf)
  <2>1. trail' = Append(trail, row) /\ UNCHANGED table /\ pc[w] = "edited" /\ Returns(w)
    BY <1>5 DEF AuditEdit
  <2>2. row \in TrailRow
    <3>1. call[w] \in Writes
      BY <2>1 DEF Types, AtWork
    <3> QED
      BY <3>1, CallsApart DEF AuditRow, TrailRow, Events
  <2> HIDE DEF row
  <2>3. trail' \in Seq(TrailRow)
    BY <2>1, <2>2, AppendProperties DEF Types
  <2>4. \A v \in Writers : AtWork(v)'
    BY <2>1 DEF Types, AtWork, Returns
  <2> QED
    BY <2>1, <2>3, <2>4 DEF Types, Returns
<1>6. CASE UNCHANGED vars
  BY <1>6 DEF vars, Types, AtWork
<1> QED
  BY <1>1, <1>2, <1>3, <1>4, <1>5, <1>6 DEF Next

-----------------------------------------------------------------------------
(***************************************************************************)
(* What is stored is told.                                                 *)
(***************************************************************************)
TellsOf(w, f) == pc[w] = "audit" /\ call[w].key = f.key /\ RowOf(w).value = f.value

\* Rows that are added leave those of a key where they are.
LEMMA RowsStay ==
    ASSUME Types, NEW row \in TrailRow, trail' = Append(trail, row)
    PROVE  /\ Len(trail) + 1 \in DOMAIN trail' /\ trail'[Len(trail) + 1] = row
           /\ \A i \in DOMAIN trail : i \in DOMAIN trail' /\ trail'[i] = trail[i]
                                      /\ i < Len(trail) + 1 /\ i \in Nat
           /\ \A i \in DOMAIN trail' : i # Len(trail) + 1 => i \in DOMAIN trail
<1>1. /\ trail \in Seq(TrailRow) /\ Len(trail) \in Nat
  BY DEF Types
<1> QED
  BY <1>1

LEMMA ToldStep == Types /\ TableTold /\ [Next]_vars => TableTold'
<1> SUFFICES ASSUME Types, TableTold, [Next]_vars, NEW g \in table'
             PROVE  \/ \E i \in RowsFor(g.key)' : trail'[i].value = g.value
                    \/ \E w \in Writers : TellsOf(w, g)'
                    \/ g.key \in lost'
  BY DEF TableTold, TellsOf
<1> DEFINE Recorded(f) == \E i \in RowsFor(f.key) : trail[i].value = f.value
           Goal(f) == \/ \E i \in RowsFor(f.key)' : trail'[i].value = f.value
                      \/ \E w \in Writers : TellsOf(w, f)'
                      \/ f.key \in lost'
<1>0. \A f \in table : Recorded(f) \/ (\E w \in Writers : TellsOf(w, f)) \/ f.key \in lost
  BY DEF TableTold, TellsOf
<1>a. lost \subseteq lost'
  BY DEF Next, Ask, Write, Insert, InsertRaises, Confirm, Overwrite, Delete, Audit, AuditEdit,
         Cut, vars
<1>b. ASSUME NEW w \in Writers, UNCHANGED trail, NEW f \in table, NEW h,
             h.key = f.key, h.value = f.value, ~TellsOf(w, f),
             \A v \in Writers : v # w =>
                 pc'[v] = pc[v] /\ call'[v] = call[v] /\ seen'[v] = seen[v]
      PROVE  Goal(h)
  <2>1. \A v \in Writers : TellsOf(v, f) => TellsOf(v, h)'
    BY <1>b DEF TellsOf, RowOf, Ratchet
  <2> QED
    BY <1>0, <1>a, <1>b, <2>1 DEF RowsFor
<1>1. ASSUME NEW w \in Writers, Write(w), ~Raises(w)
      PROVE  Goal(g)
  <2>1. /\ pc[w] = "write" /\ pc' = [pc EXCEPT ![w] = "audit"]
        /\ UNCHANGED <<call, seen, trail>>
        /\ Edits(w) \/ Adds(w) \/ Removes(w)
    BY <1>1, WriteMoves
  <2>2. /\ pc'[w] = "audit" /\ RowOf(w)' = RowOf(w)
        /\ \A v \in Writers : v # w => pc'[v] = pc[v]
    BY <2>1 DEF Types, RowOf, Ratchet
  <2>3. CASE g \in table
    BY <1>b, <2>1, <2>2, <2>3 DEF TellsOf
  <2>4. CASE Adds(w) /\ g \notin table
    <3>1. g.key = call[w].key /\ g.value = call[w].value
      BY <2>4, AddedIs DEF Adds
    <3>2. RowOf(w).value = call[w].value
      BY <2>1, <2>4, RowCases DEF Adds
    <3> QED
      BY <2>1, <2>2, <3>1, <3>2 DEF TellsOf
  <2>5. CASE Edits(w) /\ g \notin table
    <3>1. PICK f \in table : f.id = seen[w].id /\ g = Rewritten(w, f)
      BY <2>5 DEF Edits
    <3>2. CASE seen[w].value = call[w].value
      <4>1. g.key = f.key /\ g.value = f.value
        BY <2>1, <2>5, <3>1, <3>2, RewrittenIs DEF Edits
      <4> QED
        BY <1>b, <2>1, <2>2, <4>1 DEF TellsOf
    <3>3. CASE seen[w].value # call[w].value
      <4>1. g.key = f.key /\ g.value = call[w].value
        BY <2>1, <2>5, <3>1, <3>3, RewrittenIs DEF Edits
      <4>2. RowOf(w).value = call[w].value
        BY <2>1, <2>5, <3>3, RowCases DEF Edits
      <4>3. CASE f.key = call[w].key
        BY <2>1, <2>2, <4>1, <4>2, <4>3 DEF TellsOf
      <4>4. CASE f.key # call[w].key
        BY <2>5, <3>1, <4>1, <4>4 DEF Edits, HitOther, Hit
      <4> QED
        BY <4>3, <4>4
    <3> QED
      BY <3>2, <3>3
  <2>6. CASE Removes(w)
    BY <2>3, <2>6 DEF Removes
  <2> QED
    BY <2>1, <2>3, <2>4, <2>5, <2>6
<1>2. ASSUME NEW w \in Writers, NEW c \in CallsOf(w), Ask(w, c)
      PROVE  Goal(g)
  <2>1. /\ UNCHANGED <<table, trail>> /\ pc[w] = "idle"
        /\ \A v \in Writers : v # w =>
              pc'[v] = pc[v] /\ call'[v] = call[v] /\ seen'[v] = seen[v]
    BY <1>2 DEF Ask, Types
  <2> QED
    BY <1>b, <2>1 DEF TellsOf
<1>3. ASSUME NEW w \in Writers, Raises(w) \/ Cut(w)
      PROVE  Goal(g)
  <2>1. /\ UNCHANGED <<table, trail>>
        /\ \A v \in Writers : v # w =>
              pc'[v] = pc[v] /\ call'[v] = call[v] /\ seen'[v] = seen[v]
        /\ pc[w] = "audit" => call[w].key \in lost'
    BY <1>3 DEF Raises, InsertRaises, Cut, Returns, Types
  <2> QED
    BY <1>b, <2>1 DEF TellsOf
<1>4. ASSUME NEW w \in Writers, Audit(w)
      PROVE  Goal(g)
  <2>1. /\ UNCHANGED table /\ pc[w] = "audit" /\ trail' = Append(trail, RowOf(w))
        /\ \A v \in Writers : v # w =>
              pc'[v] = pc[v] /\ call'[v] = call[v] /\ seen'[v] = seen[v]
    BY <1>4 DEF Audit, Goto, Returns, Types
  <2>2. RowOf(w) \in TrailRow /\ RowOf(w).key = call[w].key /\ RowOf(w).event # "user_edited"
    BY <2>1, RowCases
  <2>3. CASE Recorded(g)
    BY <2>1, <2>2, <2>3, RowsStay DEF RowsFor
  <2>4. CASE TellsOf(w, g)
    <3>1. Len(trail) + 1 \in RowsFor(g.key)' /\ trail'[Len(trail) + 1].value = g.value
      BY <2>1, <2>2, <2>4, RowsStay DEF RowsFor, TellsOf
    <3> QED
      BY <3>1
  <2>5. ASSUME NEW v \in Writers, v # w, TellsOf(v, g)
        PROVE  TellsOf(v, g)'
    BY <2>1, <2>5 DEF TellsOf, RowOf, Ratchet
  <2> QED
    BY <1>0, <1>a, <2>1, <2>3, <2>4, <2>5
<1>5. ASSUME NEW w \in Writers, AuditEdit(w)
      PROVE  Goal(g)
  <2> DEFINE row == AuditRow("user_edited", call[w].key, None, call[w].value, call[w].conf)
  <2>1. /\ UNCHANGED table /\ pc[w] = "edited" /\ trail' = Append(trail, row)
        /\ \A v \in Writers : v # w =>
              pc'[v] = pc[v] /\ call'[v] = call[v] /\ seen'[v] = seen[v]
    BY <1>5 DEF AuditEdit, Returns, Types
  <2>2. row \in TrailRow
    <3>1. call[w] \in Writes
      BY <2>1 DEF Types, AtWork
    <3> QED
      BY <3>1, CallsApart DEF AuditRow, TrailRow, Events
  <2> HIDE DEF row
  <2>3. CASE Recorded(g)
    BY <2>1, <2>2, <2>3, RowsStay DEF RowsFor
  <2>4. ASSUME NEW v \in Writers, TellsOf(v, g)
        PROVE  TellsOf(v, g)'
    BY <2>1, <2>4 DEF TellsOf, RowOf, Ratchet
  <2> QED
    BY <1>0, <1>a, <2>1, <2>3, <2>4
<1>6. CASE UNCHANGED vars
  BY <1>0, <1>6 DEF vars, TellsOf, RowOf, Ratchet, RowsFor
<1> QED
  BY <1>1, <1>2, <1>3, <1>4, <1>5, <1>6 DEF Next

LEMMA TypesInit == Init => Types /\ TableTold
<1> SUFFICES ASSUME Init
             PROVE  Types /\ TableTold
  OBVIOUS
<1>1. trail \in Seq(TrailRow) /\ table = {}
  BY EmptySeq DEF Init
<1> QED
  BY <1>1 DEF Init, Types, AtWork, TableTold

(***************************************************************************)
(* THEOREM.  Whatever races, a value in the table has a row of its key     *)
(* that gives it, or its writer is about to write that row, unless the     *)
(* change was cut short or hit a reused id (memory/facts.py, upsert).      *)
(***************************************************************************)
THEOREM StoredIsTold == Spec => []TableTold
<1> QED
  BY TypesInit, TypesStep, ToldStep, PTL DEF Spec

-----------------------------------------------------------------------------
(***************************************************************************)
(* The rows of a fact replay its history.  Of a key that no two calls      *)
(* worked on and that none changed without a row: the one writer at work   *)
(* on it has read what is stored; what is stored is what the last row      *)
(* says, or, from the write to the row, what that row will say.            *)
(***************************************************************************)
AtKey(w, key) == pc[w] # "idle" /\ call[w].key = key

OneFact == \A f, g \in table : f.key = g.key => f = g

IsLast(i, key) == i \in RowsFor(key) /\ \A k \in RowsFor(key) : k <= i

LastGave(key, value) ==
    IF RowsFor(key) = {} THEN value = None
    ELSE \E i \in RowsFor(key) : IsLast(i, key) /\ trail[i].value = value

Gives(key, row) ==
    IF row.value = None THEN Under(key) = {}
    ELSE \E f \in Under(key) : f.value = row.value /\ f.conf = row.conf

AsTold(key) ==
    \/ RowsFor(key) = {} /\ Under(key) = {}
    \/ \E i \in RowsFor(key) : IsLast(i, key) /\ EndsWith(i, key)

Owes(w, key) == AtKey(w, key) /\ pc[w] = "audit"

Replays(key) ==
    /\ \A v, w \in Writers : AtKey(v, key) /\ AtKey(w, key) => v = w
    /\ \A w \in Writers : AtKey(w, key) /\ pc[w] = "write" => seen[w] = Read(key)
    /\ \A i \in RowsFor(key) : Follows(i, key)
    /\ (\A w \in Writers : ~ Owes(w, key)) => AsTold(key)
    /\ \A w \in Writers : Owes(w, key) =>
          LastGave(key, RowOf(w).was) /\ Gives(key, RowOf(w))

ReplayInv == Types /\ OneFact /\ \A key \in Keys \ (raced \cup lost) : Replays(key)

LEMMA ReplayInit == Init => ReplayInv
<1> SUFFICES ASSUME Init
             PROVE  ReplayInv
  OBVIOUS
<1>1. Types /\ table = {} /\ DOMAIN trail = {} /\ \A w \in Writers : pc[w] = "idle"
  BY TypesInit DEF Init
<1> QED
  BY <1>1 DEF ReplayInv, OneFact, Replays, AtKey, Owes, AsTold, RowsFor, Under

LEMMA OneFactStep == Types /\ OneFact /\ [Next]_vars => OneFact'
<1> SUFFICES ASSUME Types, OneFact, [Next]_vars
             PROVE  OneFact'
  OBVIOUS
<1>1. ASSUME NEW w \in Writers, Write(w), ~Raises(w)
      PROVE  OneFact'
  <2>1. pc[w] = "write" /\ (Edits(w) \/ Adds(w) \/ Removes(w))
    BY <1>1, WriteMoves
  <2>2. CASE Edits(w)
    BY <2>1, <2>2, RewrittenIs DEF Edits, OneFact
  <2>3. CASE Adds(w)
    BY <2>3, AddedIs DEF Adds, OneFact, Under
  <2>4. CASE Removes(w)
    BY <2>4 DEF Removes, OneFact
  <2> QED
    BY <2>1, <2>2, <2>3, <2>4
<1>2. CASE UNCHANGED table
  BY <1>2 DEF OneFact
<1> QED
  BY <1>1, <1>2 DEF Next, Ask, Raises, InsertRaises, Audit, AuditEdit, Cut, vars

LEMMA OneUnder ==
    ASSUME Types, OneFact, NEW key, Under(key) # {}
    PROVE  /\ Under(key) = {Read(key)} /\ Read(key) \in table /\ Read(key).key = key
           /\ Read(key) # None
<1>1. Read(key) \in Under(key) /\ Read(key) # None
  BY ReadCases DEF Types
<1> QED
  BY <1>1 DEF Under, OneFact

\* A key whose fact, rows and writers are left alone still replays; a writer may leave it
\* when it owes no row.
LEMMA ReplayFrame ==
    ASSUME NEW key, Replays(key), Under(key)' = Under(key), RowsFor(key)' = RowsFor(key),
           \A i \in RowsFor(key) : trail'[i] = trail[i],
           \A v \in Writers : AtKey(v, key)' =>
               AtKey(v, key) /\ pc'[v] = pc[v] /\ call'[v] = call[v] /\ seen'[v] = seen[v],
           \A v \in Writers : Owes(v, key) => Owes(v, key)'
    PROVE  Replays(key)'
<1>1. /\ \A v, w \in Writers : AtKey(v, key)' /\ AtKey(w, key)' => v = w
      /\ \A w \in Writers : AtKey(w, key)' /\ pc'[w] = "write" => seen'[w] = Read(key)'
  BY DEF Replays, Read
<1>2. \A i \in RowsFor(key)' : Follows(i, key)'
  BY DEF Replays, Follows
<1>3. (\A w \in Writers : ~ Owes(w, key)') => AsTold(key)'
  BY DEF Replays, AsTold, IsLast, EndsWith
<1>4. ASSUME NEW w \in Writers, Owes(w, key)'
      PROVE  LastGave(key, RowOf(w).was)' /\ Gives(key, RowOf(w))'
  <2>1. Owes(w, key) /\ RowOf(w)' = RowOf(w)
    BY <1>4 DEF Owes, RowOf, Ratchet
  <2>2. LastGave(key, RowOf(w).was) /\ Gives(key, RowOf(w))
    BY <2>1 DEF Replays
  <2> QED
    BY <2>1, <2>2 DEF LastGave, IsLast, Gives
<1> QED
  BY <1>1, <1>2, <1>3, <1>4 DEF Replays

\* Rows of other keys, and second rows, are none of a key's.
LEMMA RowsFrame ==
    ASSUME Types, NEW row \in TrailRow, trail' = Append(trail, row), NEW key,
           row.key # key \/ row.event = "user_edited"
    PROVE  RowsFor(key)' = RowsFor(key) /\ \A i \in RowsFor(key) : trail'[i] = trail[i]
  BY RowsStay DEF RowsFor

\* What the fact of a key is when its rows tell it.
LEMMA ToldFact ==
    ASSUME Types, OneFact, NEW key, AsTold(key)
    PROVE  /\ Under(key) = {} => LastGave(key, None)
           /\ Under(key) # {} => LastGave(key, Read(key).value)
<1>1. CASE RowsFor(key) = {} /\ Under(key) = {}
  BY <1>1 DEF LastGave
<1>2. ASSUME NEW i \in RowsFor(key), IsLast(i, key), EndsWith(i, key)
      PROVE  /\ Under(key) = {} => LastGave(key, None)
             /\ Under(key) # {} => LastGave(key, Read(key).value)
  <2>1. CASE Under(key) = {}
    BY <1>2, <2>1 DEF EndsWith, LastGave
  <2>2. CASE Under(key) # {}
    <3>1. trail[i].value = Read(key).value
      BY <1>2, <2>2, OneUnder DEF EndsWith
    <3> QED
      BY <1>2, <2>2, <3>1 DEF LastGave
  <2> QED
    BY <2>1, <2>2
<1> QED
  BY <1>1, <1>2 DEF AsTold

LEMMA WriteOwn ==
    ASSUME Types, OneFact, NEW w \in Writers, Write(w), ~Raises(w), NEW key,
           key = call[w].key, Replays(key)
    PROVE  Replays(key)'
<1>1. /\ pc[w] = "write" /\ pc' = [pc EXCEPT ![w] = "audit"]
      /\ UNCHANGED <<call, seen, trail>>
      /\ Edits(w) \/ Adds(w) \/ Removes(w)
  BY WriteMoves
<1>2. AtKey(w, key) /\ \A v \in Writers : AtKey(v, key) => v = w
  BY <1>1 DEF AtKey, Replays
<1>3. seen[w] = Read(key) /\ AsTold(key)
  BY <1>1, <1>2 DEF Replays, Owes
<1>4. /\ Owes(w, key)' /\ RowOf(w)' = RowOf(w)
      /\ \A v \in Writers : AtKey(v, key)' => v = w
  BY <1>1, <1>2 DEF Types, Owes, AtKey, RowOf, Ratchet
<1>5. seen[w] # None => seen[w] \in FactRow /\ seen[w].value # None
  BY <1>1, FactsAssumption DEF Types, AtWork, FactRow
<1>6. call[w] \in Writes => call[w].value # None
  BY FactsAssumption, CallsApart
<1>7. LastGave(key, RowOf(w).was) /\ Gives(key, RowOf(w))'
  <2>1. CASE Adds(w)
    <3>1. Under(key) = {} /\ LastGave(key, None)
      BY <1>3, <2>1, ToldFact DEF Adds
    <3>2. /\ RowOf(w).was = None /\ RowOf(w).value = call[w].value
          /\ RowOf(w).conf = call[w].conf
      BY <1>1, <2>1, RowCases DEF Adds
    <3>3. Added(w) \in Under(key)'
      BY <2>1, AddedIs DEF Adds, Under
    <3>4. Added(w).value = call[w].value /\ Added(w).conf = call[w].conf
      BY <2>1, AddedIs DEF Adds
    <3> QED
      BY <1>4, <1>6, <2>1, <3>1, <3>2, <3>3, <3>4 DEF Adds, Gives
  <2>2. CASE Edits(w)
    <3>1. seen[w] # None /\ call[w] \in Writes
      BY <2>2 DEF Edits
    <3>2. Under(key) # {}
      BY <1>3, <3>1, ReadCases DEF Types
    <3>3. seen[w] \in table /\ seen[w].key = key
      BY <1>3, <3>2, OneUnder
    <3>4. LastGave(key, seen[w].value)
      BY <1>3, <3>2, ToldFact
    <3>5. Rewritten(w, seen[w]) \in Under(key)'
      BY <1>1, <2>2, <3>1, <3>3, RewrittenIs DEF Edits, Under
    <3>6. /\ RowOf(w).was = seen[w].value /\ RowOf(w).value = call[w].value
          /\ Rewritten(w, seen[w]).value = RowOf(w).value
          /\ Rewritten(w, seen[w]).conf = RowOf(w).conf
      BY <1>1, <3>1, <3>3, RewrittenIs, RowCases
    <3> QED
      BY <1>4, <1>6, <3>1, <3>4, <3>5, <3>6 DEF Gives
  <2>3. CASE Removes(w)
    <3>1. seen[w] # None /\ call[w] \in Deletes
      BY <2>3 DEF Removes
    <3>2. Under(key) # {}
      BY <1>3, <3>1, ReadCases DEF Types
    <3>3. Under(key) = {seen[w]} /\ LastGave(key, seen[w].value)
      BY <1>3, <3>2, OneUnder, ToldFact
    <3>4. Under(key)' = {}
      BY <2>3, <3>3 DEF Removes, Under
    <3>5. RowOf(w).was = seen[w].value /\ RowOf(w).value = None
      BY <1>1, <3>1, RowCases
    <3> QED
      BY <1>4, <3>3, <3>4, <3>5 DEF Gives
  <2> QED
    BY <1>1, <2>1, <2>2, <2>3
<1>8. LastGave(key, RowOf(w).was)'
  BY <1>1, <1>4, <1>7 DEF LastGave, IsLast, RowsFor
<1>9. \A i \in RowsFor(key)' : Follows(i, key)'
  BY <1>1 DEF Replays, Follows, RowsFor
<1>10. pc'[w] # "write"
  BY <1>1 DEF Types
<1> QED
  BY <1>4, <1>7, <1>8, <1>9, <1>10 DEF Replays, Owes

LEMMA WriteOther ==
    ASSUME Types, NEW w \in Writers, Write(w), ~Raises(w), NEW key,
           key # call[w].key, key \notin lost', Replays(key)
    PROVE  Replays(key)'
<1>1. /\ pc[w] = "write" /\ pc' = [pc EXCEPT ![w] = "audit"]
      /\ UNCHANGED <<call, seen, trail>>
      /\ Edits(w) \/ Adds(w) \/ Removes(w)
  BY WriteMoves
<1>2. Under(key)' = Under(key)
  <2>1. CASE Adds(w)
    BY <2>1, AddedIs DEF Adds, Under
  <2>2. CASE Edits(w)
    <3>1. \A f \in table : f.key = key => f.id # seen[w].id
      BY <2>2 DEF Edits, HitOther, Hit
    <3>2. \A f \in table : Rewritten(w, f).key = f.key
      BY <1>1, <2>2, RewrittenIs DEF Edits
    <3> QED
      BY <2>2, <3>1, <3>2 DEF Edits, Under
  <2>3. CASE Removes(w)
    <3>1. \A f \in table : f.key = key => f.id # seen[w].id
      BY <2>3 DEF Removes, HitOther, Hit
    <3> QED
      BY <2>3, <3>1 DEF Removes, Under
  <2> QED
    BY <1>1, <2>1, <2>2, <2>3
<1>3. RowsFor(key)' = RowsFor(key)
  BY <1>1 DEF RowsFor
<1>4. \A v \in Writers : AtKey(v, key)' =>
          AtKey(v, key) /\ pc'[v] = pc[v] /\ call'[v] = call[v] /\ seen'[v] = seen[v]
  BY <1>1 DEF AtKey, Types
<1>5. \A v \in Writers : Owes(v, key) => Owes(v, key)'
  BY <1>1 DEF Owes, AtKey, Types
<1> QED
  BY <1>1, <1>2, <1>3, <1>4, <1>5, ReplayFrame

LEMMA AuditOwn ==
    ASSUME Types, NEW w \in Writers, Audit(w), NEW key, key = call[w].key, Replays(key)
    PROVE  Replays(key)'
<1>0. PICK n : n = Len(trail) + 1
  OBVIOUS
<1>1. /\ pc[w] = "audit" /\ trail' = Append(trail, RowOf(w)) /\ UNCHANGED table
      /\ pc'[w] \in {"idle", "edited"}
      /\ \A v \in Writers : v # w => pc'[v] = pc[v] /\ call'[v] = call[v]
  BY DEF Audit, Goto, Returns, Types
<1>2. AtKey(w, key) /\ \A v \in Writers : AtKey(v, key) => v = w
  BY <1>1 DEF AtKey, Replays
<1>3. \A v \in Writers : AtKey(v, key)' => v = w
  BY <1>1, <1>2 DEF AtKey
<1>4. LastGave(key, RowOf(w).was) /\ Gives(key, RowOf(w))
  BY <1>1, <1>2 DEF Replays, Owes
<1>5. RowOf(w) \in TrailRow /\ RowOf(w).key = key /\ RowOf(w).event # "user_edited"
  BY <1>1, RowCases
<1>6. /\ RowsFor(key)' = RowsFor(key) \cup {n} /\ trail'[n] = RowOf(w)
      /\ \A i \in RowsFor(key) : i < n /\ i \in Nat /\ trail'[i] = trail[i]
      /\ n \in Nat
  <2>1. n \in Nat
    BY <1>0 DEF Types
  <2> QED
    BY <1>0, <1>1, <1>5, <2>1, RowsStay DEF RowsFor
<1>7. ASSUME NEW i \in RowsFor(key)'
      PROVE  Follows(i, key)'
  <2>1. CASE i \in RowsFor(key)
    <3>1. Follows(i, key)
      BY <2>1 DEF Replays
    <3>2. {j \in RowsFor(key)' : j < i} = {j \in RowsFor(key) : j < i}
      BY <1>6, <2>1
    <3> QED
      BY <1>6, <2>1, <3>1, <3>2 DEF Follows
  <2>2. CASE i = n
    <3>1. {j \in RowsFor(key)' : j < n} = RowsFor(key)
      BY <1>6
    <3> QED
      BY <1>4, <1>6, <2>2, <3>1 DEF Follows, LastGave, IsLast
  <2> QED
    BY <1>6, <2>1, <2>2
<1>8. AsTold(key)'
  <2>1. IsLast(n, key)'
    BY <1>6 DEF IsLast
  <2>2. EndsWith(n, key)'
    BY <1>1, <1>4, <1>6 DEF EndsWith, Gives, Under
  <2> QED
    BY <1>6, <2>1, <2>2 DEF AsTold
<1> QED
  BY <1>1, <1>3, <1>7, <1>8 DEF Replays, Owes

LEMMA AskOwn ==
    ASSUME Types, NEW w \in Writers, NEW c \in CallsOf(w), Ask(w, c), NEW key,
           key = c.key, key \notin raced', Replays(key)
    PROVE  Replays(key)'
<1>1. \A v \in Writers : ~AtKey(v, key)
  BY DEF Ask, Busy, AtKey
<1>2. /\ UNCHANGED <<table, trail>> /\ pc[w] = "idle"
      /\ \A v \in Writers : v # w => pc'[v] = pc[v] /\ call'[v] = call[v] /\ seen'[v] = seen[v]
      /\ pc'[w] # "idle" => pc'[w] = "write" /\ seen'[w] = Read(key)
  BY DEF Ask, Types
<1>3. \A v \in Writers : AtKey(v, key)' => v = w /\ pc'[w] = "write"
  BY <1>1, <1>2 DEF AtKey
<1>4. AsTold(key)'
  BY <1>1, <1>2 DEF Replays, Owes, AsTold, IsLast, EndsWith, RowsFor, Under
<1>5. \A i \in RowsFor(key)' : Follows(i, key)'
  BY <1>2 DEF Replays, Follows, RowsFor
<1>6. Read(key)' = Read(key)
  BY <1>2 DEF Read, Under
<1> QED
  BY <1>2, <1>3, <1>4, <1>5, <1>6 DEF Replays, Owes

LEMMA ReplayStep == ReplayInv /\ [Next]_vars => ReplayInv'
<1> SUFFICES ASSUME ReplayInv, [Next]_vars
             PROVE  ReplayInv'
  OBVIOUS
<1>1. Types /\ OneFact /\ Types' /\ OneFact'
  BY TypesStep, OneFactStep DEF ReplayInv
<1> SUFFICES ASSUME NEW key \in Keys, key \notin raced' \cup lost'
             PROVE  Replays(key)'
  BY <1>1 DEF ReplayInv
<1>2. key \notin raced \cup lost /\ Replays(key)
  <2>1. raced \subseteq raced' /\ lost \subseteq lost'
    BY DEF Next, Ask, Write, Insert, InsertRaises, Confirm, Overwrite, Delete, Audit, AuditEdit,
           Cut, vars
  <2> QED
    BY <2>1 DEF ReplayInv
<1>3. ASSUME NEW w \in Writers, Write(w), ~Raises(w)
      PROVE  Replays(key)'
  BY <1>1, <1>2, <1>3, WriteOwn, WriteOther
<1>4. ASSUME NEW w \in Writers, UNCHANGED <<table, trail>>,
             pc'[w] = "idle" \/ call'[w].key # key, ~Owes(w, key),
             \A v \in Writers : v # w =>
                 pc'[v] = pc[v] /\ call'[v] = call[v] /\ seen'[v] = seen[v]
      PROVE  Replays(key)'
  <2>1. Under(key)' = Under(key) /\ RowsFor(key)' = RowsFor(key)
    BY <1>4 DEF Under, RowsFor
  <2>2. \A v \in Writers : AtKey(v, key)' =>
          AtKey(v, key) /\ pc'[v] = pc[v] /\ call'[v] = call[v] /\ seen'[v] = seen[v]
    BY <1>4 DEF AtKey
  <2>3. \A v \in Writers : Owes(v, key) => Owes(v, key)'
    BY <1>4 DEF Owes, AtKey
  <2> QED
    BY <1>2, <1>4, <2>1, <2>2, <2>3, ReplayFrame
<1>5. ASSUME NEW w \in Writers, NEW c \in CallsOf(w), Ask(w, c)
      PROVE  Replays(key)'
  <2>1. CASE c.key = key
    BY <1>1, <1>2, <1>5, <2>1, AskOwn
  <2>2. CASE c.key # key
    <3>1. /\ UNCHANGED <<table, trail>> /\ pc[w] = "idle"
          /\ pc'[w] = "idle" \/ call'[w] = c
          /\ \A v \in Writers : v # w =>
                pc'[v] = pc[v] /\ call'[v] = call[v] /\ seen'[v] = seen[v]
      BY <1>1, <1>5 DEF Ask, Types
    <3> QED
      BY <1>4, <2>2, <3>1 DEF Owes
  <2> QED
    BY <2>1, <2>2
<1>6. ASSUME NEW w \in Writers, Raises(w) \/ Cut(w)
      PROVE  Replays(key)'
  <2>1. /\ UNCHANGED <<table, trail>> /\ pc'[w] = "idle"
        /\ \A v \in Writers : v # w =>
              pc'[v] = pc[v] /\ call'[v] = call[v] /\ seen'[v] = seen[v]
        /\ pc[w] = "audit" => call[w].key \in lost'
    BY <1>1, <1>6 DEF Raises, InsertRaises, Cut, Returns, Types
  <2> QED
    BY <1>4, <2>1 DEF Owes, AtKey
<1>7. ASSUME NEW w \in Writers, Audit(w)
      PROVE  Replays(key)'
  <2>1. CASE call[w].key = key
    BY <1>1, <1>2, <1>7, <2>1, AuditOwn
  <2>2. CASE call[w].key # key
    <3>1. /\ UNCHANGED table /\ pc[w] = "audit" /\ trail' = Append(trail, RowOf(w))
          /\ pc'[w] = "idle" \/ call'[w] = call[w]
          /\ \A v \in Writers : v # w =>
                pc'[v] = pc[v] /\ call'[v] = call[v] /\ seen'[v] = seen[v]
      BY <1>1, <1>7 DEF Audit, Goto, Returns, Types
    <3>2. RowOf(w) \in TrailRow /\ RowOf(w).key = call[w].key
      BY <1>1, <3>1, RowCases
    <3>3. RowsFor(key)' = RowsFor(key) /\ \A i \in RowsFor(key) : trail'[i] = trail[i]
      BY <1>1, <2>2, <3>1, <3>2, RowsFrame
    <3>4. Under(key)' = Under(key)
      BY <3>1 DEF Under
    <3>5. /\ \A v \in Writers : AtKey(v, key)' =>
              AtKey(v, key) /\ pc'[v] = pc[v] /\ call'[v] = call[v] /\ seen'[v] = seen[v]
          /\ \A v \in Writers : Owes(v, key) => Owes(v, key)'
      BY <2>2, <3>1 DEF Owes, AtKey
    <3> QED
      BY <1>2, <3>3, <3>4, <3>5, ReplayFrame
  <2> QED
    BY <2>1, <2>2
<1>8. ASSUME NEW w \in Writers, AuditEdit(w)
      PROVE  Replays(key)'
  <2> DEFINE row == AuditRow("user_edited", call[w].key, None, call[w].value, call[w].conf)
  <2>1. /\ UNCHANGED table /\ pc[w] = "edited" /\ trail' = Append(trail, row)
        /\ pc'[w] = "idle"
        /\ \A v \in Writers : v # w =>
              pc'[v] = pc[v] /\ call'[v] = call[v] /\ seen'[v] = seen[v]
    BY <1>1, <1>8 DEF AuditEdit, Returns, Types
  <2>2. row \in TrailRow /\ row.event = "user_edited"
    <3>1. call[w] \in Writes
      BY <1>1, <2>1 DEF Types, AtWork
    <3> QED
      BY <3>1, CallsApart DEF AuditRow, TrailRow, Events
  <2> HIDE DEF row
  <2>3. RowsFor(key)' = RowsFor(key) /\ \A i \in RowsFor(key) : trail'[i] = trail[i]
    BY <1>1, <2>1, <2>2, RowsFrame
  <2>4. Under(key)' = Under(key)
    BY <2>1 DEF Under
  <2>5. /\ \A v \in Writers : AtKey(v, key)' =>
            AtKey(v, key) /\ pc'[v] = pc[v] /\ call'[v] = call[v] /\ seen'[v] = seen[v]
        /\ \A v \in Writers : Owes(v, key) => Owes(v, key)'
    BY <2>1 DEF Owes, AtKey
  <2> QED
    BY <1>2, <2>3, <2>4, <2>5, ReplayFrame
<1>9. CASE UNCHANGED vars
  <2>1. /\ Under(key)' = Under(key) /\ RowsFor(key)' = RowsFor(key) /\ UNCHANGED trail
        /\ \A v \in Writers : AtKey(v, key)' =>
            AtKey(v, key) /\ pc'[v] = pc[v] /\ call'[v] = call[v] /\ seen'[v] = seen[v]
        /\ \A v \in Writers : Owes(v, key) => Owes(v, key)'
    BY <1>9 DEF vars, Under, RowsFor, Owes, AtKey
  <2> QED
    BY <1>2, <2>1, ReplayFrame
<1> QED
  BY <1>3, <1>5, <1>6, <1>7, <1>8, <1>9 DEF Next

(***************************************************************************)
(* THEOREM.  The history of a fact can be replayed from its audit rows     *)
(* (memory/facts.py, upsert and delete), for every key but those two calls *)
(* worked on at a time and those changed without a row of theirs.          *)
(***************************************************************************)
THEOREM FactsReplay == Spec => []TrailReplays
<1>1. ReplayInv => TrailReplays
  <2> SUFFICES ASSUME ReplayInv, NEW key \in Keys \ (raced \cup lost)
               PROVE  /\ \A i \in RowsFor(key) : Follows(i, key)
                      /\ ~ Busy(key) => AsTold(key)
    BY DEF TrailReplays, AsTold, IsLast
  <2> QED
    BY DEF ReplayInv, Replays, Owes, AtKey, Busy
<1> QED
  BY <1>1, ReplayInit, ReplayStep, PTL DEF Spec

-----------------------------------------------------------------------------
\* A step that leaves a key's value leaves its confidence or raises it.
LEMMA RatchetStep ==
    ASSUME ReplayInv, [Next]_vars, NEW key \in Keys, key \notin raced' \cup lost',
           NEW f \in Under(key), NEW g \in Under(key)', f.value = g.value
    PROVE  f.conf <= g.conf
<1>1. Types /\ OneFact /\ f \in table /\ g \in table' /\ f.key = key /\ g.key = key
  BY DEF ReplayInv, Under
<1>2. f.conf \in Nat
  BY <1>1, FactsAssumption DEF Types, FactRow
<1>3. g \in table => f.conf <= g.conf
  BY <1>1, <1>2 DEF OneFact
<1>4. ASSUME NEW w \in Writers, Write(w), ~Raises(w), g \notin table
      PROVE  f.conf <= g.conf
  <2>1. pc[w] = "write" /\ raced' = raced /\ (Edits(w) \/ Adds(w) \/ Removes(w))
    BY <1>1, <1>4, WriteMoves
  <2>2. Edits(w)
    <3>1. ~ Removes(w)
      BY <1>1, <1>4 DEF Removes
    <3>2. ~ Adds(w)
      BY <1>1, <1>4, AddedIs DEF Adds, Under
    <3> QED
      BY <2>1, <3>1, <3>2
  <2>3. PICK h \in table : h.id = seen[w].id /\ g = Rewritten(w, h)
    BY <1>1, <1>4, <2>2 DEF Edits
  <2>4. call[w] \in Writes /\ seen[w] # None /\ lost' = lost \cup HitOther(w)
    BY <2>2 DEF Edits
  <2>5. h = f
    BY <1>1, <2>1, <2>3, <2>4, RewrittenIs DEF OneFact
  <2>6. call[w].key = key
    BY <1>1, <2>3, <2>4, <2>5 DEF HitOther, Hit
  <2>7. seen[w] = f
    <3>1. Replays(key) /\ AtKey(w, key)
      BY <2>1, <2>4, <2>6 DEF ReplayInv, AtKey
    <3>2. seen[w] = Read(key)
      BY <2>1, <3>1 DEF Replays
    <3> QED
      BY <1>1, <3>2, OneUnder
  <2>8. f.value = call[w].value /\ g.conf = Ratchet(w)
    BY <1>1, <2>1, <2>3, <2>4, <2>5, <2>7, RewrittenIs
  <2>9. call[w].conf \in Nat
    BY <2>4, CallsApart, FactsAssumption
  <2> QED
    BY <1>2, <2>7, <2>8, <2>9 DEF Ratchet
<1>5. CASE UNCHANGED table
  BY <1>1, <1>3, <1>5
<1> QED
  BY <1>3, <1>4, <1>5 DEF Next, Ask, Raises, InsertRaises, Audit, AuditEdit, Cut, vars

(***************************************************************************)
(* THEOREM.  The confidence of a value that stays is never lowered         *)
(* (memory/facts.py, upsert), whoever observes it again, unless two calls  *)
(* work on the key at a time.                                              *)
(***************************************************************************)
THEOREM ConfidenceIsARatchet == Spec => ConfidenceRatchets
<1>1. ReplayInv /\ [Next]_vars =>
          [\A key \in Keys \ (raced' \cup lost') : \A f \in Under(key), g \in Under(key)' :
              f.value = g.value => f.conf <= g.conf]_vars
  BY RatchetStep
<1> QED
  BY <1>1, ReplayInit, ReplayStep, PTL DEF Spec, ConfidenceRatchets
=============================================================================
