--------------------------- MODULE HADriverProofs ---------------------------
(***************************************************************************)
(* Theorems about HADriver for every list of triggers and every bound.     *)
(***************************************************************************)
EXTENDS HADriver, SequenceTheorems, WellFoundedInduction, TLAPS

\* The constants are numbers.
LEMMA Sizes ==
    /\ Len(Triggers) \in Nat
    /\ Day \in Nat \ {0} /\ MaxTime \in Nat /\ MaxEvents \in Nat
    /\ MaxInbox \in Nat /\ MaxFailures \in Nat
<1>1. Len(Triggers) \in Nat
  BY TriggersAssumption, LenProperties
<1> QED
  BY <1>1, BoundsAssumption

\* The rows the stream writes are rows.
LEMMA RowsTyped ==
    ASSUME TypeOK
    PROVE  /\ LifecycleRow \in StreamRow
           /\ <<"callback_error", connects>> \in StreamRow
           /\ <<"closed", connects>> \in StreamRow
  BY DEF TypeOK, StreamTypeOK, LifecycleRow, StreamRow

\* The initial state is type correct.
LEMMA TypeInit == Init => TypeOK
<1> SUFFICES ASSUME Init PROVE TypeOK
  OBVIOUS
<1>1. TaskTypeOK
  BY Sizes DEF Init, TaskTypeOK, Moments
<1>2. StreamTypeOK
  <2>1. inbox \in Seq(Events)
    BY EmptySeq DEF Init
  <2>2. streamRows \in Seq(StreamRow)
    BY EmptySeq DEF Init
  <2>3. link \in BOOLEAN /\ announced \in BOOLEAN
    BY Zenon DEF Init
  <2>4. sent = 0 /\ connects = 0
    BY DEF Init
  <2>5. sent \in 0 .. MaxEvents /\ connects \in Nat
    BY <2>4, Sizes
  <2> QED
    BY <2>1, <2>2, <2>3, <2>5 DEF StreamTypeOK
<1>3. CoolTypeOK
  BY DEF Init, CoolTypeOK
<1> QED
  BY <1>1, <1>2, <1>3 DEF TypeOK

\* Every step keeps the types of the task's variables.
LEMMA TaskTypeStep == TypeOK /\ [Next]_vars => TaskTypeOK'
<1> SUFFICES ASSUME TypeOK, [Next]_vars PROVE TaskTypeOK'
  OBVIOUS
<1> USE Sizes
<1>1. CASE Start
  BY <1>1 DEF Start, TypeOK, TaskTypeOK, Idxs, Moments, streamVars, coolVars
<1>2. CASE StartFails
  BY <1>2 DEF StartFails, TypeOK, TaskTypeOK, Idxs, Moments, streamVars, coolVars
<1>3. CASE ConnectSucceeds
  BY <1>3 DEF ConnectSucceeds, TypeOK, TaskTypeOK, Idxs, Moments, streamVars, coolVars
<1>4. CASE ConnectFails
  BY <1>4 DEF ConnectFails, TypeOK, TaskTypeOK, Idxs, Moments, streamVars, coolVars
<1>5. CASE BackoffOver
  BY <1>5 DEF BackoffOver, TypeOK, TaskTypeOK, Idxs, Moments, streamVars, coolVars
<1>6. CASE Receive
  BY <1>6, HeadTailProperties DEF Receive, BeginWalk, TypeOK, TaskTypeOK, StreamTypeOK, Idxs, Moments, streamVars, coolVars
<1>7. CASE ReceiveFirst
  BY <1>7, HeadTailProperties DEF ReceiveFirst, TypeOK, TaskTypeOK, StreamTypeOK, Idxs, Moments, streamVars, coolVars
<1>8. CASE AnnounceWritten
  BY <1>8 DEF AnnounceWritten, BeginWalk, LifecycleRow, TypeOK, TaskTypeOK, Idxs, Moments, streamVars, coolVars
<1>9. CASE AnnounceFails
  BY <1>9 DEF AnnounceFails, Disconnect, EndWalk, TypeOK, TaskTypeOK, Idxs, Moments, streamVars, coolVars
<1>10. CASE StreamEnds
  BY <1>10 DEF StreamEnds, Disconnect, TypeOK, TaskTypeOK, Idxs, Moments, streamVars, coolVars
<1>11. CASE Skip
  BY <1>11 DEF Skip, Walking, Matched, TypeOK, TaskTypeOK, Idxs, Moments, streamVars, coolVars
<1>12. CASE Suppress
  BY <1>12 DEF Suppress, Walking, Matched, Counted, SupRow, IsInCooldown, TypeOK, TaskTypeOK, Idxs, Moments, streamVars, coolVars
<1>13. CASE Fire
  BY <1>13 DEF Fire, Walking, Matched, MarkFired, TypeOK, TaskTypeOK, Idxs, Moments, streamVars, coolVars
<1>14. CASE FlushFirst
  BY <1>14 DEF FlushFirst, Walking, Matched, Popped, TypeOK, TaskTypeOK, Idxs, Moments, streamVars, coolVars
<1>15. CASE FlushWritten
  BY <1>15 DEF FlushWritten, MarkFired, TypeOK, TaskTypeOK, Idxs, Moments, streamVars, coolVars
<1>16. CASE FlushFails
  BY <1>16 DEF FlushFails, TypeOK, TaskTypeOK, Idxs, Moments, streamVars, coolVars
<1>17. CASE FireReturns
  BY <1>17 DEF FireReturns, TypeOK, TaskTypeOK, Idxs, Moments, streamVars, coolVars
<1>18. CASE FireRaises
  BY <1>18 DEF FireRaises, TypeOK, TaskTypeOK, Idxs, Moments, streamVars, coolVars
<1>19. CASE WalkDone
  BY <1>19 DEF WalkDone, EndWalk, TypeOK, TaskTypeOK, Idxs, Moments, streamVars, coolVars
<1>20. CASE ReportWritten
  BY <1>20 DEF ReportWritten, EndWalk, TypeOK, TaskTypeOK, Idxs, Moments, streamVars, coolVars
<1>21. CASE ReportFails
  BY <1>21 DEF ReportFails, Disconnect, EndWalk, TypeOK, TaskTypeOK, Idxs, Moments, streamVars, coolVars
<1>22. CASE Stop
  BY <1>22 DEF Stop, Cancel, Disconnect, EndWalk, LifecycleRow, TypeOK, TaskTypeOK, Idxs, Moments, streamVars, coolVars
<1>23. CASE StopAfterFlushWrite
  BY <1>23 DEF StopAfterFlushWrite, Cancel, Disconnect, EndWalk, TypeOK, TaskTypeOK, Idxs, Moments, streamVars, coolVars
<1>24. CASE RecordClosed
  BY <1>24 DEF RecordClosed, TypeOK, TaskTypeOK, Idxs, Moments, streamVars, coolVars
<1>25. CASE RecordClosedFails
  BY <1>25 DEF RecordClosedFails, TypeOK, TaskTypeOK, Idxs, Moments, streamVars, coolVars
<1>26. CASE Stopped
  BY <1>26 DEF Stopped, TypeOK, TaskTypeOK, Idxs, Moments, streamVars, coolVars
<1>27. CASE Tick
  BY <1>27 DEF Tick, TypeOK, TaskTypeOK, Idxs, Moments, streamVars, coolVars
<1>28. CASE LinkBreaks
  BY <1>28 DEF LinkBreaks, TypeOK, TaskTypeOK, Idxs, Moments, streamVars, coolVars
<1>29. ASSUME NEW k \in Idxs, FlushPending(k) PROVE TaskTypeOK'
  BY <1>29 DEF FlushPending, Popped, TypeOK, TaskTypeOK, Idxs, Moments, streamVars, coolVars
<1>30. ASSUME NEW k \in Idxs, FlushPendingFails(k) PROVE TaskTypeOK'
  BY <1>30 DEF FlushPendingFails, Popped, TypeOK, TaskTypeOK, Idxs, Moments, streamVars, coolVars
<1>31. ASSUME NEW e \in Events, Publish(e) PROVE TaskTypeOK'
  BY <1>31 DEF Publish, Popped, TypeOK, TaskTypeOK, Idxs, Moments, streamVars, coolVars
<1>32. CASE UNCHANGED vars
  BY <1>32 DEF vars, TypeOK, TaskTypeOK, Idxs, Moments, streamVars, coolVars
<1> QED
  BY <1>1, <1>2, <1>3, <1>4, <1>5, <1>6, <1>7, <1>8, <1>9, <1>10, <1>11, <1>12, <1>13, <1>14, <1>15, <1>16, <1>17, <1>18, <1>19, <1>20, <1>21, <1>22, <1>23, <1>24, <1>25, <1>26, <1>27, <1>28, <1>29, <1>30, <1>31, <1>32
     DEF Next, StreamNext, WalkNext, StopNext, WorldNext

\* Every step keeps the types of the stream's variables.
LEMMA StreamTypeStep == TypeOK /\ [Next]_vars => StreamTypeOK'
<1> SUFFICES ASSUME TypeOK, [Next]_vars PROVE StreamTypeOK'
  OBVIOUS
<1> USE Sizes
<1>1. CASE Start
  BY <1>1 DEF Start, TypeOK, StreamTypeOK, TaskTypeOK, streamVars, coolVars
<1>2. CASE StartFails
  BY <1>2 DEF StartFails, TypeOK, StreamTypeOK, TaskTypeOK, streamVars, coolVars
<1>3. CASE ConnectSucceeds
  BY <1>3 DEF ConnectSucceeds, TypeOK, StreamTypeOK, TaskTypeOK, streamVars, coolVars
<1>4. CASE ConnectFails
  BY <1>4 DEF ConnectFails, TypeOK, StreamTypeOK, TaskTypeOK, streamVars, coolVars
<1>5. CASE BackoffOver
  BY <1>5 DEF BackoffOver, TypeOK, StreamTypeOK, TaskTypeOK, streamVars, coolVars
<1>6. CASE Receive
  BY <1>6 DEF Receive, BeginWalk, TypeOK, StreamTypeOK, TaskTypeOK, streamVars, coolVars
<1>7. CASE ReceiveFirst
  BY <1>7 DEF ReceiveFirst, TypeOK, StreamTypeOK, TaskTypeOK, streamVars, coolVars
<1>8. CASE AnnounceWritten
  BY <1>8, RowsTyped DEF AnnounceWritten, BeginWalk, TypeOK, StreamTypeOK, TaskTypeOK, streamVars, coolVars
<1>9. CASE AnnounceFails
  BY <1>9, EmptySeq DEF AnnounceFails, Disconnect, EndWalk, TypeOK, StreamTypeOK, TaskTypeOK, streamVars, coolVars
<1>10. CASE StreamEnds
  BY <1>10 DEF StreamEnds, Disconnect, TypeOK, StreamTypeOK, TaskTypeOK, streamVars, coolVars
<1>11. CASE Skip
  BY <1>11 DEF Skip, Walking, Matched, TypeOK, StreamTypeOK, TaskTypeOK, streamVars, coolVars
<1>12. CASE Suppress
  BY <1>12 DEF Suppress, Walking, Matched, Counted, SupRow, IsInCooldown, TypeOK, StreamTypeOK, TaskTypeOK, streamVars, coolVars
<1>13. CASE Fire
  BY <1>13 DEF Fire, Walking, Matched, MarkFired, TypeOK, StreamTypeOK, TaskTypeOK, streamVars, coolVars
<1>14. CASE FlushFirst
  BY <1>14 DEF FlushFirst, Walking, Matched, Popped, TypeOK, StreamTypeOK, TaskTypeOK, streamVars, coolVars
<1>15. CASE FlushWritten
  BY <1>15 DEF FlushWritten, MarkFired, TypeOK, StreamTypeOK, TaskTypeOK, streamVars, coolVars
<1>16. CASE FlushFails
  BY <1>16 DEF FlushFails, TypeOK, StreamTypeOK, TaskTypeOK, streamVars, coolVars
<1>17. CASE FireReturns
  BY <1>17 DEF FireReturns, TypeOK, StreamTypeOK, TaskTypeOK, streamVars, coolVars
<1>18. CASE FireRaises
  BY <1>18 DEF FireRaises, TypeOK, StreamTypeOK, TaskTypeOK, streamVars, coolVars
<1>19. CASE WalkDone
  BY <1>19 DEF WalkDone, EndWalk, TypeOK, StreamTypeOK, TaskTypeOK, streamVars, coolVars
<1>20. CASE ReportWritten
  BY <1>20, RowsTyped DEF ReportWritten, EndWalk, TypeOK, StreamTypeOK, TaskTypeOK, streamVars, coolVars
<1>21. CASE ReportFails
  BY <1>21, EmptySeq DEF ReportFails, Disconnect, EndWalk, TypeOK, StreamTypeOK, TaskTypeOK, streamVars, coolVars
<1>22. CASE Stop
  <2>3. streamRows' \in Seq(StreamRow)
    <3>1. streamRows' \in {streamRows, Append(streamRows, LifecycleRow),
                            Append(streamRows, <<"callback_error", connects>>)}
      BY <1>22 DEF Stop
    <3>2. /\ streamRows \in Seq(StreamRow)
          /\ Append(streamRows, LifecycleRow) \in Seq(StreamRow)
          /\ Append(streamRows, <<"callback_error", connects>>) \in Seq(StreamRow)
      BY RowsTyped, AppendProperties, Zenon DEF TypeOK, StreamTypeOK
    <3> QED
      BY <3>1, <3>2
  <2> QED
    BY <1>22, <2>3, EmptySeq DEF Stop, Cancel, Disconnect, TypeOK, StreamTypeOK
<1>23. CASE StopAfterFlushWrite
  BY <1>23, EmptySeq DEF StopAfterFlushWrite, Cancel, Disconnect, EndWalk, TypeOK, StreamTypeOK, TaskTypeOK, streamVars, coolVars
<1>24. CASE RecordClosed
  BY <1>24, RowsTyped DEF RecordClosed, TypeOK, StreamTypeOK, TaskTypeOK, streamVars, coolVars
<1>25. CASE RecordClosedFails
  BY <1>25 DEF RecordClosedFails, TypeOK, StreamTypeOK, TaskTypeOK, streamVars, coolVars
<1>26. CASE Stopped
  BY <1>26 DEF Stopped, TypeOK, StreamTypeOK, TaskTypeOK, streamVars, coolVars
<1>27. CASE Tick
  BY <1>27 DEF Tick, TypeOK, StreamTypeOK, TaskTypeOK, streamVars, coolVars
<1>28. CASE LinkBreaks
  BY <1>28 DEF LinkBreaks, TypeOK, StreamTypeOK, TaskTypeOK, streamVars, coolVars
<1>29. ASSUME NEW k \in Idxs, FlushPending(k) PROVE StreamTypeOK'
  BY <1>29 DEF FlushPending, Popped, TypeOK, StreamTypeOK, TaskTypeOK, streamVars, coolVars
<1>30. ASSUME NEW k \in Idxs, FlushPendingFails(k) PROVE StreamTypeOK'
  BY <1>30 DEF FlushPendingFails, Popped, TypeOK, StreamTypeOK, TaskTypeOK, streamVars, coolVars
<1>31. ASSUME NEW e \in Events, Publish(e) PROVE StreamTypeOK'
  BY <1>31 DEF Publish, Popped, TypeOK, StreamTypeOK, TaskTypeOK, streamVars, coolVars
<1>32. CASE UNCHANGED vars
  BY <1>32 DEF vars, TypeOK, StreamTypeOK, TaskTypeOK, streamVars, coolVars
<1> QED
  BY <1>1, <1>2, <1>3, <1>4, <1>5, <1>6, <1>7, <1>8, <1>9, <1>10, <1>11, <1>12, <1>13, <1>14, <1>15, <1>16, <1>17, <1>18, <1>19, <1>20, <1>21, <1>22, <1>23, <1>24, <1>25, <1>26, <1>27, <1>28, <1>29, <1>30, <1>31, <1>32
     DEF Next, StreamNext, WalkNext, StopNext, WorldNext

\* Every step keeps the types of the cooldown's variables.
LEMMA CoolTypeStep == TypeOK /\ [Next]_vars => CoolTypeOK'
<1> SUFFICES ASSUME TypeOK, [Next]_vars PROVE CoolTypeOK'
  OBVIOUS
<1> USE Sizes
<1>1. CASE Start
  BY <1>1 DEF Start, TypeOK, CoolTypeOK, TaskTypeOK, streamVars, coolVars
<1>2. CASE StartFails
  BY <1>2 DEF StartFails, TypeOK, CoolTypeOK, TaskTypeOK, streamVars, coolVars
<1>3. CASE ConnectSucceeds
  BY <1>3 DEF ConnectSucceeds, TypeOK, CoolTypeOK, TaskTypeOK, streamVars, coolVars
<1>4. CASE ConnectFails
  BY <1>4 DEF ConnectFails, TypeOK, CoolTypeOK, TaskTypeOK, streamVars, coolVars
<1>5. CASE BackoffOver
  BY <1>5 DEF BackoffOver, TypeOK, CoolTypeOK, TaskTypeOK, streamVars, coolVars
<1>6. CASE Receive
  BY <1>6 DEF Receive, BeginWalk, TypeOK, CoolTypeOK, TaskTypeOK, streamVars, coolVars
<1>7. CASE ReceiveFirst
  BY <1>7 DEF ReceiveFirst, TypeOK, CoolTypeOK, TaskTypeOK, streamVars, coolVars
<1>8. CASE AnnounceWritten
  BY <1>8 DEF AnnounceWritten, BeginWalk, LifecycleRow, TypeOK, CoolTypeOK, TaskTypeOK, streamVars, coolVars
<1>9. CASE AnnounceFails
  BY <1>9 DEF AnnounceFails, Disconnect, EndWalk, TypeOK, CoolTypeOK, TaskTypeOK, streamVars, coolVars
<1>10. CASE StreamEnds
  BY <1>10 DEF StreamEnds, Disconnect, TypeOK, CoolTypeOK, TaskTypeOK, streamVars, coolVars
<1>11. CASE Skip
  BY <1>11 DEF Skip, Walking, Matched, TypeOK, CoolTypeOK, TaskTypeOK, streamVars, coolVars
<1>12. CASE Suppress
  <2>1. i \in Idxs /\ Counted(i) \in SupRow
    <3>1. i \in Idxs /\ seen \in Moments /\ pending[i] \in SupRow \cup {NoRow}
      BY <1>12 DEF Suppress, Walking, Matched, TypeOK, TaskTypeOK, CoolTypeOK, Idxs
    <3> QED
      BY <3>1 DEF Counted, SupRow
  <2> QED
    BY <1>12, <2>1 DEF Suppress, TypeOK, CoolTypeOK, streamVars
<1>13. CASE Fire
  BY <1>13 DEF Fire, Walking, Matched, MarkFired, TypeOK, CoolTypeOK, TaskTypeOK, streamVars, coolVars
<1>14. CASE FlushFirst
  <2>1. i \in Idxs
    BY <1>14 DEF FlushFirst, Walking, Matched, TypeOK, TaskTypeOK, Idxs
  <2> QED
    BY <1>14, <2>1 DEF FlushFirst, Popped, TypeOK, CoolTypeOK, streamVars
<1>15. CASE FlushWritten
  BY <1>15 DEF FlushWritten, MarkFired, TypeOK, CoolTypeOK, TaskTypeOK, streamVars, coolVars
<1>16. CASE FlushFails
  BY <1>16 DEF FlushFails, TypeOK, CoolTypeOK, TaskTypeOK, streamVars, coolVars
<1>17. CASE FireReturns
  BY <1>17 DEF FireReturns, TypeOK, CoolTypeOK, TaskTypeOK, streamVars, coolVars
<1>18. CASE FireRaises
  BY <1>18 DEF FireRaises, TypeOK, CoolTypeOK, TaskTypeOK, streamVars, coolVars
<1>19. CASE WalkDone
  BY <1>19 DEF WalkDone, EndWalk, TypeOK, CoolTypeOK, TaskTypeOK, streamVars, coolVars
<1>20. CASE ReportWritten
  BY <1>20 DEF ReportWritten, EndWalk, TypeOK, CoolTypeOK, TaskTypeOK, streamVars, coolVars
<1>21. CASE ReportFails
  BY <1>21 DEF ReportFails, Disconnect, EndWalk, TypeOK, CoolTypeOK, TaskTypeOK, streamVars, coolVars
<1>22. CASE Stop
  BY <1>22 DEF Stop, Cancel, Disconnect, EndWalk, LifecycleRow, TypeOK, CoolTypeOK, TaskTypeOK, streamVars, coolVars
<1>23. CASE StopAfterFlushWrite
  BY <1>23 DEF StopAfterFlushWrite, Cancel, Disconnect, EndWalk, TypeOK, CoolTypeOK, TaskTypeOK, streamVars, coolVars
<1>24. CASE RecordClosed
  BY <1>24 DEF RecordClosed, TypeOK, CoolTypeOK, TaskTypeOK, streamVars, coolVars
<1>25. CASE RecordClosedFails
  BY <1>25 DEF RecordClosedFails, TypeOK, CoolTypeOK, TaskTypeOK, streamVars, coolVars
<1>26. CASE Stopped
  BY <1>26 DEF Stopped, TypeOK, CoolTypeOK, TaskTypeOK, streamVars, coolVars
<1>27. CASE Tick
  BY <1>27 DEF Tick, TypeOK, CoolTypeOK, TaskTypeOK, streamVars, coolVars
<1>28. CASE LinkBreaks
  BY <1>28 DEF LinkBreaks, TypeOK, CoolTypeOK, TaskTypeOK, streamVars, coolVars
<1>29. ASSUME NEW k \in Idxs, FlushPending(k) PROVE CoolTypeOK'
  BY <1>29 DEF FlushPending, Popped, TypeOK, CoolTypeOK, TaskTypeOK, streamVars, coolVars
<1>30. ASSUME NEW k \in Idxs, FlushPendingFails(k) PROVE CoolTypeOK'
  BY <1>30 DEF FlushPendingFails, Popped, TypeOK, CoolTypeOK, TaskTypeOK, streamVars, coolVars
<1>31. ASSUME NEW e \in Events, Publish(e) PROVE CoolTypeOK'
  BY <1>31 DEF Publish, Popped, TypeOK, CoolTypeOK, TaskTypeOK, streamVars, coolVars
<1>32. CASE UNCHANGED vars
  BY <1>32 DEF vars, TypeOK, CoolTypeOK, TaskTypeOK, streamVars, coolVars
<1> QED
  BY <1>1, <1>2, <1>3, <1>4, <1>5, <1>6, <1>7, <1>8, <1>9, <1>10, <1>11, <1>12, <1>13, <1>14, <1>15, <1>16, <1>17, <1>18, <1>19, <1>20, <1>21, <1>22, <1>23, <1>24, <1>25, <1>26, <1>27, <1>28, <1>29, <1>30, <1>31, <1>32
     DEF Next, StreamNext, WalkNext, StopNext, WorldNext

\* Every variable of the driver keeps to its type.
THEOREM TypeCorrect == Spec => []TypeOK
<1>1. TypeOK /\ [Next]_vars => TypeOK'
  BY TaskTypeStep, StreamTypeStep, CoolTypeStep DEF TypeOK
<1> QED
  BY <1>1, TypeInit, PTL DEF Spec

-----------------------------------------------------------------------------
(***************************************************************************)
(* The cooldown.  What makes CooldownKept inductive: the walk's moment is  *)
(* not ahead of the clock, and while the row that precedes a fire is being *)
(* written the trigger is still out of its cooldown.                       *)
(***************************************************************************)
CoolInv ==
    /\ TypeOK
    /\ seen <= clock
    /\ at = "flush" => ~IsInCooldown(i)

\* A moment of the walk judges a trigger as the abstract cooldown does.
LEMMA SameVerdict ==
    ASSUME NEW k \in Idxs PROVE CD(k)!InCooldown <=> IsInCooldown(k)
  BY DEF CD!InCooldown, CD!Never, IsInCooldown, Never

\* The steps that move neither the walk's moment nor any cooldown.
Elsewhere == UNCHANGED <<seen, last, hits>>

\* Every step either begins a walk, fires, suppresses or leaves the cooldowns alone.
LEMMA CooldownSteps ==
    ASSUME [Next]_vars
    PROVE  \/ seen' = clock /\ clock' = clock /\ at' = "match" /\ UNCHANGED <<last, hits>>
           \/ Suppress
           \/ Fire
           \/ FlushWritten
           \/ Elsewhere /\ clock' \in {clock, clock + 1}
              /\ (at' = "flush" => \/ FlushFirst
                                   \/ at = "flush" /\ i' = i)
<1>1. CASE Start
  BY <1>1 DEF Start, Elsewhere, coolVars, streamVars
<1>2. CASE StartFails
  BY <1>2 DEF StartFails, Elsewhere, coolVars, streamVars
<1>3. CASE ConnectSucceeds
  BY <1>3 DEF ConnectSucceeds, Elsewhere, coolVars, streamVars
<1>4. CASE ConnectFails
  BY <1>4 DEF ConnectFails, Elsewhere, coolVars, streamVars
<1>5. CASE BackoffOver
  BY <1>5 DEF BackoffOver, Elsewhere, coolVars, streamVars
<1>6. CASE Receive
  BY <1>6 DEF Receive, BeginWalk, Elsewhere, coolVars, streamVars
<1>7. CASE ReceiveFirst
  BY <1>7 DEF ReceiveFirst, Elsewhere, coolVars, streamVars
<1>8. CASE AnnounceWritten
  BY <1>8 DEF AnnounceWritten, BeginWalk, Elsewhere, coolVars, streamVars
<1>9. CASE AnnounceFails
  BY <1>9 DEF AnnounceFails, EndWalk, Elsewhere, coolVars, streamVars
<1>10. CASE StreamEnds
  BY <1>10 DEF StreamEnds, Elsewhere, coolVars, streamVars
<1>11. CASE Skip
  BY <1>11 DEF Skip, Walking, Elsewhere, coolVars, streamVars
<1>12. CASE FlushFirst
  BY <1>12 DEF FlushFirst, Elsewhere, coolVars, streamVars
<1>13. CASE FlushFails
  BY <1>13 DEF FlushFails, Elsewhere, coolVars, streamVars
<1>14. CASE FireReturns
  BY <1>14 DEF FireReturns, Elsewhere, coolVars, streamVars
<1>15. CASE FireRaises
  BY <1>15 DEF FireRaises, Elsewhere, coolVars, streamVars
<1>16. CASE WalkDone
  BY <1>16 DEF WalkDone, Elsewhere, coolVars, streamVars
<1>17. CASE ReportWritten
  BY <1>17 DEF ReportWritten, Elsewhere, coolVars, streamVars
<1>18. CASE ReportFails
  BY <1>18 DEF ReportFails, Elsewhere, coolVars, streamVars
<1>19. CASE Stop
  BY <1>19 DEF Stop, Cancel, Elsewhere, coolVars, streamVars
<1>20. CASE StopAfterFlushWrite
  BY <1>20 DEF StopAfterFlushWrite, Cancel, Elsewhere, coolVars, streamVars
<1>21. CASE RecordClosed
  BY <1>21 DEF RecordClosed, Elsewhere, coolVars, streamVars
<1>22. CASE RecordClosedFails
  BY <1>22 DEF RecordClosedFails, Elsewhere, coolVars, streamVars
<1>23. CASE Stopped
  BY <1>23 DEF Stopped, Elsewhere, coolVars, streamVars
<1>24. CASE Tick
  BY <1>24 DEF Tick, Elsewhere, coolVars, streamVars
<1>25. CASE LinkBreaks
  BY <1>25 DEF LinkBreaks, Elsewhere, coolVars, streamVars
<1>26. CASE \E k \in Idxs : FlushPending(k)
  BY <1>26 DEF FlushPending, Elsewhere, coolVars, streamVars
<1>27. CASE \E k \in Idxs : FlushPendingFails(k)
  BY <1>27 DEF FlushPendingFails, Elsewhere, coolVars, streamVars
<1>28. CASE \E e \in Events : Publish(e)
  BY <1>28 DEF Publish, Elsewhere, coolVars, streamVars
<1>29. CASE UNCHANGED vars
  BY <1>29 DEF vars, Elsewhere, coolVars
<1> QED
  BY <1>1, <1>2, <1>3, <1>4, <1>5, <1>6, <1>7, <1>8, <1>9, <1>10, <1>11, <1>12, <1>13, <1>14, <1>15, <1>16, <1>17, <1>18, <1>19, <1>20, <1>21, <1>22, <1>23, <1>24, <1>25, <1>26, <1>27, <1>28, <1>29
     DEF Next, StreamNext, WalkNext, StopNext, WorldNext

\* The strengthened invariant holds initially.
LEMMA CoolInit == Init => CoolInv
  BY TypeInit DEF Init, CoolInv

\* The strengthened invariant is inductive.
LEMMA CoolStep == CoolInv /\ [Next]_vars => CoolInv'
<1> SUFFICES ASSUME CoolInv, [Next]_vars PROVE CoolInv'
  OBVIOUS
<1>1. TypeOK /\ TypeOK' /\ clock \in Nat /\ seen \in Nat
  BY TaskTypeStep, StreamTypeStep, CoolTypeStep, Sizes DEF CoolInv, TypeOK, TaskTypeOK, Moments
<1>2. CASE seen' = clock /\ clock' = clock /\ at' = "match"
  BY <1>1, <1>2 DEF CoolInv
<1>3. CASE Suppress
  BY <1>1, <1>3 DEF Suppress, Matched, Walking, CoolInv
<1>4. CASE Fire \/ FlushWritten
  BY <1>1, <1>4 DEF Fire, FlushWritten, MarkFired, CoolInv
<1>5. CASE /\ Elsewhere /\ clock' \in {clock, clock + 1}
           /\ (at' = "flush" => \/ FlushFirst
                                \/ at = "flush" /\ i' = i)
  <2>1. seen' <= clock'
    BY <1>1, <1>5 DEF Elsewhere, CoolInv
  <2>2. at' = "flush" => i' = i /\ ~IsInCooldown(i)
    BY <1>5 DEF FlushFirst, CoolInv
  <2>3. at' = "flush" => ~IsInCooldown(i)'
    BY <1>5, <2>2 DEF Elsewhere, IsInCooldown
  <2> QED
    BY <1>1, <2>1, <2>3 DEF CoolInv
<1> QED
  BY <1>2, <1>3, <1>4, <1>5, CooldownSteps

\* Every trigger starts as the abstract cooldown does.
LEMMA CooldownInit ==
    ASSUME Init, NEW k \in Idxs PROVE CD(k)!Init
  BY DEF Init, CD!Init, CD!Never, Never

\* Every step is, for every trigger, a step of the abstract cooldown or none at all.
LEMMA CooldownRefined ==
    ASSUME CoolInv, [Next]_vars, NEW k \in Idxs
    PROVE  [CD(k)!Next]_(CD(k)!cooldownVars)
<1>1. /\ seen \in Nat /\ clock \in Nat /\ seen <= clock
      /\ last \in [Idxs -> Moments \cup {Never}] /\ hits \in [Idxs -> Nat]
  BY Sizes DEF CoolInv, TypeOK, TaskTypeOK, CoolTypeOK, Moments
<1>2. CASE seen' = clock /\ UNCHANGED <<last, hits>>
  BY <1>1, <1>2 DEF CD!Next, CD!Pass
<1>3. CASE Suppress
  <2>1. IsInCooldown(i) /\ last' = last /\ seen' = seen /\ hits' = [hits EXCEPT ![i] = @ + 1]
    BY <1>3 DEF Suppress
  <2>2. CASE k = i
    <3>1. CD(k)!InCooldown
      BY <2>1, <2>2, SameVerdict
    <3>2. CD(k)!Refuse
      BY <1>1, <2>1, <2>2, <3>1 DEF CD!Refuse
    <3> QED
      BY <3>2 DEF CD!Next
  <2>3. CASE k # i
    BY <1>1, <2>1, <2>3 DEF CD!cooldownVars
  <2> QED
    BY <2>2, <2>3
<1>4. CASE Fire \/ FlushWritten
  <2>1. ~IsInCooldown(i) /\ last' = [last EXCEPT ![i] = seen] /\ seen' = seen /\ hits' = hits
    BY <1>4 DEF Fire, FlushWritten, MarkFired, CoolInv
  <2>2. CASE k = i
    <3>1. ~CD(k)!InCooldown
      BY <2>1, <2>2, SameVerdict
    <3>2. CD(k)!Allow
      BY <1>1, <2>1, <2>2, <3>1 DEF CD!Allow
    <3> QED
      BY <3>2 DEF CD!Next
  <2>3. CASE k # i
    BY <1>1, <2>1, <2>3 DEF CD!cooldownVars
  <2> QED
    BY <2>2, <2>3
<1>5. CASE Elsewhere
  BY <1>5 DEF Elsewhere, CD!cooldownVars
<1> QED
  BY <1>2, <1>3, <1>4, <1>5, CooldownSteps

\* Each trigger of the driver implements the abstract cooldown: after a fire, its
\* matches are suppressed for cooldown_seconds, and only then.
THEOREM CooldownImplemented == Spec => CooldownKept
<1>1. Init => \A k \in Idxs : CD(k)!Init
  BY CooldownInit
<1>2. CoolInv /\ [Next]_vars => \A k \in Idxs : [CD(k)!Next]_(CD(k)!cooldownVars)
  BY CooldownRefined
<1> QED
  BY <1>1, <1>2, CoolInit, CoolStep, PTL DEF Spec, CooldownKept

-----------------------------------------------------------------------------
(***************************************************************************)
(* Time windows.                                                           *)
(***************************************************************************)
\* Minutes of the day are taken modulo its length.
LEMMA Modulo ==
    ASSUME NEW x \in Int
    PROVE  /\ x % Day \in 0 .. Day - 1
           /\ 0 <= x /\ x < Day => x % Day = x
           /\ x < 0 /\ 0 <= x + Day => x % Day = x + Day
           /\ Day <= x /\ x < Day + Day => x % Day = x - Day
<1>1. x % Day \in 0 .. Day - 1
  BY Sizes
<1>2. 0 <= x /\ x < Day => x % Day = x
  BY Sizes
<1>3. x < 0 /\ 0 <= x + Day => x % Day = x + Day
  BY Sizes
<1>4. Day <= x /\ x < Day + Day => x % Day = x - Day
  BY Sizes
<1> QED
  BY <1>1, <1>2, <1>3, <1>4

\* What _is_in_window accepts is the arc from the start forward to the end.
LEMMA WindowIsArc ==
    ASSUME NEW a \in 0 .. Day - 1, NEW b \in 0 .. Day - 1, NEW minute \in 0 .. Day - 1,
           InWindow(<<a, b>>, minute)
    PROVE  minute \in Arc(<<a, b>>)
<1>1. Day \in Nat /\ a \in Int /\ b \in Int /\ minute \in Int /\ Day > 0
  BY Sizes
<1>2. CASE a <= minute
  <2>1. (a + (minute - a)) % Day = minute
    BY <1>1, Modulo
  <2>2. minute - a \in 0 .. ((b - a) % Day) - 1
    <3>1. CASE a <= b
      BY <1>1, <1>2, <3>1, Modulo DEF InWindow
    <3>2. CASE b < a
      <4>1. (b - a) % Day = b - a + Day
        BY <1>1, <3>2, Modulo
      <4> QED
        BY <1>1, <1>2, <4>1
    <3> QED
      BY <1>1, <3>1, <3>2
  <2> QED
    BY <2>1, <2>2 DEF Arc
<1>3. CASE minute < a
  <2>1. b < a /\ minute < b
    BY <1>1, <1>3 DEF InWindow
  <2>2. (b - a) % Day = b - a + Day
    BY <1>1, <2>1, Modulo
  <2>3. (a + (minute - a + Day)) % Day = minute
    BY <1>1, Modulo
  <2>4. minute - a + Day \in 0 .. ((b - a) % Day) - 1
    BY <1>1, <2>1, <2>2
  <2> QED
    BY <2>3, <2>4 DEF Arc
<1> QED
  BY <1>1, <1>2, <1>3

\* The moment of a match lies on the arc of its trigger's window.
LEMMA MatchOnArc ==
    ASSUME NEW k \in Idxs, NEW moment \in Nat, NEW e, Matches(k, e, moment),
           Triggers[k].window # Any
    PROVE  MinuteOf(k, moment) \in Arc(Triggers[k].window)
<1>1. Triggers[k].window \in (0 .. Day - 1) \X (0 .. Day - 1) /\ Triggers[k].zone \in Nat
  <2>1. Triggers[k] \in Trigger
    BY TriggersAssumption, ElementOfSeq DEF Idxs
  <2> QED
    BY <2>1 DEF Trigger
<1>2. PICK a \in 0 .. Day - 1, b \in 0 .. Day - 1 : Triggers[k].window = <<a, b>>
  BY <1>1
<1>3. MinuteOf(k, moment) \in 0 .. Day - 1
  BY <1>1, Modulo DEF MinuteOf
<1>4. InWindow(<<a, b>>, MinuteOf(k, moment))
  BY <1>2 DEF Matches
<1> QED
  BY <1>2, <1>3, <1>4, WindowIsArc

\* A row is written before a fire, so the match is remembered across that write.
OnArc(k) == Triggers[k].window # Any => MinuteOf(k, seen) \in Arc(Triggers[k].window)

WindowInv ==
    /\ TypeOK
    /\ FiresInTheWindow
    /\ at = "flush" => OnArc(i)

\* Only a fire adds to the moments a trigger fired at.
LEMMA FiresChange ==
    ASSUME [Next]_vars
    PROVE  Fire \/ FlushWritten \/ fires' = fires
<1>1. CASE Start
  BY <1>1 DEF Start, coolVars
<1>2. CASE StartFails
  BY <1>2 DEF StartFails, coolVars
<1>3. CASE ConnectSucceeds
  BY <1>3 DEF ConnectSucceeds, coolVars
<1>4. CASE ConnectFails
  BY <1>4 DEF ConnectFails, coolVars
<1>5. CASE BackoffOver
  BY <1>5 DEF BackoffOver, coolVars
<1>6. CASE Receive
  BY <1>6 DEF Receive, coolVars
<1>7. CASE ReceiveFirst
  BY <1>7 DEF ReceiveFirst, coolVars
<1>8. CASE AnnounceWritten
  BY <1>8 DEF AnnounceWritten, coolVars
<1>9. CASE AnnounceFails
  BY <1>9 DEF AnnounceFails, coolVars
<1>10. CASE StreamEnds
  BY <1>10 DEF StreamEnds, coolVars
<1>11. CASE Skip
  BY <1>11 DEF Skip, coolVars
<1>12. CASE Suppress
  BY <1>12 DEF Suppress, coolVars
<1>13. CASE FlushFirst
  BY <1>13 DEF FlushFirst, coolVars
<1>14. CASE FlushFails
  BY <1>14 DEF FlushFails, coolVars
<1>15. CASE FireReturns
  BY <1>15 DEF FireReturns, coolVars
<1>16. CASE FireRaises
  BY <1>16 DEF FireRaises, coolVars
<1>17. CASE WalkDone
  BY <1>17 DEF WalkDone, coolVars
<1>18. CASE ReportWritten
  BY <1>18 DEF ReportWritten, coolVars
<1>19. CASE ReportFails
  BY <1>19 DEF ReportFails, coolVars
<1>20. CASE Stop
  BY <1>20 DEF Stop, Cancel, coolVars
<1>21. CASE StopAfterFlushWrite
  BY <1>21 DEF StopAfterFlushWrite, Cancel, coolVars
<1>22. CASE RecordClosed
  BY <1>22 DEF RecordClosed, coolVars
<1>23. CASE RecordClosedFails
  BY <1>23 DEF RecordClosedFails, coolVars
<1>24. CASE Stopped
  BY <1>24 DEF Stopped, coolVars
<1>25. CASE Tick
  BY <1>25 DEF Tick, coolVars
<1>26. CASE LinkBreaks
  BY <1>26 DEF LinkBreaks, coolVars
<1>27. CASE \E k \in Idxs : FlushPending(k)
  BY <1>27 DEF FlushPending, coolVars
<1>28. CASE \E k \in Idxs : FlushPendingFails(k)
  BY <1>28 DEF FlushPendingFails, coolVars
<1>29. CASE \E e \in Events : Publish(e)
  BY <1>29 DEF Publish, coolVars
<1>30. CASE UNCHANGED vars
  BY <1>30 DEF vars, coolVars
<1> QED
  BY <1>1, <1>2, <1>3, <1>4, <1>5, <1>6, <1>7, <1>8, <1>9, <1>10, <1>11, <1>12, <1>13, <1>14, <1>15, <1>16, <1>17, <1>18, <1>19, <1>20, <1>21, <1>22, <1>23, <1>24, <1>25, <1>26, <1>27, <1>28, <1>29, <1>30
     DEF Next, StreamNext, WalkNext, StopNext, WorldNext

\* The invariant of the time windows holds initially.
LEMMA WindowInit == Init => WindowInv
  BY TypeInit DEF Init, WindowInv, FiresInTheWindow

\* The invariant of the time windows is inductive.
LEMMA WindowStep == WindowInv /\ [Next]_vars => WindowInv'
<1> SUFFICES ASSUME WindowInv, [Next]_vars PROVE WindowInv'
  OBVIOUS
<1>1. TypeOK /\ TypeOK' /\ seen \in Nat /\ fires \in [Idxs -> SUBSET Moments]
  <2>1. TypeOK /\ TypeOK'
    BY TaskTypeStep, StreamTypeStep, CoolTypeStep DEF WindowInv, TypeOK
  <2> QED
    BY <2>1, Sizes DEF TypeOK, TaskTypeOK, CoolTypeOK, Moments
<1>2. ASSUME Matched PROVE i \in Idxs /\ OnArc(i)
  <2>1. i \in Idxs
    BY <1>1, <1>2, Sizes DEF Matched, Walking, TypeOK, TaskTypeOK, Idxs
  <2> QED
    BY <1>1, <1>2, <2>1, MatchOnArc DEF Matched, OnArc
<1>3. FiresInTheWindow'
  <2>1. CASE Fire \/ FlushWritten
    <3>1. i \in Idxs /\ OnArc(i) /\ fires' = [fires EXCEPT ![i] = @ \cup {seen}]
      BY <1>1, <1>2, <2>1 DEF Fire, FlushWritten, MarkFired, WindowInv, TypeOK, TaskTypeOK
    <3> QED
      BY <1>1, <3>1 DEF FiresInTheWindow, WindowInv, OnArc
  <2>2. CASE fires' = fires
    BY <2>2 DEF FiresInTheWindow, WindowInv
  <2> QED
    BY <2>1, <2>2, FiresChange
<1>4. at' = "flush" => OnArc(i)'
  <2>1. CASE at' = "flush"
    <3>1. seen' = seen /\ i' = i /\ OnArc(i)
      <4>1. CASE FlushFirst
        BY <1>2, <4>1 DEF FlushFirst
      <4>2. CASE Elsewhere /\ at = "flush" /\ i' = i
        BY <4>2 DEF Elsewhere, WindowInv
      <4>3. CASE Suppress \/ Fire \/ FlushWritten
        BY <2>1, <4>3 DEF Suppress, Fire, FlushWritten, MarkFired, Matched, Walking
      <4>4. FlushFirst => seen' = seen /\ i' = i
        BY DEF FlushFirst
      <4> QED
        BY <2>1, <4>1, <4>2, <4>3, <4>4, CooldownSteps
    <3> QED
      BY <3>1 DEF OnArc
  <2> QED
    BY <2>1
<1> QED
  BY <1>1, <1>3, <1>4 DEF WindowInv

\* A trigger with a time window never fires outside it, for any day and any zone,
\* midnight included.
THEOREM WindowsKept == Spec => []FiresInTheWindow
<1>1. WindowInv => FiresInTheWindow
  BY DEF WindowInv
<1> QED
  BY <1>1, WindowInit, WindowStep, PTL DEF Spec
-----------------------------------------------------------------------------
(***************************************************************************)
(* The stream's rows.  They carry the connection they were written on; a   *)
(* connection is counted before its first row and its first row is written *)
(* before any other, so a lifecycle row has a number of its own; and the   *)
(* closed row comes when the task that writes the others is gone.          *)
(***************************************************************************)
Placed ==
    /\ phase = "running" <=> at \notin {"off", "ended"}
    /\ at \in {"announce", "match", "flush", "fire", "report"} \/ announced => connects >= 1

RowsNumbered ==
    \A n \in DOMAIN streamRows :
        /\ streamRows[n][2] <= connects
        /\ at = "announce" => streamRows[n][2] < connects
        /\ streamRows[n][1] # "closed" => streamRows[n][2] >= 1
        /\ streamRows[n][1] = "closed" => phase \in {"flushing", "stopped", "failed"}

StreamInv == TypeOK /\ Placed /\ RowsNumbered /\ StreamRowsInOrder

LEMMA StreamInit == Init => StreamInv
<1> SUFFICES ASSUME Init
             PROVE  StreamInv
  OBVIOUS
<1>1. DOMAIN streamRows = {}
  BY DEF Init
<1> QED
  BY <1>1, TypeInit DEF Init, StreamInv, Placed, RowsNumbered, StreamRowsInOrder

\* Where the task is and where the driver is in its life go together.
LEMMA PlacedStep == TypeOK /\ Placed /\ [Next]_vars => Placed'
<1> SUFFICES ASSUME TypeOK, Placed, [Next]_vars
             PROVE  Placed'
  OBVIOUS
<1> USE DEF Placed, TypeOK, StreamTypeOK, TaskTypeOK, streamVars, coolVars, BeginWalk, EndWalk,
            Disconnect, Cancel, MarkFired
<1>1. CASE Start \/ StartFails
  BY <1>1 DEF Start, StartFails
<1>2. CASE ConnectSucceeds \/ ConnectFails \/ BackoffOver
  BY <1>2 DEF ConnectSucceeds, ConnectFails, BackoffOver
<1>3. CASE Receive \/ ReceiveFirst
  BY <1>3 DEF Receive, ReceiveFirst
<1>4. CASE AnnounceWritten \/ AnnounceFails \/ StreamEnds
  BY <1>4 DEF AnnounceWritten, AnnounceFails, StreamEnds
<1>5. CASE Skip \/ Suppress \/ Fire \/ FlushFirst
  BY <1>5 DEF Skip, Suppress, Fire, FlushFirst, Matched, Walking
<1>6. CASE FlushWritten \/ FlushFails \/ FireReturns \/ FireRaises
  BY <1>6 DEF FlushWritten, FlushFails, FireReturns, FireRaises
<1>7. CASE WalkDone \/ ReportWritten \/ ReportFails
  BY <1>7 DEF WalkDone, ReportWritten, ReportFails
<1>8. CASE Stop \/ StopAfterFlushWrite
  BY <1>8 DEF Stop, StopAfterFlushWrite
<1>9. CASE RecordClosed \/ RecordClosedFails \/ Stopped
  BY <1>9 DEF RecordClosed, RecordClosedFails, Stopped
<1>10. ASSUME NEW k \in Idxs, FlushPending(k) \/ FlushPendingFails(k)
       PROVE  Placed'
  BY <1>10 DEF FlushPending, FlushPendingFails
<1>11. CASE Tick \/ LinkBreaks \/ UNCHANGED vars
  BY <1>11 DEF Tick, LinkBreaks, vars
<1>12. ASSUME NEW e \in Events, Publish(e)
       PROVE  Placed'
  BY <1>12 DEF Publish
<1> QED
  BY <1>1, <1>2, <1>3, <1>4, <1>5, <1>6, <1>7, <1>8, <1>9, <1>10, <1>11, <1>12
     DEF Next, StreamNext, WalkNext, StopNext, WorldNext

\* What a step does to the rows.
LEMMA RowMoves ==
    ASSUME TypeOK, Placed, [Next]_vars
    PROVE  \/ /\ UNCHANGED <<streamRows, connects>>
              /\ at' = "announce" => at = "announce"
              /\ phase \in {"flushing", "stopped", "failed"} =>
                    phase' \in {"flushing", "stopped", "failed"}
           \/ ReceiveFirst
           \/ /\ streamRows' = Append(streamRows, LifecycleRow) /\ connects' = connects
              /\ at = "announce" /\ at' # "announce"
           \/ /\ streamRows' = Append(streamRows, <<"callback_error", connects>>)
              /\ connects' = connects /\ at = "report" /\ at' # "announce"
           \/ RecordClosed
<1> USE DEF Placed, streamVars, coolVars, BeginWalk, EndWalk, Disconnect, Cancel, MarkFired
<1>1. CASE Start \/ StartFails
  BY <1>1 DEF Start, StartFails
<1>2. CASE ConnectSucceeds \/ ConnectFails \/ BackoffOver
  BY <1>2 DEF ConnectSucceeds, ConnectFails, BackoffOver
<1>3. CASE Receive
  BY <1>3 DEF Receive
<1>4. CASE AnnounceWritten \/ AnnounceFails \/ StreamEnds
  BY <1>4 DEF AnnounceWritten, AnnounceFails, StreamEnds
<1>5. CASE Skip \/ Suppress \/ Fire \/ FlushFirst
  BY <1>5 DEF Skip, Suppress, Fire, FlushFirst, Matched, Walking
<1>6. CASE FlushWritten \/ FlushFails \/ FireReturns \/ FireRaises
  BY <1>6 DEF FlushWritten, FlushFails, FireReturns, FireRaises
<1>7. CASE WalkDone \/ ReportWritten \/ ReportFails
  BY <1>7 DEF WalkDone, ReportWritten, ReportFails
<1>8. CASE Stop \/ StopAfterFlushWrite
  BY <1>8 DEF Stop, StopAfterFlushWrite
<1>9. CASE RecordClosedFails \/ Stopped
  BY <1>9 DEF RecordClosedFails, Stopped
<1>10. ASSUME NEW k \in Idxs, FlushPending(k) \/ FlushPendingFails(k)
       PROVE  UNCHANGED <<streamRows, connects, at>>
              /\ phase' \in {"flushing", "stopped", "failed"}
  BY <1>10 DEF FlushPending, FlushPendingFails
<1>11. CASE Tick \/ LinkBreaks \/ UNCHANGED vars
  BY <1>11 DEF Tick, LinkBreaks, vars
<1>12. ASSUME NEW e \in Events, Publish(e)
       PROVE  UNCHANGED <<streamRows, connects, at, phase>>
  BY <1>12 DEF Publish
<1> QED
  BY <1>1, <1>2, <1>3, <1>4, <1>5, <1>6, <1>7, <1>8, <1>9, <1>10, <1>11, <1>12
     DEF Next, StreamNext, WalkNext, StopNext, WorldNext

\* One more row, numbered by the connection at hand.
LEMMA RowAppended ==
    ASSUME StreamInv, NEW r \in StreamRow, streamRows' = Append(streamRows, r),
           connects' = connects, r[2] = connects, at' # "announce",
           phase \notin {"flushing", "stopped", "failed"},
           r[1] \in {"opened", "reconnected"} =>
              \A n \in DOMAIN streamRows : streamRows[n][2] < connects,
           r[1] = "opened" => connects = 1,
           r[1] # "closed" => connects >= 1,
           r[1] = "closed" => phase' = "flushing"
    PROVE  RowsNumbered' /\ StreamRowsInOrder'
<1>0. streamRows \in Seq(StreamRow) /\ connects \in Nat
  BY DEF StreamInv, TypeOK, StreamTypeOK
<1> DEFINE L == Len(streamRows)
<1>1. /\ L \in Nat /\ DOMAIN streamRows = 1 .. L /\ DOMAIN streamRows' = 1 .. L + 1
      /\ streamRows'[L + 1] = r
      /\ \A n \in 1 .. L : streamRows'[n] = streamRows[n]
  BY <1>0
<1>2. \A n \in 1 .. L : streamRows[n][2] \in Nat /\ streamRows[n] \in StreamRow
  BY <1>0, <1>1 DEF StreamRow
<1> HIDE DEF L
<1>3. \A n \in 1 .. L : /\ streamRows[n][2] <= connects /\ streamRows[n][1] # "closed"
                        /\ streamRows[n][2] >= 1
  BY <1>1 DEF StreamInv, RowsNumbered
<1>4. r[1] = "opened" => L = 0
  BY <1>0, <1>1, <1>2, <1>3
<1>5. ASSUME NEW n \in DOMAIN streamRows'
      PROVE  /\ streamRows'[n][2] <= connects'
             /\ streamRows'[n][1] # "closed" => streamRows'[n][2] >= 1
             /\ streamRows'[n][1] = "closed" => phase' \in {"flushing", "stopped", "failed"}
  <2>1. CASE n = L + 1
    BY <1>0, <1>1, <2>1
  <2>2. CASE n # L + 1
    <3>1. n \in 1 .. L
      BY <1>1, <2>2
    <3> QED
      BY <1>1, <1>3, <3>1
  <2> QED
    BY <2>1, <2>2
<1>6. RowsNumbered'
  BY <1>5 DEF RowsNumbered
<1>7. ASSUME NEW m \in DOMAIN streamRows', NEW n \in DOMAIN streamRows', m < n
      PROVE  /\ streamRows'[m][2] <= streamRows'[n][2]
             /\ streamRows'[m][1] # "closed"
             /\ streamRows'[n][1] # "opened"
             /\ streamRows'[n][1] = "reconnected" => streamRows'[m][2] < streamRows'[n][2]
  <2>1. m \in 1 .. L
    BY <1>1, <1>7
  <2>2. CASE n = L + 1
    BY <1>1, <1>3, <1>4, <2>1, <2>2
  <2>3. CASE n # L + 1
    <3>1. n \in 1 .. L
      BY <1>1, <2>3
    <3> QED
      BY <1>1, <1>7, <2>1, <3>1 DEF StreamInv, StreamRowsInOrder
  <2> QED
    BY <2>2, <2>3
<1>8. StreamRowsInOrder'
  BY <1>7 DEF StreamRowsInOrder
<1> QED
  BY <1>6, <1>8

LEMMA StreamStep == StreamInv /\ [Next]_vars => StreamInv'
<1> SUFFICES ASSUME StreamInv, [Next]_vars
             PROVE  StreamInv'
  OBVIOUS
<1>0. TypeOK /\ TypeOK' /\ Placed /\ Placed'
  BY PlacedStep, TaskTypeStep, StreamTypeStep, CoolTypeStep DEF StreamInv, TypeOK
<1> SUFFICES RowsNumbered' /\ StreamRowsInOrder'
  BY <1>0 DEF StreamInv
<1>1. ASSUME UNCHANGED <<streamRows, connects>>, at' = "announce" => at = "announce",
             phase \in {"flushing", "stopped", "failed"} =>
                phase' \in {"flushing", "stopped", "failed"}
      PROVE  RowsNumbered' /\ StreamRowsInOrder'
  BY <1>1 DEF StreamInv, RowsNumbered, StreamRowsInOrder
<1>2. CASE ReceiveFirst
  <2>1. /\ streamRows' = streamRows /\ connects' = connects + 1 /\ phase' = phase
        /\ connects \in Nat
    BY <1>0, <1>2 DEF ReceiveFirst, TypeOK, StreamTypeOK
  <2>2. \A n \in DOMAIN streamRows : streamRows[n][2] \in Nat
    BY <1>0 DEF TypeOK, StreamTypeOK, StreamRow
  <2>3. ASSUME NEW n \in DOMAIN streamRows
        PROVE  streamRows[n][2] < connects + 1
    BY <2>1, <2>2 DEF StreamInv, RowsNumbered
  <2>4. RowsNumbered'
    BY <2>1, <2>2, <2>3 DEF StreamInv, RowsNumbered
  <2>5. StreamRowsInOrder'
    BY <2>1 DEF StreamInv, StreamRowsInOrder
  <2> QED
    BY <2>4, <2>5
<1>3. CASE /\ streamRows' = Append(streamRows, LifecycleRow) /\ connects' = connects
           /\ at = "announce" /\ at' # "announce"
  <2>1. phase = "running" /\ connects >= 1
    BY <1>0, <1>3 DEF Placed
  <2>2. LifecycleRow \in StreamRow
    BY <1>0, RowsTyped
  <2>3. \A n \in DOMAIN streamRows : streamRows[n][2] < connects
    BY <1>3 DEF StreamInv, RowsNumbered
  <2>4. /\ LifecycleRow[1] \in {"opened", "reconnected"} /\ LifecycleRow[2] = connects
        /\ LifecycleRow[1] = "opened" => connects = 1
    BY DEF LifecycleRow
  <2>5. PICK r \in StreamRow : r = LifecycleRow
    BY <2>2
  <2> QED
    BY <1>3, <2>1, <2>3, <2>4, <2>5, RowAppended
<1>4. CASE /\ streamRows' = Append(streamRows, <<"callback_error", connects>>)
           /\ connects' = connects /\ at = "report" /\ at' # "announce"
  <2>1. phase = "running" /\ connects >= 1
    BY <1>0, <1>4 DEF Placed
  <2>2. <<"callback_error", connects>> \in StreamRow
    BY <1>0, RowsTyped
  <2>3. PICK r \in StreamRow : r = <<"callback_error", connects>>
    BY <2>2
  <2>4. r[1] = "callback_error" /\ r[2] = connects
    BY <2>3
  <2> QED
    BY <1>4, <2>1, <2>3, <2>4, RowAppended
<1>5. CASE RecordClosed
  <2>1. /\ streamRows' = Append(streamRows, <<"closed", connects>>) /\ connects' = connects
        /\ phase = "closing" /\ phase' = "flushing" /\ at' = at
    BY <1>5 DEF RecordClosed
  <2>2. <<"closed", connects>> \in StreamRow
    BY <1>0, RowsTyped
  <2>3. at' # "announce"
    BY <1>0, <2>1 DEF Placed
  <2>4. PICK r \in StreamRow : r = <<"closed", connects>>
    BY <2>2
  <2>5. r[1] = "closed" /\ r[2] = connects
    BY <2>4
  <2> QED
    BY <2>1, <2>3, <2>4, <2>5, RowAppended
<1> QED
  BY <1>0, <1>1, <1>2, <1>3, <1>4, <1>5, RowMoves

\* The stream's rows tell the connections in order (subscription.py:15-17).
THEOREM StreamRowsTellInOrder == Spec => []StreamRowsInOrder
<1>1. StreamInv => StreamRowsInOrder
  BY DEF StreamInv
<1> QED
  BY <1>1, StreamInit, StreamStep, PTL DEF Spec

-----------------------------------------------------------------------------
(***************************************************************************)
(* Suppressed matches.  A trigger's windows do not overlap.  What is       *)
(* pending or in flight lies in the window of the last fire, and while the *)
(* task runs no row written before does; so the row gets a window of its   *)
(* own.                                                                    *)
(***************************************************************************)
Spaced(k, F) == \A f, g \in F : f < g => f + Triggers[k].cooldown <= g

Apart(k, F, rows) ==
    /\ \A n \in DOMAIN rows : \E f \in F : InWindowOf(f, k, rows[n])
    /\ \A f \in F : \A m, n \in DOMAIN rows :
          InWindowOf(f, k, rows[m]) /\ InWindowOf(f, k, rows[n]) => m = n

LastIsAFire(k) ==
    /\ last[k] = Never => fires[k] = {}
    /\ last[k] # Never => last[k] \in fires[k] /\ last[k] <= seen
    /\ \A f \in fires[k] : f <= last[k]

InLast(k, sup) == last[k] # Never /\ InWindowOf(last[k], k, sup)

LastUntold(k) == \A n \in DOMAIN told[k] : ~InLast(k, told[k][n])

PendingInLast(k) ==
    /\ phase \in {"new", "running"} => LastUntold(k)
    /\ pending[k] # NoRow => /\ InLast(k, pending[k]) /\ LastUntold(k)
                             /\ pending[k].last <= seen
    /\ at = "flush" /\ i = k => pending[k] = NoRow /\ InLast(k, inflight)

Counts(k) ==
    /\ Reported(k) <= hits[k]
    /\ k \notin cut => Reported(k) = hits[k]

WindowsOf(k) == LastIsAFire(k) /\ Spaced(k, fires[k]) /\ Apart(k, fires[k], told[k])
                    /\ PendingInLast(k)

SuppressInv ==
    /\ CoolInv /\ Placed
    /\ at # "flush" => inflight = NoRow
    /\ phase = "stopped" => \A k \in Idxs : pending[k] = NoRow
    /\ \A k \in Idxs : WindowsOf(k) /\ Counts(k)

(***************************************************************************)
(* What written rows count.  A recursive function on the positions of a    *)
(* sequence is reasoned about by the least position where a claim fails.   *)
(***************************************************************************)
LEMMA LeastNumber ==
    ASSUME NEW T \in SUBSET Nat, T # {}
    PROVE  \E x \in T : \A y \in T : x <= y
<1>1. PICK x \in T : \A y \in T : ~ (<<y, x>> \in OpToRel(<, Nat))
  BY WFMin, NatLessThanWellFounded, Zenon
<1>2. \A y \in T : ~ (y < x)
  BY <1>1 DEF OpToRel
<1> QED
  BY <1>2

\* The running totals of the first m rows.
Totals(rows, m) == {g \in [0 .. m -> Nat] :
    g[0] = 0 /\ \A n \in 1 .. m : g[n] = g[n - 1] + rows[n].count}

LEMMA TotalsExist ==
    ASSUME NEW rows \in Seq(SupRow)
    PROVE  Totals(rows, Len(rows)) # {}
<1> DEFINE L == Len(rows)
           T == {m \in 0 .. L : Totals(rows, m) = {}}
<1>0. L \in Nat /\ \A n \in 1 .. L : rows[n].count \in Nat
  <2>1. \A n \in 1 .. L : rows[n] \in SupRow
    OBVIOUS
  <2> QED
    BY <2>1 DEF SupRow
<1> HIDE DEF L
<1>1. Totals(rows, 0) # {}
  <2>1. [n \in 0 .. 0 |-> 0] \in Totals(rows, 0)
    BY DEF Totals
  <2> QED
    BY <2>1
<1>2. ASSUME NEW m \in 0 .. L, m < L, Totals(rows, m) # {}
      PROVE  Totals(rows, m + 1) # {}
  <2>1. PICK g \in Totals(rows, m) : TRUE
    BY <1>2
  <2> DEFINE h == [n \in 0 .. m + 1 |-> IF n <= m THEN g[n] ELSE g[m] + rows[m + 1].count]
  <2>2. m \in Nat /\ m + 1 \in 1 .. L /\ rows[m + 1].count \in Nat
    BY <1>0, <1>2
  <2>3. g \in [0 .. m -> Nat] /\ g[0] = 0 /\ \A n \in 1 .. m : g[n] = g[n - 1] + rows[n].count
    BY <2>1 DEF Totals
  <2>4. h \in [0 .. m + 1 -> Nat]
    BY <2>2, <2>3
  <2>5. h[0] = 0
    BY <2>2, <2>3
  <2>6. ASSUME NEW n \in 1 .. m + 1
        PROVE  h[n] = h[n - 1] + rows[n].count
    <3>1. CASE n <= m
      <4>1. n \in 1 .. m /\ n \in 0 .. m + 1 /\ n - 1 \in 0 .. m + 1 /\ n - 1 <= m
        BY <2>2, <3>1
      <4> QED
        BY <2>3, <3>1, <4>1
    <3>2. CASE n = m + 1
      <4>1. n \in 0 .. m + 1 /\ n - 1 \in 0 .. m + 1 /\ ~(n <= m) /\ n - 1 = m /\ m <= m
        BY <2>2, <3>2
      <4> QED
        BY <3>2, <4>1
    <3> QED
      BY <2>2, <3>1, <3>2
  <2>7. h \in Totals(rows, m + 1)
    BY <2>4, <2>5, <2>6 DEF Totals
  <2> QED
    BY <2>7
<1>3. ASSUME T # {}
      PROVE  FALSE
  <2>1. T \in SUBSET Nat
    BY <1>0
  <2>2. PICK x \in T : \A y \in T : x <= y
    BY <1>3, <2>1, LeastNumber
  <2>3. x \in 0 .. L /\ x # 0 /\ Totals(rows, x) = {}
    BY <1>1, <2>2
  <2>4. x - 1 \in 0 .. L /\ x - 1 < L /\ x - 1 \notin T /\ (x - 1) + 1 = x
    BY <1>0, <2>2, <2>3
  <2>5. Totals(rows, x - 1) # {}
    BY <2>4
  <2> QED
    BY <1>2, <2>3, <2>4, <2>5
<1> QED
  BY <1>0, <1>3 DEF L

LEMMA CountsAreTotals ==
    ASSUME NEW rows \in Seq(SupRow), NEW g \in Totals(rows, Len(rows))
    PROVE  CountsOf(rows) = g[Len(rows)]
<1> DEFINE L == Len(rows)
           Unfolds(h) == h = [n \in 0 .. L |-> IF n = 0 THEN 0 ELSE h[n - 1] + rows[n].count]
<1>0. L \in Nat
  OBVIOUS
<1>1. g \in [0 .. L -> Nat] /\ g[0] = 0 /\ \A n \in 1 .. L : g[n] = g[n - 1] + rows[n].count
  BY DEF Totals
<1>2. Unfolds(g)
  <2>1. \A n \in 0 .. L : g[n] = IF n = 0 THEN 0 ELSE g[n - 1] + rows[n].count
    BY <1>0, <1>1
  <2> QED
    BY <1>1, <2>1
<1>3. PICK h : Unfolds(h) /\ CountsOf(rows) = h[L]
  BY <1>2 DEF CountsOf
<1> DEFINE T == {n \in 0 .. L : h[n] # g[n]}
<1> HIDE DEF L
<1>4. \A n \in 0 .. L : h[n] = IF n = 0 THEN 0 ELSE h[n - 1] + rows[n].count
  BY <1>3
<1>5. ASSUME T # {}
      PROVE  FALSE
  <2>1. T \in SUBSET Nat
    BY <1>0
  <2>2. PICK x \in T : \A y \in T : x <= y
    BY <1>5, <2>1, LeastNumber
  <2>3. x # 0
    BY <1>0, <1>1, <1>4, <2>2
  <2>4. x \in 1 .. L /\ x - 1 \in 0 .. L /\ x - 1 \notin T
    BY <1>0, <2>2, <2>3
  <2> QED
    BY <1>1, <1>4, <2>2, <2>3, <2>4
<1>6. L \in 0 .. L
  BY <1>0
<1> QED
  BY <1>3, <1>5, <1>6 DEF L

LEMMA CountsAreNumbers ==
    ASSUME NEW rows \in Seq(SupRow)
    PROVE  CountsOf(rows) \in Nat
<1>1. PICK g \in Totals(rows, Len(rows)) : TRUE
  BY TotalsExist
<1>2. g \in [0 .. Len(rows) -> Nat] /\ Len(rows) \in 0 .. Len(rows)
  BY DEF Totals
<1> QED
  BY <1>2, CountsAreTotals

LEMMA CountsOfNone == CountsOf(<<>>) = 0
<1>1. <<>> \in Seq(SupRow) /\ Len(<<>>) = 0
  OBVIOUS
<1>2. PICK g \in Totals(<<>>, Len(<<>>)) : TRUE
  BY <1>1, TotalsExist
<1>3. CountsOf(<<>>) = g[Len(<<>>)]
  BY <1>1, <1>2, CountsAreTotals
<1> QED
  BY <1>1, <1>2, <1>3 DEF Totals

\* One more row adds what it counts.
LEMMA CountsOfMore ==
    ASSUME NEW rows \in Seq(SupRow), NEW r \in SupRow
    PROVE  CountsOf(Append(rows, r)) = CountsOf(rows) + r.count
<1> DEFINE L == Len(rows)
           more == Append(rows, r)
<1>1. /\ L \in Nat /\ more \in Seq(SupRow) /\ Len(more) = L + 1 /\ more[L + 1] = r
      /\ \A n \in 1 .. L : more[n] = rows[n]
  OBVIOUS
<1>2. PICK g \in Totals(rows, L) : TRUE
  BY TotalsExist
<1>3. PICK h \in Totals(more, L + 1) : TRUE
  BY <1>1, TotalsExist
<1> DEFINE short == [n \in 0 .. L |-> h[n]]
<1>4. /\ h \in [0 .. L + 1 -> Nat] /\ h[0] = 0
      /\ \A n \in 1 .. L + 1 : h[n] = h[n - 1] + more[n].count
  BY <1>3 DEF Totals
<1>5. short \in Totals(rows, L)
  <2> HIDE DEF L, more
  <2>1. short \in [0 .. L -> Nat] /\ short[0] = 0
    BY <1>1, <1>4
  <2>2. ASSUME NEW n \in 1 .. L
        PROVE  short[n] = short[n - 1] + rows[n].count
    <3>1. n \in 0 .. L /\ n - 1 \in 0 .. L /\ n \in 1 .. L + 1
      BY <1>1
    <3> QED
      BY <1>1, <1>4, <3>1
  <2> QED
    BY <2>1, <2>2 DEF Totals
<1>6. CountsOf(rows) = short[L]
  BY <1>5, CountsAreTotals
<1>7. CountsOf(more) = h[L + 1]
  BY <1>1, <1>3, CountsAreTotals
<1> HIDE DEF L, more
<1>8. L \in 0 .. L /\ short[L] = h[L] /\ h[L + 1] = h[L] + r.count
  BY <1>1, <1>4
<1> QED
  BY <1>6, <1>7, <1>8 DEF more

(***************************************************************************)
(* Windows, of one trigger and a set of fires.                             *)
(***************************************************************************)
LEMMA CooldownIsNat ==
    ASSUME NEW k \in Idxs
    PROVE  Triggers[k].cooldown \in Nat
<1>1. Triggers[k] \in Trigger
  BY TriggersAssumption DEF Idxs
<1> QED
  BY <1>1 DEF Trigger

LEMMA WindowsDisjoint ==
    ASSUME NEW k \in Idxs, NEW F \in SUBSET Moments, Spaced(k, F), NEW r \in SupRow,
           NEW f \in F, NEW g \in F, InWindowOf(f, k, r), InWindowOf(g, k, r)
    PROVE  f = g
<1>1. f \in Int /\ g \in Int /\ r.first \in Int /\ r.last \in Int
  BY Sizes DEF Moments, SupRow
<1>2. Triggers[k].cooldown \in Nat
  BY CooldownIsNat
<1>3. f < g => f + Triggers[k].cooldown <= g
  BY DEF Spaced
<1>4. g < f => g + Triggers[k].cooldown <= f
  BY DEF Spaced
<1> QED
  BY <1>1, <1>2, <1>3, <1>4 DEF InWindowOf

\* A row in a window of its own keeps the rows apart.
LEMMA ApartMore ==
    ASSUME NEW k \in Idxs, NEW F \in SUBSET Moments, Spaced(k, F),
           NEW rows \in Seq(SupRow), Apart(k, F, rows), NEW r \in SupRow,
           NEW f \in F, InWindowOf(f, k, r),
           \A n \in DOMAIN rows : ~InWindowOf(f, k, rows[n])
    PROVE  Apart(k, F, Append(rows, r))
<1> DEFINE L == Len(rows)
           more == Append(rows, r)
<1>1. /\ L \in Nat /\ DOMAIN rows = 1 .. L /\ DOMAIN more = 1 .. L + 1 /\ more[L + 1] = r
      /\ \A n \in 1 .. L : more[n] = rows[n]
  OBVIOUS
<1> HIDE DEF L, more
<1>2. ASSUME NEW n \in 1 .. L + 1, n # L + 1
      PROVE  n \in DOMAIN rows /\ more[n] = rows[n]
  BY <1>1, <1>2
<1>3. ASSUME NEW n \in DOMAIN more
      PROVE  \E h \in F : InWindowOf(h, k, more[n])
  BY <1>1, <1>2 DEF Apart
<1>4. ASSUME NEW h \in F, InWindowOf(h, k, r)
      PROVE  h = f
  BY <1>4, WindowsDisjoint
<1>5. ASSUME NEW h \in F, NEW m \in DOMAIN more, NEW n \in DOMAIN more,
             InWindowOf(h, k, more[m]), InWindowOf(h, k, more[n])
      PROVE  m = n
  BY <1>1, <1>2, <1>4, <1>5 DEF Apart
<1> QED
  BY <1>3, <1>5 DEF Apart, more

\* A fire beyond the cooldown opens a window that no row is in.
LEMMA ApartFire ==
    ASSUME NEW k \in Idxs, NEW F \in SUBSET Moments, NEW s \in Moments,
           Spaced(k, F), \A f \in F : f + Triggers[k].cooldown <= s,
           NEW rows \in Seq(SupRow), Apart(k, F, rows)
    PROVE  /\ Spaced(k, F \cup {s}) /\ Apart(k, F \cup {s}, rows)
           /\ \A n \in DOMAIN rows : ~InWindowOf(s, k, rows[n])
<1>1. Triggers[k].cooldown \in Nat
  BY CooldownIsNat
<1>2. s \in Int /\ \A f \in F : f \in Int
  BY Sizes DEF Moments
<1>3. Spaced(k, F \cup {s})
  <2> SUFFICES ASSUME NEW f \in F \cup {s}, NEW g \in F \cup {s}, f < g
               PROVE  f + Triggers[k].cooldown <= g
    BY DEF Spaced
  <2>1. CASE f \in F /\ g \in F
    BY <2>1 DEF Spaced
  <2>2. CASE f = s
    <3>1. g \in F
      BY <1>2, <2>2
    <3>2. g + Triggers[k].cooldown <= s
      BY <3>1
    <3>3. g \in Int /\ s < g
      BY <1>2, <2>2, <3>1
    <3> QED
      BY <1>1, <1>2, <3>2, <3>3
  <2>3. CASE f \in F /\ g = s
    BY <2>3
  <2> QED
    BY <2>1, <2>2, <2>3
<1>4. ASSUME NEW n \in DOMAIN rows
      PROVE  ~InWindowOf(s, k, rows[n])
  <2>1. PICK f \in F : InWindowOf(f, k, rows[n])
    BY DEF Apart
  <2>2. rows[n] \in SupRow
    OBVIOUS
  <2>3. rows[n].first \in Int /\ rows[n].last \in Int
    BY <2>2, Sizes DEF SupRow, Moments
  <2>4. f + Triggers[k].cooldown <= s
    OBVIOUS
  <2> QED
    BY <1>1, <1>2, <2>1, <2>3, <2>4 DEF InWindowOf
<1>5. Apart(k, F \cup {s}, rows)
  BY <1>4 DEF Apart
<1> QED
  BY <1>3, <1>4, <1>5

-----------------------------------------------------------------------------
(***************************************************************************)
(* The steps.                                                              *)
(***************************************************************************)
LEMMA SuppressInit == Init => SuppressInv
<1> SUFFICES ASSUME Init
             PROVE  SuppressInv
  OBVIOUS
<1>1. CoolInv /\ Placed
  BY CoolInit DEF Init, Placed
<1>2. ASSUME NEW k \in Idxs
      PROVE  WindowsOf(k) /\ Counts(k)
  <2>1. /\ last[k] = Never /\ fires[k] = {} /\ told[k] = <<>> /\ pending[k] = NoRow
        /\ hits[k] = 0 /\ inflight = NoRow /\ at = "off"
    BY DEF Init
  <2>2. DOMAIN told[k] = {}
    BY <2>1
  <2>3. WindowsOf(k)
    BY <2>1, <2>2 DEF WindowsOf, LastIsAFire, Spaced, Apart, PendingInLast, LastUntold
  <2>4. Reported(k) = 0
    BY <2>1, CountsOfNone DEF Reported, ToldCount, CountOf
  <2> QED
    BY <2>1, <2>3, <2>4 DEF Counts
<1>3. inflight = NoRow /\ phase = "new"
  BY DEF Init
<1> QED
  BY <1>1, <1>2, <1>3 DEF SuppressInv

\* Steps that leave the cooldowns alone: at most the moment of the walk moves on.
Aside ==
    /\ UNCHANGED coolVars /\ seen' >= seen
    /\ at = "flush" <=> at' = "flush"
    /\ at = "flush" => i' = i
    /\ phase' \in {"new", "running"} => phase \in {"new", "running"}
    /\ phase' = "stopped" => phase = "stopped" \/ \A k \in Idxs : pending[k] = NoRow

LEMMA SuppressMoves ==
    ASSUME SuppressInv, [Next]_vars
    PROVE  \/ Aside
           \/ Suppress \/ Fire \/ FlushFirst \/ FlushWritten \/ FlushFails
           \/ Stop \/ StopAfterFlushWrite
           \/ \E k \in Idxs : FlushPending(k) \/ FlushPendingFails(k)
<1>0. seen \in Nat /\ clock \in Nat /\ seen <= clock
  BY Sizes DEF SuppressInv, CoolInv, TypeOK, TaskTypeOK, Moments
<1>1. /\ phase = "running" <=> at \notin {"off", "ended"}
  BY DEF SuppressInv, Placed
<1> USE <1>0, <1>1 DEF Aside, streamVars, BeginWalk, EndWalk, Disconnect
<1>2. CASE Start \/ StartFails
  BY <1>2 DEF Start, StartFails
<1>3. CASE ConnectSucceeds \/ ConnectFails \/ BackoffOver
  BY <1>3 DEF ConnectSucceeds, ConnectFails, BackoffOver
<1>4. CASE Receive \/ ReceiveFirst
  BY <1>4 DEF Receive, ReceiveFirst
<1>5. CASE AnnounceWritten \/ AnnounceFails \/ StreamEnds
  BY <1>5 DEF AnnounceWritten, AnnounceFails, StreamEnds
<1>6. CASE Skip \/ FireReturns \/ FireRaises
  BY <1>6 DEF Skip, Walking, FireReturns, FireRaises
<1>7. CASE WalkDone \/ ReportWritten \/ ReportFails
  BY <1>7 DEF WalkDone, ReportWritten, ReportFails
<1>8. CASE RecordClosed \/ RecordClosedFails \/ Stopped
  BY <1>8 DEF RecordClosed, RecordClosedFails, Stopped
<1>9. CASE Tick \/ LinkBreaks \/ UNCHANGED vars
  BY <1>9 DEF Tick, LinkBreaks, vars
<1>10. ASSUME NEW e \in Events, Publish(e)
       PROVE  Aside
  BY <1>10 DEF Publish
<1> QED
  BY <1>2, <1>3, <1>4, <1>5, <1>6, <1>7, <1>8, <1>9, <1>10
     DEF Next, StreamNext, WalkNext, StopNext, WorldNext

\* The cooldown's variables of one trigger.
LEMMA CoolTypes ==
    ASSUME SuppressInv, NEW k \in Idxs
    PROVE  /\ last[k] \in Moments \cup {Never} /\ pending[k] \in SupRow \cup {NoRow}
           /\ told[k] \in Seq(SupRow) /\ hits[k] \in Nat /\ fires[k] \in SUBSET Moments
           /\ inflight \in SupRow \cup {NoRow} /\ (at = "flush" => inflight # NoRow)
           /\ seen \in Moments /\ CountsOf(told[k]) \in Nat
           /\ WindowsOf(k) /\ Counts(k)
<1>1. told[k] \in Seq(SupRow)
  BY DEF SuppressInv, CoolInv, TypeOK, CoolTypeOK
<1> QED
  BY <1>1, CountsAreNumbers DEF SuppressInv, CoolInv, TypeOK, CoolTypeOK, TaskTypeOK

\* A trigger the step is not about.
Untouched(k) ==
    /\ last'[k] = last[k] /\ pending'[k] = pending[k] /\ told'[k] = told[k]
    /\ hits'[k] = hits[k] /\ fires'[k] = fires[k] /\ (k \in cut' <=> k \in cut)
    /\ seen' >= seen
    /\ phase' \in {"new", "running"} => phase \in {"new", "running"}
    /\ at = "flush" /\ i = k <=> at' = "flush" /\ i' = k
    /\ at' = "flush" /\ i' = k => inflight' = inflight

LEMMA UntouchedWindows ==
    ASSUME SuppressInv, NEW k \in Idxs, Untouched(k), seen' \in Moments
    PROVE  WindowsOf(k)'
<1>0. /\ last[k] \in Int /\ seen \in Int /\ seen' \in Int /\ WindowsOf(k)
      /\ pending[k] # NoRow => pending[k].last \in Int
  BY CoolTypes, Sizes DEF Moments, Never, SupRow
<1>1. LastIsAFire(k)'
  BY <1>0 DEF WindowsOf, LastIsAFire, Untouched
<1>2. Spaced(k, fires[k])' /\ Apart(k, fires[k], told[k])'
  BY <1>0 DEF WindowsOf, Spaced, Apart, Untouched
<1>3. PendingInLast(k)'
  BY <1>0 DEF WindowsOf, PendingInLast, LastUntold, InLast, Untouched
<1> QED
  BY <1>1, <1>2, <1>3 DEF WindowsOf

LEMMA UntouchedCounts ==
    ASSUME SuppressInv, NEW k \in Idxs, Untouched(k),
           at' # "flush" => inflight' = NoRow
    PROVE  Counts(k)'
<1>1. Counts(k) /\ (at # "flush" => inflight = NoRow)
  BY DEF SuppressInv
<1>2. (IF i' = k THEN CountOf(inflight') ELSE 0) = (IF i = k THEN CountOf(inflight) ELSE 0)
  BY <1>1 DEF Untouched, CountOf
<1>3. Reported(k)' = Reported(k)
  BY <1>2 DEF Reported, ToldCount, CountOf, Untouched
<1> QED
  BY <1>1, <1>3 DEF Counts, Untouched

LEMMA RowIsARow ==
    ASSUME NEW r \in SupRow
    PROVE  r # NoRow /\ r.count \in Nat
<1>1. r \in [count : Nat, first : Nat, last : Nat]
  BY Sizes DEF SupRow, Moments
<1> QED
  BY <1>1, NoRowAssumption

LEMMA SuppressKeeps ==
    ASSUME SuppressInv, TypeOK', NEW k \in Idxs, k = i, Suppress
    PROVE  WindowsOf(k)' /\ Counts(k)'
<1> DEFINE cd == Triggers[k].cooldown
<1>1. /\ at = "match" /\ phase = "running" /\ inflight = NoRow
      /\ last[k] # Never /\ seen - last[k] < cd
  BY DEF Suppress, Matched, Walking, IsInCooldown, SuppressInv, Placed
<1>2. /\ pending'[k] = Counted(k) /\ hits'[k] = hits[k] + 1
      /\ UNCHANGED <<last, inflight, told, fires, cut, at, seen, phase>>
  BY DEF Suppress, SuppressInv, CoolInv, TypeOK, CoolTypeOK
<1>3. /\ last[k] \in Int /\ seen \in Int /\ cd \in Nat /\ hits[k] \in Nat
      /\ pending[k] \in SupRow \cup {NoRow} /\ CountsOf(told[k]) \in Nat
      /\ WindowsOf(k) /\ Counts(k)
  BY <1>1, CoolTypes, CooldownIsNat, Sizes DEF Moments
<1>4. pending[k] # NoRow => /\ pending[k].count \in Nat /\ pending[k].first \in Int
                            /\ pending[k].last \in Int
  BY <1>3, Sizes DEF SupRow, Moments
<1>5. seen \in Moments /\ pending'[k] \in SupRow \cup {NoRow} /\ Counted(k) \in SupRow
  <2>1. seen \in Moments /\ pending'[k] \in SupRow \cup {NoRow}
    BY DEF SuppressInv, CoolInv, TypeOK, TaskTypeOK, CoolTypeOK
  <2> QED
    BY <1>3, <2>1 DEF Counted, SupRow
<1> HIDE DEF cd
<1>6. InLast(k, Counted(k)) /\ Counted(k).last <= seen
  <2>1. LastIsAFire(k) /\ PendingInLast(k)
    BY <1>3 DEF WindowsOf
  <2>2. last[k] <= seen
    BY <1>1, <2>1 DEF LastIsAFire
  <2>3. CASE pending[k] = NoRow
    BY <1>1, <1>3, <2>2, <2>3 DEF InLast, InWindowOf, Counted, cd
  <2>4. CASE pending[k] # NoRow
    BY <1>1, <1>3, <1>4, <2>1, <2>2, <2>4 DEF PendingInLast, InLast, InWindowOf, Counted, cd
  <2> QED
    BY <2>3, <2>4
<1>7. WindowsOf(k)'
  <2>1. LastIsAFire(k)' /\ Spaced(k, fires[k])' /\ Apart(k, fires[k], told[k])'
    BY <1>2, <1>3 DEF WindowsOf, LastIsAFire, Spaced, Apart
  <2>2. LastUntold(k)
    BY <1>1, <1>3 DEF WindowsOf, PendingInLast
  <2>3. PendingInLast(k)'
    BY <1>1, <1>2, <1>6, <2>2 DEF PendingInLast, LastUntold, InLast
  <2> QED
    BY <2>1, <2>3 DEF WindowsOf
<1>8. Counts(k)'
  <2>1. CountOf(pending[k]) \in Nat /\ CountOf(Counted(k)) = CountOf(pending[k]) + 1
    BY <1>3, <1>4, <1>5, RowIsARow DEF CountOf, Counted
  <2>2. CountOf(inflight) = 0
    BY <1>1 DEF CountOf
  <2>3. Reported(k)' = Reported(k) + 1 /\ Reported(k) \in Nat
    BY <1>2, <1>3, <2>1, <2>2 DEF Reported, ToldCount
  <2> QED
    BY <1>2, <1>3, <2>3 DEF Counts
<1> QED
  BY <1>7, <1>8

\* Every earlier fire is a cooldown ago.
LEMMA PastFires ==
    ASSUME SuppressInv, NEW k \in Idxs, ~IsInCooldown(k)
    PROVE  \A f \in fires[k] : f + Triggers[k].cooldown <= seen /\ f <= seen
<1> DEFINE cd == Triggers[k].cooldown
<1>1. /\ last[k] \in Int /\ seen \in Int /\ cd \in Nat
      /\ fires[k] \in SUBSET Moments /\ LastIsAFire(k)
  BY CoolTypes, CooldownIsNat, Sizes DEF Moments, Never, WindowsOf
<1>2. last[k] = Never \/ seen - last[k] >= cd
  <2> HIDE DEF cd
  <2>1. last[k] = Never \/ ~(seen - last[k] < cd)
    BY DEF IsInCooldown, cd
  <2> QED
    BY <1>1, <2>1
<1>3. \A f \in fires[k] : f \in Int /\ f <= last[k]
  BY <1>1, Sizes DEF LastIsAFire, Moments
<1>4. last[k] = Never => fires[k] = {}
  BY <1>1 DEF LastIsAFire
<1> HIDE DEF cd
<1> QED
  BY <1>1, <1>2, <1>3, <1>4 DEF cd

LEMMA FireKeeps ==
    ASSUME SuppressInv, TypeOK', NEW k \in Idxs, k = i, Fire
    PROVE  WindowsOf(k)' /\ Counts(k)'
<1>1. /\ at = "match" /\ phase = "running" /\ inflight = NoRow /\ pending[k] = NoRow
      /\ ~IsInCooldown(k)
  BY DEF Fire, Matched, Walking, SuppressInv, Placed
<1>2. /\ last'[k] = seen /\ fires'[k] = fires[k] \cup {seen} /\ at' = "fire"
      /\ UNCHANGED <<pending, inflight, told, hits, cut, seen, phase, i>>
  BY DEF Fire, MarkFired, SuppressInv, CoolInv, TypeOK, CoolTypeOK
<1>3. /\ seen \in Moments /\ seen \in Int /\ seen # Never
      /\ fires[k] \in SUBSET Moments /\ told[k] \in Seq(SupRow)
      /\ WindowsOf(k) /\ Counts(k)
  BY CoolTypes, Sizes DEF Moments, Never
<1>4. Spaced(k, fires[k]) /\ Apart(k, fires[k], told[k])
  BY <1>3 DEF WindowsOf
<1>5. \A f \in fires[k] : f + Triggers[k].cooldown <= seen /\ f <= seen
  BY <1>1, PastFires
<1>6. /\ Spaced(k, fires[k] \cup {seen}) /\ Apart(k, fires[k] \cup {seen}, told[k])
      /\ \A n \in DOMAIN told[k] : ~InWindowOf(seen, k, told[k][n])
  BY <1>3, <1>4, <1>5, ApartFire
<1>7. WindowsOf(k)'
  <2>1. LastIsAFire(k)'
    BY <1>2, <1>3, <1>5 DEF LastIsAFire
  <2>2. Spaced(k, fires[k])' /\ Apart(k, fires[k], told[k])'
    BY <1>2, <1>6 DEF Spaced, Apart
  <2>3. LastUntold(k)'
    BY <1>2, <1>6 DEF LastUntold, InLast
  <2>4. PendingInLast(k)'
    BY <1>1, <1>2, <2>3 DEF PendingInLast
  <2> QED
    BY <2>1, <2>2, <2>4 DEF WindowsOf
<1>8. Counts(k)'
  <2>1. Reported(k)' = Reported(k)
    BY <1>2 DEF Reported, ToldCount
  <2> QED
    BY <1>2, <1>3, <2>1 DEF Counts
<1> QED
  BY <1>7, <1>8

LEMMA FlushFirstKeeps ==
    ASSUME SuppressInv, TypeOK', NEW k \in Idxs, k = i, FlushFirst
    PROVE  WindowsOf(k)' /\ Counts(k)'
<1>1. /\ at = "match" /\ phase = "running" /\ inflight = NoRow /\ pending[k] # NoRow
  BY DEF FlushFirst, Matched, Walking, SuppressInv, Placed
<1>2. /\ inflight' = pending[k] /\ pending'[k] = NoRow /\ at' = "flush"
      /\ UNCHANGED <<last, told, hits, fires, cut, seen, phase, i>>
  BY DEF FlushFirst, Popped, SuppressInv, CoolInv, TypeOK, CoolTypeOK
<1>3. WindowsOf(k) /\ Counts(k) /\ CountsOf(told[k]) \in Nat /\ pending[k] \in SupRow
  BY <1>1, CoolTypes
<1>4. WindowsOf(k)'
  <2>1. LastIsAFire(k)' /\ Spaced(k, fires[k])' /\ Apart(k, fires[k], told[k])'
    BY <1>2, <1>3 DEF WindowsOf, LastIsAFire, Spaced, Apart
  <2>2. LastUntold(k) /\ InLast(k, pending[k])
    BY <1>1, <1>3 DEF WindowsOf, PendingInLast
  <2>3. PendingInLast(k)'
    BY <1>1, <1>2, <2>2 DEF PendingInLast, LastUntold, InLast
  <2> QED
    BY <2>1, <2>3 DEF WindowsOf
<1>5. Counts(k)'
  <2>1. CountOf(pending[k]) \in Nat
    BY <1>3 DEF CountOf, SupRow
  <2>2. Reported(k)' = Reported(k)
    <3>1. Reported(k) = CountsOf(told[k]) + CountOf(pending[k]) + 0
      BY <1>1 DEF Reported, ToldCount, CountOf
    <3>2. Reported(k)' = CountsOf(told[k]) + 0 + CountOf(pending[k])
      BY <1>2 DEF Reported, ToldCount, CountOf
    <3> QED
      BY <1>3, <2>1, <3>1, <3>2
  <2> QED
    BY <1>2, <1>3, <2>2 DEF Counts
<1> QED
  BY <1>4, <1>5

\* A row out of the last window is written: told has one more, and nothing else is in it.
LEMMA RowWritten ==
    ASSUME SuppressInv, NEW k \in Idxs, NEW r \in SupRow,
           InLast(k, r), LastUntold(k)
    PROVE  /\ Apart(k, fires[k], Append(told[k], r))
           /\ CountsOf(Append(told[k], r)) = CountsOf(told[k]) + r.count
<1>1. /\ told[k] \in Seq(SupRow) /\ fires[k] \in SUBSET Moments /\ WindowsOf(k)
  BY CoolTypes
<1>2. /\ last[k] \in fires[k] /\ Spaced(k, fires[k]) /\ Apart(k, fires[k], told[k])
      /\ InWindowOf(last[k], k, r)
  BY <1>1 DEF WindowsOf, LastIsAFire, InLast
<1>3. \A n \in DOMAIN told[k] : ~InWindowOf(last[k], k, told[k][n])
  BY DEF LastUntold, InLast
<1> QED
  BY <1>1, <1>2, <1>3, ApartMore, CountsOfMore

\* What is in flight, while it is.
LEMMA InFlight ==
    ASSUME SuppressInv, NEW k \in Idxs, k = i, at = "flush"
    PROVE  /\ phase = "running" /\ pending[k] = NoRow
           /\ inflight \in SupRow /\ InLast(k, inflight) /\ LastUntold(k)
           /\ CountOf(inflight) = inflight.count /\ inflight.count \in Nat
           /\ Reported(k) = CountsOf(told[k]) + inflight.count
<1>1. /\ phase = "running" /\ inflight \in SupRow /\ CountsOf(told[k]) \in Nat /\ WindowsOf(k)
  <2>1. phase = "running"
    BY DEF SuppressInv, Placed
  <2> QED
    BY <2>1, CoolTypes
<1>2. pending[k] = NoRow /\ InLast(k, inflight) /\ LastUntold(k)
  BY <1>1 DEF WindowsOf, PendingInLast
<1>3. inflight # NoRow /\ inflight.count \in Nat
  BY <1>1, RowIsARow
<1>4. Reported(k) = CountsOf(told[k]) + inflight.count
  BY <1>1, <1>2, <1>3 DEF Reported, ToldCount, CountOf
<1> QED
  BY <1>1, <1>2, <1>3, <1>4 DEF CountOf

LEMMA FlushWrittenKeeps ==
    ASSUME SuppressInv, TypeOK', NEW k \in Idxs, k = i, FlushWritten
    PROVE  WindowsOf(k)' /\ Counts(k)'
<1> DEFINE rows == Append(told[k], inflight)
<1>1. at = "flush" /\ ~IsInCooldown(k)
  BY DEF FlushWritten, SuppressInv, CoolInv
<1>2. /\ last'[k] = seen /\ fires'[k] = fires[k] \cup {seen} /\ at' = "fire"
      /\ told'[k] = rows /\ inflight' = NoRow
      /\ UNCHANGED <<pending, hits, cut, seen, phase, i>>
  BY DEF FlushWritten, MarkFired, SuppressInv, CoolInv, TypeOK, CoolTypeOK
<1>3. /\ seen \in Moments /\ seen \in Int /\ seen # Never
      /\ fires[k] \in SUBSET Moments /\ told[k] \in Seq(SupRow) /\ CountsOf(told[k]) \in Nat
      /\ WindowsOf(k) /\ Counts(k)
  BY CoolTypes, Sizes DEF Moments, Never
<1>4. /\ inflight \in SupRow /\ InLast(k, inflight) /\ LastUntold(k) /\ pending[k] = NoRow
      /\ inflight.count \in Nat /\ Reported(k) = CountsOf(told[k]) + inflight.count
  BY <1>1, InFlight
<1>5. Apart(k, fires[k], rows) /\ CountsOf(rows) = CountsOf(told[k]) + inflight.count
  BY <1>4, RowWritten
<1>6. \A f \in fires[k] : f + Triggers[k].cooldown <= seen /\ f <= seen
  BY <1>1, PastFires
<1>7. rows \in Seq(SupRow) /\ Spaced(k, fires[k])
  BY <1>3, <1>4 DEF WindowsOf
<1> HIDE DEF rows
<1>8. /\ Spaced(k, fires[k] \cup {seen}) /\ Apart(k, fires[k] \cup {seen}, rows)
      /\ \A n \in DOMAIN rows : ~InWindowOf(seen, k, rows[n])
  BY <1>3, <1>5, <1>6, <1>7, ApartFire
<1>9. WindowsOf(k)'
  <2>1. LastIsAFire(k)'
    BY <1>2, <1>3, <1>6 DEF LastIsAFire
  <2>2. Spaced(k, fires[k])' /\ Apart(k, fires[k], told[k])'
    BY <1>2, <1>8 DEF Spaced, Apart
  <2>3. LastUntold(k)'
    BY <1>2, <1>8 DEF LastUntold, InLast
  <2>4. PendingInLast(k)'
    BY <1>2, <1>4, <2>3 DEF PendingInLast
  <2> QED
    BY <2>1, <2>2, <2>4 DEF WindowsOf
<1>10. Counts(k)'
  <2>1. Reported(k)' = CountsOf(rows) + 0 + 0
    BY <1>2, <1>4 DEF Reported, ToldCount, CountOf
  <2> QED
    BY <1>2, <1>3, <1>4, <1>5, <2>1 DEF Counts
<1> QED
  BY <1>9, <1>10

\* Steps after which the row in flight is lost, and the trigger is known to have lost it.
LEMMA RowLost ==
    ASSUME SuppressInv, NEW k \in Idxs, k = i, at = "flush",
           at' # "flush", inflight' = NoRow, cut' = cut \cup {k},
           UNCHANGED <<last, pending, told, hits, fires, seen>>,
           phase' \in {"new", "running"} => phase \in {"new", "running"}
    PROVE  WindowsOf(k)' /\ Counts(k)'
<1>1. /\ WindowsOf(k) /\ Counts(k) /\ CountsOf(told[k]) \in Nat /\ hits[k] \in Nat
  BY CoolTypes
<1>2. /\ pending[k] = NoRow /\ inflight.count \in Nat
      /\ Reported(k) = CountsOf(told[k]) + inflight.count /\ LastUntold(k)
  BY InFlight
<1>3. WindowsOf(k)'
  <2>1. LastIsAFire(k)' /\ Spaced(k, fires[k])' /\ Apart(k, fires[k], told[k])'
    BY <1>1 DEF WindowsOf, LastIsAFire, Spaced, Apart
  <2>2. PendingInLast(k)'
    BY <1>2 DEF PendingInLast, LastUntold, InLast
  <2> QED
    BY <2>1, <2>2 DEF WindowsOf
<1>4. Counts(k)'
  <2>1. Reported(k)' = CountsOf(told[k]) + 0 + 0
    BY <1>2 DEF Reported, ToldCount, CountOf
  <2> QED
    BY <1>1, <1>2, <2>1 DEF Counts
<1> QED
  BY <1>3, <1>4

LEMMA StopAfterFlushKeeps ==
    ASSUME SuppressInv, TypeOK', NEW k \in Idxs, k = i, StopAfterFlushWrite
    PROVE  WindowsOf(k)' /\ Counts(k)'
<1> DEFINE rows == Append(told[k], inflight)
<1>1. at = "flush" /\ phase' = "closing" /\ at' = "ended"
  BY DEF StopAfterFlushWrite, Cancel
<1>2. /\ told'[k] = rows /\ inflight' = NoRow
      /\ UNCHANGED <<last, fires, pending, hits, cut, seen>>
  BY DEF StopAfterFlushWrite, Cancel, SuppressInv, CoolInv, TypeOK, CoolTypeOK
<1>3. /\ WindowsOf(k) /\ Counts(k) /\ CountsOf(told[k]) \in Nat
  BY CoolTypes
<1>4. /\ inflight \in SupRow /\ InLast(k, inflight) /\ LastUntold(k) /\ pending[k] = NoRow
      /\ inflight.count \in Nat /\ Reported(k) = CountsOf(told[k]) + inflight.count
  BY <1>1, InFlight
<1>5. Apart(k, fires[k], rows) /\ CountsOf(rows) = CountsOf(told[k]) + inflight.count
  BY <1>4, RowWritten
<1> HIDE DEF rows
<1>6. WindowsOf(k)'
  <2>1. LastIsAFire(k)' /\ Spaced(k, fires[k])' /\ Apart(k, fires[k], told[k])'
    BY <1>2, <1>3, <1>5 DEF WindowsOf, LastIsAFire, Spaced, Apart
  <2>2. PendingInLast(k)'
    BY <1>1, <1>2, <1>4 DEF PendingInLast
  <2> QED
    BY <2>1, <2>2 DEF WindowsOf
<1>7. Counts(k)'
  <2>1. Reported(k)' = CountsOf(rows) + 0 + 0
    BY <1>2, <1>4 DEF Reported, ToldCount, CountOf
  <2> QED
    BY <1>2, <1>3, <1>4, <1>5, <2>1 DEF Counts
<1> QED
  BY <1>6, <1>7

LEMMA FlushPendingKeeps ==
    ASSUME SuppressInv, TypeOK', NEW k \in Idxs, FlushPending(k)
    PROVE  WindowsOf(k)' /\ Counts(k)'
<1> DEFINE rows == Append(told[k], pending[k])
<1>1. phase = "flushing" /\ pending[k] # NoRow /\ at # "flush" /\ inflight = NoRow
  BY DEF FlushPending, SuppressInv, Placed
<1>2. /\ told'[k] = rows /\ pending'[k] = NoRow
      /\ UNCHANGED <<phase, at, i, inflight, last, fires, hits, cut, seen>>
  BY DEF FlushPending, Popped, SuppressInv, CoolInv, TypeOK, CoolTypeOK
<1>3. /\ WindowsOf(k) /\ Counts(k) /\ CountsOf(told[k]) \in Nat /\ pending[k] \in SupRow
  BY <1>1, CoolTypes
<1>4. InLast(k, pending[k]) /\ LastUntold(k)
  BY <1>1, <1>3 DEF WindowsOf, PendingInLast
<1>5. Apart(k, fires[k], rows) /\ CountsOf(rows) = CountsOf(told[k]) + pending[k].count
  BY <1>3, <1>4, RowWritten
<1>6. pending[k].count \in Nat
  BY <1>3, RowIsARow
<1> HIDE DEF rows
<1>7. WindowsOf(k)'
  <2>1. LastIsAFire(k)' /\ Spaced(k, fires[k])' /\ Apart(k, fires[k], told[k])'
    BY <1>2, <1>3, <1>5 DEF WindowsOf, LastIsAFire, Spaced, Apart
  <2>2. PendingInLast(k)'
    BY <1>1, <1>2, <1>4 DEF PendingInLast
  <2> QED
    BY <2>1, <2>2 DEF WindowsOf
<1>8. Counts(k)'
  <2>1. Reported(k) = CountsOf(told[k]) + pending[k].count + 0
    BY <1>1 DEF Reported, ToldCount, CountOf
  <2>2. Reported(k)' = CountsOf(rows) + 0 + 0
    BY <1>1, <1>2 DEF Reported, ToldCount, CountOf
  <2> QED
    BY <1>2, <1>3, <1>5, <1>6, <2>1, <2>2 DEF Counts
<1> QED
  BY <1>7, <1>8

LEMMA FlushPendingFailsKeeps ==
    ASSUME SuppressInv, TypeOK', NEW k \in Idxs, FlushPendingFails(k)
    PROVE  WindowsOf(k)' /\ Counts(k)'
<1>1. /\ phase = "flushing" /\ pending[k] # NoRow /\ at # "flush" /\ inflight = NoRow
      /\ phase' = "failed"
  BY DEF FlushPendingFails, SuppressInv, Placed
<1>2. /\ pending'[k] = NoRow /\ cut' = cut \cup {k}
      /\ UNCHANGED <<at, i, inflight, last, told, fires, hits, seen>>
  BY DEF FlushPendingFails, Popped, SuppressInv, CoolInv, TypeOK, CoolTypeOK
<1>3. /\ WindowsOf(k) /\ Counts(k) /\ CountsOf(told[k]) \in Nat /\ pending[k] \in SupRow
      /\ hits[k] \in Nat
  BY <1>1, CoolTypes
<1>4. pending[k].count \in Nat
  BY <1>3, RowIsARow
<1>5. WindowsOf(k)'
  <2>1. LastIsAFire(k)' /\ Spaced(k, fires[k])' /\ Apart(k, fires[k], told[k])'
    BY <1>2, <1>3 DEF WindowsOf, LastIsAFire, Spaced, Apart
  <2>2. PendingInLast(k)'
    BY <1>1, <1>2 DEF PendingInLast
  <2> QED
    BY <2>1, <2>2 DEF WindowsOf
<1>6. Counts(k)'
  <2>1. Reported(k) = CountsOf(told[k]) + pending[k].count + 0
    BY <1>1 DEF Reported, ToldCount, CountOf
  <2>2. Reported(k)' = CountsOf(told[k]) + 0 + 0
    BY <1>1, <1>2 DEF Reported, ToldCount, CountOf
  <2> QED
    BY <1>2, <1>3, <1>4, <2>1, <2>2 DEF Counts
<1> QED
  BY <1>5, <1>6

LEMMA UntouchedKeeps ==
    ASSUME SuppressInv, TypeOK', at' # "flush" => inflight' = NoRow,
           NEW k \in Idxs, Untouched(k)
    PROVE  WindowsOf(k)' /\ Counts(k)'
<1>1. seen' \in Moments
  BY DEF TypeOK, TaskTypeOK
<1> QED
  BY <1>1, UntouchedWindows, UntouchedCounts

\* Every step keeps the windows and the counts of every trigger.
LEMMA SuppressStep == SuppressInv /\ [Next]_vars => SuppressInv'
<1> SUFFICES ASSUME SuppressInv, [Next]_vars
             PROVE  SuppressInv'
  OBVIOUS
<1>0. CoolInv' /\ Placed' /\ TypeOK' /\ TypeOK
  BY CoolStep, PlacedStep DEF SuppressInv, CoolInv
<1>1. seen \in Int /\ i \in Nat
  BY <1>0, Sizes DEF TypeOK, TaskTypeOK, Moments, Idxs
<1> DEFINE Kept(k) == WindowsOf(k)' /\ Counts(k)'
           Still == phase' = "stopped" => \A k \in Idxs : pending'[k] = NoRow
           Landed == at' # "flush" => inflight' = NoRow
           Goal == Landed /\ Still /\ \A k \in Idxs : Kept(k)
<1> SUFFICES Goal
  BY <1>0 DEF SuppressInv
<1>2. CASE Aside
  <2>1. Landed /\ Still
    BY <1>2 DEF Aside, coolVars, SuppressInv
  <2>2. ASSUME NEW k \in Idxs
        PROVE  Kept(k)
    <3>1. Untouched(k)
      BY <1>2 DEF Aside, coolVars, Untouched
    <3> QED
      BY <1>0, <2>1, <3>1, UntouchedKeeps
  <2> QED
    BY <2>1, <2>2
<1>3. CASE Suppress
  <2>1. /\ i \in Idxs /\ at = "match" /\ phase = "running"
        /\ UNCHANGED <<phase, at, inflight, seen>>
    BY <1>0, <1>3 DEF Suppress, Matched, Walking, Idxs, TypeOK, TaskTypeOK, SuppressInv, Placed
  <2>2. Landed /\ Still
    BY <2>1 DEF SuppressInv
  <2>3. ASSUME NEW k \in Idxs, k # i
        PROVE  Kept(k)
    <3>1. Untouched(k)
      BY <1>0, <1>1, <1>3, <2>1, <2>3 DEF Suppress, Untouched, TypeOK, CoolTypeOK
    <3> QED
      BY <1>0, <2>2, <3>1, UntouchedKeeps
  <2>4. ASSUME NEW k \in Idxs, k = i
        PROVE  Kept(k)
    BY <1>0, <1>3, <2>4, SuppressKeeps
  <2> QED
    BY <2>2, <2>3, <2>4
<1>4. CASE Fire
  <2>1. /\ i \in Idxs /\ at = "match" /\ phase = "running" /\ at' = "fire"
        /\ UNCHANGED <<phase, i, inflight, seen>>
    BY <1>0, <1>4 DEF Fire, MarkFired, Matched, Walking, Idxs, TypeOK, TaskTypeOK, SuppressInv,
                      Placed
  <2>2. Landed /\ Still
    BY <2>1 DEF SuppressInv
  <2>3. ASSUME NEW k \in Idxs, k # i
        PROVE  Kept(k)
    <3>1. Untouched(k)
      BY <1>0, <1>1, <1>4, <2>1, <2>3 DEF Fire, MarkFired, Untouched, TypeOK, CoolTypeOK
    <3> QED
      BY <1>0, <2>2, <3>1, UntouchedKeeps
  <2>4. ASSUME NEW k \in Idxs, k = i
        PROVE  Kept(k)
    BY <1>0, <1>4, <2>4, FireKeeps
  <2> QED
    BY <2>2, <2>3, <2>4
<1>5. CASE FlushFirst
  <2>1. /\ i \in Idxs /\ at = "match" /\ phase = "running" /\ at' = "flush"
        /\ UNCHANGED <<phase, i, seen>>
    BY <1>0, <1>5 DEF FlushFirst, Matched, Walking, Idxs, TypeOK, TaskTypeOK, SuppressInv, Placed
  <2>2. Landed /\ Still
    BY <2>1
  <2>3. ASSUME NEW k \in Idxs, k # i
        PROVE  Kept(k)
    <3>1. Untouched(k)
      BY <1>0, <1>1, <1>5, <2>1, <2>3 DEF FlushFirst, Popped, Untouched, TypeOK, CoolTypeOK
    <3> QED
      BY <1>0, <2>2, <3>1, UntouchedKeeps
  <2>4. ASSUME NEW k \in Idxs, k = i
        PROVE  Kept(k)
    BY <1>0, <1>5, <2>4, FlushFirstKeeps
  <2> QED
    BY <2>2, <2>3, <2>4
<1>6. CASE FlushWritten
  <2>1. /\ i \in Idxs /\ at = "flush" /\ phase = "running" /\ at' = "fire" /\ inflight' = NoRow
        /\ UNCHANGED <<phase, i, seen>>
    BY <1>0, <1>6 DEF FlushWritten, MarkFired, TypeOK, TaskTypeOK, SuppressInv, Placed
  <2>2. Landed /\ Still
    BY <2>1
  <2>3. ASSUME NEW k \in Idxs, k # i
        PROVE  Kept(k)
    <3>1. Untouched(k)
      BY <1>0, <1>1, <1>6, <2>1, <2>3 DEF FlushWritten, MarkFired, Untouched, TypeOK, CoolTypeOK
    <3> QED
      BY <1>0, <2>2, <3>1, UntouchedKeeps
  <2>4. ASSUME NEW k \in Idxs, k = i
        PROVE  Kept(k)
    BY <1>0, <1>6, <2>4, FlushWrittenKeeps
  <2> QED
    BY <2>2, <2>3, <2>4
<1>7. CASE FlushFails
  <2>1. /\ i \in Idxs /\ at = "flush" /\ phase = "running" /\ at' = "report"
        /\ inflight' = NoRow /\ cut' = cut \cup {i}
        /\ UNCHANGED <<phase, i, seen, last, pending, told, hits, fires>>
    BY <1>0, <1>7 DEF FlushFails, TypeOK, TaskTypeOK, SuppressInv, Placed
  <2>2. Landed /\ Still
    BY <2>1
  <2>3. ASSUME NEW k \in Idxs, k # i
        PROVE  Kept(k)
    <3>1. Untouched(k)
      BY <1>1, <2>1, <2>3 DEF Untouched
    <3> QED
      BY <1>0, <2>2, <3>1, UntouchedKeeps
  <2>4. ASSUME NEW k \in Idxs, k = i
        PROVE  Kept(k)
    BY <2>1, <2>4, RowLost
  <2> QED
    BY <2>2, <2>3, <2>4
<1>8. CASE Stop \/ StopAfterFlushWrite
  <2>1. /\ phase = "running" /\ phase' = "closing" /\ at' = "ended" /\ inflight' = NoRow
        /\ UNCHANGED <<seen, last, pending, hits, fires>>
    BY <1>8 DEF Stop, StopAfterFlushWrite, Cancel
  <2>2. Landed /\ Still
    BY <2>1
  <2>3. at = "flush" => i \in Idxs
    BY <1>0 DEF TypeOK, TaskTypeOK
  <2>4. ASSUME NEW k \in Idxs, ~(at = "flush" /\ i = k)
        PROVE  Kept(k)
    <3>1. told'[k] = told[k] /\ (k \in cut' <=> k \in cut)
      BY <1>0, <1>8, <2>3, <2>4 DEF Stop, StopAfterFlushWrite, TypeOK, CoolTypeOK
    <3>2. Untouched(k)
      BY <1>1, <2>1, <2>4, <3>1 DEF Untouched
    <3> QED
      BY <1>0, <2>2, <3>2, UntouchedKeeps
  <2>5. ASSUME NEW k \in Idxs, at = "flush", i = k
        PROVE  Kept(k)
    <3>1. CASE StopAfterFlushWrite
      BY <1>0, <2>5, <3>1, StopAfterFlushKeeps
    <3>2. CASE Stop
      <4>1. cut' = cut \cup {k} /\ told' = told
        BY <2>5, <3>2 DEF Stop
      <4> QED
        BY <2>1, <2>5, <4>1, RowLost
    <3> QED
      BY <1>8, <3>1, <3>2
  <2> QED
    BY <2>2, <2>4, <2>5
<1>9. ASSUME NEW j \in Idxs, FlushPending(j) \/ FlushPendingFails(j)
      PROVE  Goal
  <2>1. /\ phase = "flushing" /\ phase' \in {"flushing", "failed"} /\ at # "flush"
        /\ UNCHANGED <<at, i, seen, last, inflight, hits, fires>>
    BY <1>9 DEF FlushPending, FlushPendingFails, SuppressInv, Placed
  <2>2. Landed /\ Still
    BY <2>1 DEF SuppressInv
  <2>3. ASSUME NEW k \in Idxs, k # j
        PROVE  Kept(k)
    <3>1. told'[k] = told[k] /\ pending'[k] = pending[k] /\ (k \in cut' <=> k \in cut)
      BY <1>0, <1>9, <2>3 DEF FlushPending, FlushPendingFails, Popped, TypeOK, CoolTypeOK
    <3>2. Untouched(k)
      BY <1>1, <2>1, <3>1 DEF Untouched
    <3> QED
      BY <1>0, <2>2, <3>2, UntouchedKeeps
  <2>4. Kept(j)
    BY <1>0, <1>9, FlushPendingKeeps, FlushPendingFailsKeeps
  <2> QED
    BY <2>2, <2>3, <2>4
<1> QED
  BY <1>2, <1>3, <1>4, <1>5, <1>6, <1>7, <1>8, <1>9, SuppressMoves

\* The rows written, and the one in flight or pending after them, have windows of their own.
LEMMA RowsHaveWindows ==
    ASSUME SuppressInv, NEW k \in Idxs
    PROVE  OneRowPerWindow(k)
<1>1. /\ told[k] \in Seq(SupRow) /\ WindowsOf(k) /\ pending[k] \in SupRow \cup {NoRow}
  BY CoolTypes
<1>2. Apart(k, fires[k], RowsOf(k))
  <2>1. CASE at = "flush" /\ i = k
    <3>1. pending[k] = NoRow /\ inflight \in SupRow /\ InLast(k, inflight) /\ LastUntold(k)
      BY <2>1, InFlight
    <3>2. RowsOf(k) = Append(told[k], inflight)
      <4>1. inflight # NoRow
        BY <3>1, RowIsARow
      <4>2. RowsOf(k) = (told[k] \o <<inflight>>) \o <<>>
        BY <2>1, <3>1, <4>1 DEF RowsOf, Optional
      <4>3. Append(told[k], inflight) \in Seq(SupRow)
        BY <1>1, <3>1
      <4>4. told[k] \o <<inflight>> = Append(told[k], inflight)
        BY <1>1, <3>1, AppendIsConcat
      <4> QED
        BY <4>2, <4>3, <4>4, ConcatEmptySeq
    <3> QED
      BY <3>1, <3>2, RowWritten
  <2>2. CASE ~(at = "flush" /\ i = k)
    <3>1. i = k => inflight = NoRow
      BY <2>2 DEF SuppressInv
    <3>2. CASE pending[k] = NoRow
      <4>1. RowsOf(k) = told[k]
        BY <1>1, <3>1, <3>2, ConcatEmptySeq DEF RowsOf, Optional
      <4> QED
        BY <1>1, <4>1 DEF WindowsOf
    <3>3. CASE pending[k] # NoRow
      <4>1. RowsOf(k) = Append(told[k], pending[k])
        BY <1>1, <3>1, <3>3, ConcatEmptySeq, AppendIsConcat DEF RowsOf, Optional
      <4>2. pending[k] \in SupRow /\ InLast(k, pending[k]) /\ LastUntold(k)
        BY <1>1, <3>3 DEF WindowsOf, PendingInLast
      <4> QED
        BY <4>1, <4>2, RowWritten
    <3> QED
      BY <3>2, <3>3
  <2> QED
    BY <2>1, <2>2
<1> QED
  BY <1>2 DEF OneRowPerWindow, Apart

(***************************************************************************)
(* THEOREM.  "One trigger.suppressed audit row per cooldown window", no    *)
(* suppressed match reported twice, and none forgotten while no row was    *)
(* lost (ha_driver.py, _on_event, _flush_suppressed and stop): for every   *)
(* list of triggers, through failing writes and a shutdown at any await.   *)
(***************************************************************************)
THEOREM SuppressionsAreAccounted == Spec => []SuppressionsAccounted
<1>1. SuppressInv => SuppressionsAccounted
  <2> SUFFICES ASSUME SuppressInv, NEW k \in Idxs
               PROVE  /\ OneRowPerWindow(k) /\ Counts(k)
                      /\ phase = "stopped" => pending[k] = NoRow
    BY DEF SuppressionsAccounted, Counts
  <2>1. OneRowPerWindow(k)
    BY RowsHaveWindows
  <2> QED
    BY <2>1 DEF SuppressInv
<1> QED
  BY <1>1, SuppressInit, SuppressStep, PTL DEF Spec

=============================================================================
