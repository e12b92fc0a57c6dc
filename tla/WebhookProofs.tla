---------------------------- MODULE WebhookProofs ----------------------------
(***************************************************************************)
(* Theorems about Webhook for any number of POSTs, triggers and cooldowns. *)
(***************************************************************************)
EXTENDS Webhook, FiniteSetTheorems, WellFoundedInduction, TLAPS

\* The initial state is type correct.
LEMMA TypeInit == Init => TypeOK
  BY WebhookAssumption DEF Init, TypeOK, RouteTypeOK, CoolTypeOK, Moments, Never

\* Every step keeps the types of the requests' variables.
LEMMA RouteTypeStep == TypeOK /\ [Next]_vars => RouteTypeOK'
<1> SUFFICES ASSUME TypeOK, [Next]_vars PROVE RouteTypeOK'
  OBVIOUS
<1> USE WebhookAssumption
<1>1. ASSUME NEW r \in Posts, NEW k \in Names, TooLarge(r, k) PROVE RouteTypeOK'
  BY <1>1 DEF TooLarge, Arrives, Respond, Goto, TypeOK, RouteTypeOK, Moments, coolVars
<1>2. ASSUME NEW r \in Posts, NEW k \in Names, Unknown(r, k) PROVE RouteTypeOK'
  BY <1>2 DEF Unknown, Arrives, Respond, Goto, AuditFails, TypeOK, RouteTypeOK, Moments, coolVars
<1>3. ASSUME NEW r \in Posts, NEW k \in Names, Unauthorized(r, k) PROVE RouteTypeOK'
  BY <1>3 DEF Unauthorized, Arrives, Respond, Goto, AuditFails, TypeOK, RouteTypeOK, Moments, coolVars
<1>4. ASSUME NEW r \in Posts, NEW k \in Names, Suppress(r, k) PROVE RouteTypeOK'
  BY <1>4 DEF Suppress, Arrives, Respond, Goto, Judge, TypeOK, RouteTypeOK, Moments, coolVars
<1>5. ASSUME NEW r \in Posts, NEW k \in Names, Accept(r, k) PROVE RouteTypeOK'
  BY <1>5 DEF Accept, Arrives, Goto, Judge, TypeOK, RouteTypeOK, Moments, coolVars
<1>6. ASSUME NEW r \in Posts, Received(r) PROVE RouteTypeOK'
  BY <1>6 DEF Received, Goto, TypeOK, RouteTypeOK, Moments, coolVars
<1>7. ASSUME NEW r \in Posts, ReceivedFails(r) PROVE RouteTypeOK'
  BY <1>7 DEF ReceivedFails, AuditFails, Respond, Goto, TypeOK, RouteTypeOK, Moments, coolVars
<1>8. ASSUME NEW r \in Posts, Fire(r) PROVE RouteTypeOK'
  BY <1>8 DEF Fire, MarkFired, Goto, TypeOK, RouteTypeOK, Moments, coolVars
<1>9. ASSUME NEW r \in Posts, FlushFirst(r) PROVE RouteTypeOK'
  BY <1>9 DEF FlushFirst, Goto, Popped, TypeOK, RouteTypeOK, Moments, coolVars
<1>10. ASSUME NEW r \in Posts, FlushWritten(r) PROVE RouteTypeOK'
  BY <1>10 DEF FlushWritten, MarkFired, Goto, TypeOK, RouteTypeOK, Moments, coolVars
<1>11. ASSUME NEW r \in Posts, FlushFails(r) PROVE RouteTypeOK'
  BY <1>11 DEF FlushFails, AuditFails, Goto, TypeOK, RouteTypeOK, Moments, coolVars
<1>12. ASSUME NEW r \in Posts, FireReturns(r) PROVE RouteTypeOK'
  BY <1>12 DEF FireReturns, Goto, TypeOK, RouteTypeOK, Moments, coolVars
<1>13. ASSUME NEW r \in Posts, FireRaises(r) PROVE RouteTypeOK'
  BY <1>13 DEF FireRaises, Goto, TypeOK, RouteTypeOK, Moments, coolVars
<1>14. ASSUME NEW r \in Posts, Reported(r) PROVE RouteTypeOK'
  BY <1>14 DEF Reported, AuditFails, Goto, TypeOK, RouteTypeOK, Moments, coolVars
<1>15. ASSUME NEW k \in Armed, StopFlush(k) PROVE RouteTypeOK'
  BY <1>15 DEF StopFlush, Popped, TypeOK, RouteTypeOK, Moments, coolVars
<1>16. CASE Stop
  BY <1>16 DEF Stop, TypeOK, RouteTypeOK, Moments, coolVars
<1>17. CASE StopFlushWritten
  BY <1>17 DEF StopFlushWritten, TypeOK, RouteTypeOK, Moments, coolVars
<1>18. CASE StopFlushFails
  BY <1>18 DEF StopFlushFails, AuditFails, TypeOK, RouteTypeOK, Moments, coolVars
<1>19. CASE Stopped
  BY <1>19 DEF Stopped, TypeOK, RouteTypeOK, Moments, coolVars
<1>20. CASE Tick
  BY <1>20 DEF Tick, TypeOK, RouteTypeOK, Moments, coolVars
<1>21. CASE UNCHANGED vars
  BY <1>21 DEF vars, TypeOK, RouteTypeOK, Moments, coolVars
<1> QED
  BY <1>1, <1>2, <1>3, <1>4, <1>5, <1>6, <1>7, <1>8, <1>9, <1>10, <1>11, <1>12, <1>13, <1>14, <1>15, <1>16, <1>17, <1>18, <1>19, <1>20, <1>21
     DEF Next, Route, Task, Stopping

\* Every step keeps the types of the cooldowns' variables.
LEMMA CoolTypeStep == TypeOK /\ [Next]_vars => CoolTypeOK'
<1> SUFFICES ASSUME TypeOK, [Next]_vars PROVE CoolTypeOK'
  OBVIOUS
<1> USE WebhookAssumption
<1>1. ASSUME NEW r \in Posts, NEW k \in Names, TooLarge(r, k) PROVE CoolTypeOK'
  BY <1>1 DEF TooLarge, Arrives, Respond, Goto, TypeOK, RouteTypeOK, CoolTypeOK, coolVars
<1>2. ASSUME NEW r \in Posts, NEW k \in Names, Unknown(r, k) PROVE CoolTypeOK'
  BY <1>2 DEF Unknown, Arrives, Respond, Goto, AuditFails, TypeOK, RouteTypeOK, CoolTypeOK, coolVars
<1>3. ASSUME NEW r \in Posts, NEW k \in Names, Unauthorized(r, k) PROVE CoolTypeOK'
  BY <1>3 DEF Unauthorized, Arrives, Respond, Goto, AuditFails, TypeOK, RouteTypeOK, CoolTypeOK, coolVars
<1>4. ASSUME NEW r \in Posts, NEW k \in Names, Suppress(r, k) PROVE CoolTypeOK'
  <2>1. Counted(k) \in SupRow
    <3>1. pending[k] \in SupRow \cup {NoRow} /\ clock \in Moments
      BY <1>4 DEF Suppress, TypeOK, RouteTypeOK, CoolTypeOK
    <3> QED
      BY <3>1 DEF Counted, SupRow
  <2> QED
    BY <1>4, <2>1 DEF Suppress, Respond, Goto, TypeOK, RouteTypeOK, CoolTypeOK
<1>5. ASSUME NEW r \in Posts, NEW k \in Names, Accept(r, k) PROVE CoolTypeOK'
  BY <1>5 DEF Accept, Arrives, Goto, Judge, TypeOK, RouteTypeOK, CoolTypeOK, coolVars
<1>6. ASSUME NEW r \in Posts, Received(r) PROVE CoolTypeOK'
  BY <1>6 DEF Received, Goto, TypeOK, RouteTypeOK, CoolTypeOK, coolVars
<1>7. ASSUME NEW r \in Posts, ReceivedFails(r) PROVE CoolTypeOK'
  BY <1>7 DEF ReceivedFails, AuditFails, Respond, Goto, TypeOK, RouteTypeOK, CoolTypeOK, coolVars
<1>8. ASSUME NEW r \in Posts, Fire(r) PROVE CoolTypeOK'
  BY <1>8 DEF Fire, MarkFired, Goto, TypeOK, RouteTypeOK, CoolTypeOK, coolVars
<1>9. ASSUME NEW r \in Posts, FlushFirst(r) PROVE CoolTypeOK'
  BY <1>9 DEF FlushFirst, Goto, Popped, TypeOK, RouteTypeOK, CoolTypeOK, coolVars
<1>10. ASSUME NEW r \in Posts, FlushWritten(r) PROVE CoolTypeOK'
  <2>1. target[r] \in Armed /\ row[r].count \in Nat /\ clock \in Moments
    <3>1. target[r] \in Armed /\ row[r] \in SupRow /\ clock \in Moments
      BY <1>10 DEF FlushWritten, TypeOK, RouteTypeOK, CoolTypeOK
    <3> QED
      BY <3>1 DEF SupRow
  <2> QED
    BY <1>10, <2>1 DEF FlushWritten, MarkFired, Goto, TypeOK, RouteTypeOK, CoolTypeOK
<1>11. ASSUME NEW r \in Posts, FlushFails(r) PROVE CoolTypeOK'
  BY <1>11 DEF FlushFails, AuditFails, Goto, TypeOK, RouteTypeOK, CoolTypeOK, coolVars
<1>12. ASSUME NEW r \in Posts, FireReturns(r) PROVE CoolTypeOK'
  BY <1>12 DEF FireReturns, Goto, TypeOK, RouteTypeOK, CoolTypeOK, coolVars
<1>13. ASSUME NEW r \in Posts, FireRaises(r) PROVE CoolTypeOK'
  BY <1>13 DEF FireRaises, Goto, TypeOK, RouteTypeOK, CoolTypeOK, coolVars
<1>14. ASSUME NEW r \in Posts, Reported(r) PROVE CoolTypeOK'
  BY <1>14 DEF Reported, AuditFails, Goto, TypeOK, RouteTypeOK, CoolTypeOK, coolVars
<1>15. ASSUME NEW k \in Armed, StopFlush(k) PROVE CoolTypeOK'
  BY <1>15 DEF StopFlush, Popped, TypeOK, RouteTypeOK, CoolTypeOK, coolVars
<1>16. CASE Stop
  BY <1>16 DEF Stop, TypeOK, RouteTypeOK, CoolTypeOK, coolVars
<1>17. CASE StopFlushWritten
  <2>1. stopRow[1] \in Armed /\ stopRow[2].count \in Nat
    <3>1. stopRow \in Armed \X SupRow
      BY <1>17 DEF StopFlushWritten, TypeOK, CoolTypeOK
    <3> QED
      BY <3>1 DEF SupRow
  <2> QED
    BY <1>17, <2>1 DEF StopFlushWritten, TypeOK, CoolTypeOK
<1>18. CASE StopFlushFails
  BY <1>18 DEF StopFlushFails, AuditFails, TypeOK, RouteTypeOK, CoolTypeOK, coolVars
<1>19. CASE Stopped
  BY <1>19 DEF Stopped, TypeOK, RouteTypeOK, CoolTypeOK, coolVars
<1>20. CASE Tick
  BY <1>20 DEF Tick, TypeOK, RouteTypeOK, CoolTypeOK, coolVars
<1>21. CASE UNCHANGED vars
  BY <1>21 DEF vars, TypeOK, RouteTypeOK, CoolTypeOK, coolVars
<1> QED
  BY <1>1, <1>2, <1>3, <1>4, <1>5, <1>6, <1>7, <1>8, <1>9, <1>10, <1>11, <1>12, <1>13, <1>14, <1>15, <1>16, <1>17, <1>18, <1>19, <1>20, <1>21
     DEF Next, Route, Task, Stopping

\* Every variable keeps to its type.
THEOREM TypeCorrect == Spec => []TypeOK
<1>1. TypeOK /\ [Next]_vars => TypeOK'
  BY RouteTypeStep, CoolTypeStep DEF TypeOK
<1> QED
  BY <1>1, TypeInit, PTL DEF Spec

-----------------------------------------------------------------------------
(***************************************************************************)
(* Fires and refusals.  The invariant keeps the order of moments: a        *)
(* request is judged before it fires and fires are never later than the    *)
(* trigger's last one; the last one is a request's fire; and whoever was   *)
(* let through was judged a whole cooldown after every earlier fire.       *)
(***************************************************************************)
InOrder ==
    \A r \in Posts :
        /\ judgedAt[r] <= clock /\ firedAt[r] <= clock
        /\ pc[r] = "new" => judgedAt[r] = Never /\ firedAt[r] = Never /\ status[r] = 0
        /\ pc[r] \in {"recording", "spawned", "flushing"} => firedAt[r] = Never /\ status[r] # 429
        /\ firedAt[r] # Never => /\ target[r] \in Armed
                                /\ firedAt[r] <= last[target[r]]
                                /\ judgedAt[r] <= firedAt[r]
                                /\ status[r] # 429

LastIsAFire ==
    \A k \in Armed :
        /\ last[k] <= clock
        /\ last[k] # Never => \E r \in Posts : target[r] = k /\ firedAt[r] = last[k]

Spaced ==
    \A r, s \in Posts :
        /\ r # s /\ target[r] = target[s] /\ target[r] \in Armed
        /\ status[s] # 429 /\ judgedAt[s] # Never /\ firedAt[r] # Never
        /\ firedAt[r] < judgedAt[s]
        => firedAt[r] + CooldownOf[target[r]] <= judgedAt[s]

FireInv == TypeOK /\ InOrder /\ LastIsAFire /\ Spaced /\ RefusalsJustified

\* The constants and the moments are integers.
LEMMA Numbers ==
    ASSUME TypeOK
    PROVE  /\ clock \in Nat
           /\ \A r \in Posts : judgedAt[r] \in Int /\ firedAt[r] \in Int
           /\ \A r \in Posts : firedAt[r] # Never => firedAt[r] \in Nat
           /\ \A k \in Armed : last[k] \in Int /\ CooldownOf[k] \in Nat
  BY WebhookAssumption DEF TypeOK, RouteTypeOK, CoolTypeOK, Moments, Never

\* Every step keeps the order of moments.
LEMMA OrderStep == FireInv /\ [Next]_vars => InOrder'
<1> SUFFICES ASSUME FireInv, [Next]_vars PROVE InOrder'
  OBVIOUS
<1> USE WebhookAssumption, Numbers
<1>1. ASSUME NEW r \in Posts, NEW k \in Names, TooLarge(r, k) PROVE InOrder'
  BY <1>1 DEF TooLarge, Arrives, Respond, Goto, TypeOK, RouteTypeOK, CoolTypeOK, FireInv, InOrder, LastIsAFire, coolVars, Never
<1>2. ASSUME NEW r \in Posts, NEW k \in Names, Unknown(r, k) PROVE InOrder'
  BY <1>2 DEF Unknown, Arrives, Respond, Goto, AuditFails, TypeOK, RouteTypeOK, CoolTypeOK, FireInv, InOrder, LastIsAFire, coolVars, Never
<1>3. ASSUME NEW r \in Posts, NEW k \in Names, Unauthorized(r, k) PROVE InOrder'
  BY <1>3 DEF Unauthorized, Arrives, Respond, Goto, AuditFails, TypeOK, RouteTypeOK, CoolTypeOK, FireInv, InOrder, LastIsAFire, coolVars, Never
<1>4. ASSUME NEW r \in Posts, NEW k \in Names, Suppress(r, k) PROVE InOrder'
  BY <1>4 DEF Suppress, Arrives, Respond, Goto, Judge, IsInCooldown, TypeOK, RouteTypeOK, CoolTypeOK, FireInv, InOrder, LastIsAFire, coolVars, Never
<1>5. ASSUME NEW r \in Posts, NEW k \in Names, Accept(r, k) PROVE InOrder'
  BY <1>5 DEF Accept, Arrives, Goto, Judge, IsInCooldown, TypeOK, RouteTypeOK, CoolTypeOK, FireInv, InOrder, LastIsAFire, coolVars, Never
<1>6. ASSUME NEW r \in Posts, Received(r) PROVE InOrder'
  BY <1>6 DEF Received, Goto, TypeOK, RouteTypeOK, CoolTypeOK, FireInv, InOrder, LastIsAFire, coolVars, Never
<1>7. ASSUME NEW r \in Posts, ReceivedFails(r) PROVE InOrder'
  BY <1>7 DEF ReceivedFails, AuditFails, Respond, Goto, TypeOK, RouteTypeOK, CoolTypeOK, FireInv, InOrder, LastIsAFire, coolVars, Never
<1>8. ASSUME NEW r \in Posts, Fire(r) PROVE InOrder'
  BY <1>8 DEF Fire, MarkFired, Goto, TypeOK, RouteTypeOK, CoolTypeOK, FireInv, InOrder, LastIsAFire, coolVars, Never
<1>9. ASSUME NEW r \in Posts, FlushFirst(r) PROVE InOrder'
  BY <1>9 DEF FlushFirst, Goto, Popped, TypeOK, RouteTypeOK, CoolTypeOK, FireInv, InOrder, LastIsAFire, coolVars, Never
<1>10. ASSUME NEW r \in Posts, FlushWritten(r) PROVE InOrder'
  BY <1>10 DEF FlushWritten, MarkFired, Goto, TypeOK, RouteTypeOK, CoolTypeOK, FireInv, InOrder, LastIsAFire, coolVars, Never
<1>11. ASSUME NEW r \in Posts, FlushFails(r) PROVE InOrder'
  BY <1>11 DEF FlushFails, AuditFails, Goto, TypeOK, RouteTypeOK, CoolTypeOK, FireInv, InOrder, LastIsAFire, coolVars, Never
<1>12. ASSUME NEW r \in Posts, FireReturns(r) PROVE InOrder'
  BY <1>12 DEF FireReturns, Goto, TypeOK, RouteTypeOK, CoolTypeOK, FireInv, InOrder, LastIsAFire, coolVars, Never
<1>13. ASSUME NEW r \in Posts, FireRaises(r) PROVE InOrder'
  BY <1>13 DEF FireRaises, Goto, TypeOK, RouteTypeOK, CoolTypeOK, FireInv, InOrder, LastIsAFire, coolVars, Never
<1>14. ASSUME NEW r \in Posts, Reported(r) PROVE InOrder'
  BY <1>14 DEF Reported, AuditFails, Goto, TypeOK, RouteTypeOK, CoolTypeOK, FireInv, InOrder, LastIsAFire, coolVars, Never
<1>15. ASSUME NEW k \in Armed, StopFlush(k) PROVE InOrder'
  BY <1>15 DEF StopFlush, Popped, TypeOK, RouteTypeOK, CoolTypeOK, FireInv, InOrder, LastIsAFire, coolVars, Never
<1>16. CASE Stop
  BY <1>16 DEF Stop, TypeOK, RouteTypeOK, CoolTypeOK, FireInv, InOrder, LastIsAFire, coolVars, Never
<1>17. CASE StopFlushWritten
  BY <1>17 DEF StopFlushWritten, TypeOK, RouteTypeOK, CoolTypeOK, FireInv, InOrder, LastIsAFire, coolVars, Never
<1>18. CASE StopFlushFails
  BY <1>18 DEF StopFlushFails, AuditFails, TypeOK, RouteTypeOK, CoolTypeOK, FireInv, InOrder, LastIsAFire, coolVars, Never
<1>19. CASE Stopped
  BY <1>19 DEF Stopped, TypeOK, RouteTypeOK, CoolTypeOK, FireInv, InOrder, LastIsAFire, coolVars, Never
<1>20. CASE Tick
  BY <1>20 DEF Tick, TypeOK, RouteTypeOK, CoolTypeOK, FireInv, InOrder, LastIsAFire, coolVars, Never
<1>21. CASE UNCHANGED vars
  BY <1>21 DEF vars, TypeOK, RouteTypeOK, CoolTypeOK, FireInv, InOrder, LastIsAFire, coolVars, Never
<1> QED
  BY <1>1, <1>2, <1>3, <1>4, <1>5, <1>6, <1>7, <1>8, <1>9, <1>10, <1>11, <1>12, <1>13, <1>14, <1>15, <1>16, <1>17, <1>18, <1>19, <1>20, <1>21
     DEF Next, Route, Task, Stopping

\* Every step keeps the last fire a fire of some request.
LEMMA LastStep == FireInv /\ [Next]_vars => LastIsAFire'
<1> SUFFICES ASSUME FireInv, [Next]_vars PROVE LastIsAFire'
  OBVIOUS
<1> USE WebhookAssumption, Numbers
<1>1. ASSUME NEW r \in Posts, NEW k \in Names, TooLarge(r, k) PROVE LastIsAFire'
  BY <1>1 DEF TooLarge, Arrives, Respond, Goto, TypeOK, RouteTypeOK, CoolTypeOK, FireInv, InOrder, LastIsAFire, coolVars, Never
<1>2. ASSUME NEW r \in Posts, NEW k \in Names, Unknown(r, k) PROVE LastIsAFire'
  BY <1>2 DEF Unknown, Arrives, Respond, Goto, AuditFails, TypeOK, RouteTypeOK, CoolTypeOK, FireInv, InOrder, LastIsAFire, coolVars, Never
<1>3. ASSUME NEW r \in Posts, NEW k \in Names, Unauthorized(r, k) PROVE LastIsAFire'
  BY <1>3 DEF Unauthorized, Arrives, Respond, Goto, AuditFails, TypeOK, RouteTypeOK, CoolTypeOK, FireInv, InOrder, LastIsAFire, coolVars, Never
<1>4. ASSUME NEW r \in Posts, NEW k \in Names, Suppress(r, k) PROVE LastIsAFire'
  BY <1>4 DEF Suppress, Arrives, Respond, Goto, Judge, IsInCooldown, TypeOK, RouteTypeOK, CoolTypeOK, FireInv, InOrder, LastIsAFire, coolVars, Never
<1>5. ASSUME NEW r \in Posts, NEW k \in Names, Accept(r, k) PROVE LastIsAFire'
  BY <1>5 DEF Accept, Arrives, Goto, Judge, IsInCooldown, TypeOK, RouteTypeOK, CoolTypeOK, FireInv, InOrder, LastIsAFire, coolVars, Never
<1>6. ASSUME NEW r \in Posts, Received(r) PROVE LastIsAFire'
  BY <1>6 DEF Received, Goto, TypeOK, RouteTypeOK, CoolTypeOK, FireInv, InOrder, LastIsAFire, coolVars, Never
<1>7. ASSUME NEW r \in Posts, ReceivedFails(r) PROVE LastIsAFire'
  BY <1>7 DEF ReceivedFails, AuditFails, Respond, Goto, TypeOK, RouteTypeOK, CoolTypeOK, FireInv, InOrder, LastIsAFire, coolVars, Never
<1>8. ASSUME NEW r \in Posts, Fire(r) PROVE LastIsAFire'
  BY <1>8 DEF Fire, MarkFired, Goto, TypeOK, RouteTypeOK, CoolTypeOK, FireInv, InOrder, LastIsAFire, coolVars, Never
<1>9. ASSUME NEW r \in Posts, FlushFirst(r) PROVE LastIsAFire'
  BY <1>9 DEF FlushFirst, Goto, Popped, TypeOK, RouteTypeOK, CoolTypeOK, FireInv, InOrder, LastIsAFire, coolVars, Never
<1>10. ASSUME NEW r \in Posts, FlushWritten(r) PROVE LastIsAFire'
  BY <1>10 DEF FlushWritten, MarkFired, Goto, TypeOK, RouteTypeOK, CoolTypeOK, FireInv, InOrder, LastIsAFire, coolVars, Never
<1>11. ASSUME NEW r \in Posts, FlushFails(r) PROVE LastIsAFire'
  BY <1>11 DEF FlushFails, AuditFails, Goto, TypeOK, RouteTypeOK, CoolTypeOK, FireInv, InOrder, LastIsAFire, coolVars, Never
<1>12. ASSUME NEW r \in Posts, FireReturns(r) PROVE LastIsAFire'
  BY <1>12 DEF FireReturns, Goto, TypeOK, RouteTypeOK, CoolTypeOK, FireInv, InOrder, LastIsAFire, coolVars, Never
<1>13. ASSUME NEW r \in Posts, FireRaises(r) PROVE LastIsAFire'
  BY <1>13 DEF FireRaises, Goto, TypeOK, RouteTypeOK, CoolTypeOK, FireInv, InOrder, LastIsAFire, coolVars, Never
<1>14. ASSUME NEW r \in Posts, Reported(r) PROVE LastIsAFire'
  BY <1>14 DEF Reported, AuditFails, Goto, TypeOK, RouteTypeOK, CoolTypeOK, FireInv, InOrder, LastIsAFire, coolVars, Never
<1>15. ASSUME NEW k \in Armed, StopFlush(k) PROVE LastIsAFire'
  BY <1>15 DEF StopFlush, Popped, TypeOK, RouteTypeOK, CoolTypeOK, FireInv, InOrder, LastIsAFire, coolVars, Never
<1>16. CASE Stop
  BY <1>16 DEF Stop, TypeOK, RouteTypeOK, CoolTypeOK, FireInv, InOrder, LastIsAFire, coolVars, Never
<1>17. CASE StopFlushWritten
  BY <1>17 DEF StopFlushWritten, TypeOK, RouteTypeOK, CoolTypeOK, FireInv, InOrder, LastIsAFire, coolVars, Never
<1>18. CASE StopFlushFails
  BY <1>18 DEF StopFlushFails, AuditFails, TypeOK, RouteTypeOK, CoolTypeOK, FireInv, InOrder, LastIsAFire, coolVars, Never
<1>19. CASE Stopped
  BY <1>19 DEF Stopped, TypeOK, RouteTypeOK, CoolTypeOK, FireInv, InOrder, LastIsAFire, coolVars, Never
<1>20. CASE Tick
  BY <1>20 DEF Tick, TypeOK, RouteTypeOK, CoolTypeOK, FireInv, InOrder, LastIsAFire, coolVars, Never
<1>21. CASE UNCHANGED vars
  BY <1>21 DEF vars, TypeOK, RouteTypeOK, CoolTypeOK, FireInv, InOrder, LastIsAFire, coolVars, Never
<1> QED
  BY <1>1, <1>2, <1>3, <1>4, <1>5, <1>6, <1>7, <1>8, <1>9, <1>10, <1>11, <1>12, <1>13, <1>14, <1>15, <1>16, <1>17, <1>18, <1>19, <1>20, <1>21
     DEF Next, Route, Task, Stopping

\* Whoever a step lets through comes a whole cooldown after every earlier fire.
LEMMA SpacedStep == FireInv /\ [Next]_vars => Spaced'
<1> SUFFICES ASSUME FireInv, [Next]_vars PROVE Spaced'
  OBVIOUS
<1> USE WebhookAssumption, Numbers
<1>1. ASSUME NEW r \in Posts, NEW k \in Names, TooLarge(r, k) PROVE Spaced'
  BY <1>1 DEF TooLarge, Arrives, Respond, Goto, TypeOK, RouteTypeOK, CoolTypeOK, FireInv, InOrder, LastIsAFire, Spaced, coolVars, Never
<1>2. ASSUME NEW r \in Posts, NEW k \in Names, Unknown(r, k) PROVE Spaced'
  BY <1>2 DEF Unknown, Arrives, Respond, Goto, AuditFails, TypeOK, RouteTypeOK, CoolTypeOK, FireInv, InOrder, LastIsAFire, Spaced, coolVars, Never
<1>3. ASSUME NEW r \in Posts, NEW k \in Names, Unauthorized(r, k) PROVE Spaced'
  BY <1>3 DEF Unauthorized, Arrives, Respond, Goto, AuditFails, TypeOK, RouteTypeOK, CoolTypeOK, FireInv, InOrder, LastIsAFire, Spaced, coolVars, Never
<1>4. ASSUME NEW r \in Posts, NEW k \in Names, Suppress(r, k) PROVE Spaced'
  BY <1>4 DEF Suppress, Arrives, Respond, Goto, Judge, IsInCooldown, TypeOK, RouteTypeOK, CoolTypeOK, FireInv, InOrder, LastIsAFire, Spaced, coolVars, Never
<1>5. ASSUME NEW r \in Posts, NEW k \in Names, Accept(r, k) PROVE Spaced'
  BY <1>5 DEF Accept, Arrives, Goto, Judge, IsInCooldown, TypeOK, RouteTypeOK, CoolTypeOK, FireInv, InOrder, LastIsAFire, Spaced, coolVars, Never
<1>6. ASSUME NEW r \in Posts, Received(r) PROVE Spaced'
  BY <1>6 DEF Received, Goto, TypeOK, RouteTypeOK, CoolTypeOK, FireInv, InOrder, LastIsAFire, Spaced, coolVars, Never
<1>7. ASSUME NEW r \in Posts, ReceivedFails(r) PROVE Spaced'
  BY <1>7 DEF ReceivedFails, AuditFails, Respond, Goto, TypeOK, RouteTypeOK, CoolTypeOK, FireInv, InOrder, LastIsAFire, Spaced, coolVars, Never
<1>8. ASSUME NEW r \in Posts, Fire(r) PROVE Spaced'
  BY <1>8 DEF Fire, MarkFired, Goto, TypeOK, RouteTypeOK, CoolTypeOK, FireInv, InOrder, LastIsAFire, Spaced, coolVars, Never
<1>9. ASSUME NEW r \in Posts, FlushFirst(r) PROVE Spaced'
  BY <1>9 DEF FlushFirst, Goto, Popped, TypeOK, RouteTypeOK, CoolTypeOK, FireInv, InOrder, LastIsAFire, Spaced, coolVars, Never
<1>10. ASSUME NEW r \in Posts, FlushWritten(r) PROVE Spaced'
  BY <1>10 DEF FlushWritten, MarkFired, Goto, TypeOK, RouteTypeOK, CoolTypeOK, FireInv, InOrder, LastIsAFire, Spaced, coolVars, Never
<1>11. ASSUME NEW r \in Posts, FlushFails(r) PROVE Spaced'
  BY <1>11 DEF FlushFails, AuditFails, Goto, TypeOK, RouteTypeOK, CoolTypeOK, FireInv, InOrder, LastIsAFire, Spaced, coolVars, Never
<1>12. ASSUME NEW r \in Posts, FireReturns(r) PROVE Spaced'
  BY <1>12 DEF FireReturns, Goto, TypeOK, RouteTypeOK, CoolTypeOK, FireInv, InOrder, LastIsAFire, Spaced, coolVars, Never
<1>13. ASSUME NEW r \in Posts, FireRaises(r) PROVE Spaced'
  BY <1>13 DEF FireRaises, Goto, TypeOK, RouteTypeOK, CoolTypeOK, FireInv, InOrder, LastIsAFire, Spaced, coolVars, Never
<1>14. ASSUME NEW r \in Posts, Reported(r) PROVE Spaced'
  BY <1>14 DEF Reported, AuditFails, Goto, TypeOK, RouteTypeOK, CoolTypeOK, FireInv, InOrder, LastIsAFire, Spaced, coolVars, Never
<1>15. ASSUME NEW k \in Armed, StopFlush(k) PROVE Spaced'
  BY <1>15 DEF StopFlush, Popped, TypeOK, RouteTypeOK, CoolTypeOK, FireInv, InOrder, LastIsAFire, Spaced, coolVars, Never
<1>16. CASE Stop
  BY <1>16 DEF Stop, TypeOK, RouteTypeOK, CoolTypeOK, FireInv, InOrder, LastIsAFire, Spaced, coolVars, Never
<1>17. CASE StopFlushWritten
  BY <1>17 DEF StopFlushWritten, TypeOK, RouteTypeOK, CoolTypeOK, FireInv, InOrder, LastIsAFire, Spaced, coolVars, Never
<1>18. CASE StopFlushFails
  BY <1>18 DEF StopFlushFails, AuditFails, TypeOK, RouteTypeOK, CoolTypeOK, FireInv, InOrder, LastIsAFire, Spaced, coolVars, Never
<1>19. CASE Stopped
  BY <1>19 DEF Stopped, TypeOK, RouteTypeOK, CoolTypeOK, FireInv, InOrder, LastIsAFire, Spaced, coolVars, Never
<1>20. CASE Tick
  BY <1>20 DEF Tick, TypeOK, RouteTypeOK, CoolTypeOK, FireInv, InOrder, LastIsAFire, Spaced, coolVars, Never
<1>21. CASE UNCHANGED vars
  BY <1>21 DEF vars, TypeOK, RouteTypeOK, CoolTypeOK, FireInv, InOrder, LastIsAFire, Spaced, coolVars, Never
<1> QED
  BY <1>1, <1>2, <1>3, <1>4, <1>5, <1>6, <1>7, <1>8, <1>9, <1>10, <1>11, <1>12, <1>13, <1>14, <1>15, <1>16, <1>17, <1>18, <1>19, <1>20, <1>21
     DEF Next, Route, Task, Stopping

\* Every step refuses only within a cooldown, and no step takes a fire back.
LEMMA RefusalStep == FireInv /\ [Next]_vars => RefusalsJustified'
<1> SUFFICES ASSUME FireInv, [Next]_vars PROVE RefusalsJustified'
  OBVIOUS
<1> USE WebhookAssumption, Numbers
<1>1. ASSUME NEW r \in Posts, NEW k \in Names, TooLarge(r, k) PROVE RefusalsJustified'
  BY <1>1 DEF TooLarge, Arrives, Respond, Goto, TypeOK, RouteTypeOK, CoolTypeOK, FireInv, InOrder, LastIsAFire, RefusalsJustified, Within, coolVars, Never
<1>2. ASSUME NEW r \in Posts, NEW k \in Names, Unknown(r, k) PROVE RefusalsJustified'
  BY <1>2 DEF Unknown, Arrives, Respond, Goto, AuditFails, TypeOK, RouteTypeOK, CoolTypeOK, FireInv, InOrder, LastIsAFire, RefusalsJustified, Within, coolVars, Never
<1>3. ASSUME NEW r \in Posts, NEW k \in Names, Unauthorized(r, k) PROVE RefusalsJustified'
  BY <1>3 DEF Unauthorized, Arrives, Respond, Goto, AuditFails, TypeOK, RouteTypeOK, CoolTypeOK, FireInv, InOrder, LastIsAFire, RefusalsJustified, Within, coolVars, Never
<1>4. ASSUME NEW r \in Posts, NEW k \in Names, Suppress(r, k) PROVE RefusalsJustified'
  BY <1>4 DEF Suppress, Arrives, Respond, Goto, Judge, IsInCooldown, TypeOK, RouteTypeOK, CoolTypeOK, FireInv, InOrder, LastIsAFire, RefusalsJustified, Within, coolVars, Never
<1>5. ASSUME NEW r \in Posts, NEW k \in Names, Accept(r, k) PROVE RefusalsJustified'
  BY <1>5 DEF Accept, Arrives, Goto, Judge, IsInCooldown, TypeOK, RouteTypeOK, CoolTypeOK, FireInv, InOrder, LastIsAFire, RefusalsJustified, Within, coolVars, Never
<1>6. ASSUME NEW r \in Posts, Received(r) PROVE RefusalsJustified'
  BY <1>6 DEF Received, Goto, TypeOK, RouteTypeOK, CoolTypeOK, FireInv, InOrder, LastIsAFire, RefusalsJustified, Within, coolVars, Never
<1>7. ASSUME NEW r \in Posts, ReceivedFails(r) PROVE RefusalsJustified'
  BY <1>7 DEF ReceivedFails, AuditFails, Respond, Goto, TypeOK, RouteTypeOK, CoolTypeOK, FireInv, InOrder, LastIsAFire, RefusalsJustified, Within, coolVars, Never
<1>8. ASSUME NEW r \in Posts, Fire(r) PROVE RefusalsJustified'
  BY <1>8 DEF Fire, MarkFired, Goto, TypeOK, RouteTypeOK, CoolTypeOK, FireInv, InOrder, LastIsAFire, RefusalsJustified, Within, coolVars, Never
<1>9. ASSUME NEW r \in Posts, FlushFirst(r) PROVE RefusalsJustified'
  BY <1>9 DEF FlushFirst, Goto, Popped, TypeOK, RouteTypeOK, CoolTypeOK, FireInv, InOrder, LastIsAFire, RefusalsJustified, Within, coolVars, Never
<1>10. ASSUME NEW r \in Posts, FlushWritten(r) PROVE RefusalsJustified'
  BY <1>10 DEF FlushWritten, MarkFired, Goto, TypeOK, RouteTypeOK, CoolTypeOK, FireInv, InOrder, LastIsAFire, RefusalsJustified, Within, coolVars, Never
<1>11. ASSUME NEW r \in Posts, FlushFails(r) PROVE RefusalsJustified'
  BY <1>11 DEF FlushFails, AuditFails, Goto, TypeOK, RouteTypeOK, CoolTypeOK, FireInv, InOrder, LastIsAFire, RefusalsJustified, Within, coolVars, Never
<1>12. ASSUME NEW r \in Posts, FireReturns(r) PROVE RefusalsJustified'
  BY <1>12 DEF FireReturns, Goto, TypeOK, RouteTypeOK, CoolTypeOK, FireInv, InOrder, LastIsAFire, RefusalsJustified, Within, coolVars, Never
<1>13. ASSUME NEW r \in Posts, FireRaises(r) PROVE RefusalsJustified'
  BY <1>13 DEF FireRaises, Goto, TypeOK, RouteTypeOK, CoolTypeOK, FireInv, InOrder, LastIsAFire, RefusalsJustified, Within, coolVars, Never
<1>14. ASSUME NEW r \in Posts, Reported(r) PROVE RefusalsJustified'
  BY <1>14 DEF Reported, AuditFails, Goto, TypeOK, RouteTypeOK, CoolTypeOK, FireInv, InOrder, LastIsAFire, RefusalsJustified, Within, coolVars, Never
<1>15. ASSUME NEW k \in Armed, StopFlush(k) PROVE RefusalsJustified'
  BY <1>15 DEF StopFlush, Popped, TypeOK, RouteTypeOK, CoolTypeOK, FireInv, InOrder, LastIsAFire, RefusalsJustified, Within, coolVars, Never
<1>16. CASE Stop
  BY <1>16 DEF Stop, TypeOK, RouteTypeOK, CoolTypeOK, FireInv, InOrder, LastIsAFire, RefusalsJustified, Within, coolVars, Never
<1>17. CASE StopFlushWritten
  BY <1>17 DEF StopFlushWritten, TypeOK, RouteTypeOK, CoolTypeOK, FireInv, InOrder, LastIsAFire, RefusalsJustified, Within, coolVars, Never
<1>18. CASE StopFlushFails
  BY <1>18 DEF StopFlushFails, AuditFails, TypeOK, RouteTypeOK, CoolTypeOK, FireInv, InOrder, LastIsAFire, RefusalsJustified, Within, coolVars, Never
<1>19. CASE Stopped
  BY <1>19 DEF Stopped, TypeOK, RouteTypeOK, CoolTypeOK, FireInv, InOrder, LastIsAFire, RefusalsJustified, Within, coolVars, Never
<1>20. CASE Tick
  BY <1>20 DEF Tick, TypeOK, RouteTypeOK, CoolTypeOK, FireInv, InOrder, LastIsAFire, RefusalsJustified, Within, coolVars, Never
<1>21. CASE UNCHANGED vars
  BY <1>21 DEF vars, TypeOK, RouteTypeOK, CoolTypeOK, FireInv, InOrder, LastIsAFire, RefusalsJustified, Within, coolVars, Never
<1> QED
  BY <1>1, <1>2, <1>3, <1>4, <1>5, <1>6, <1>7, <1>8, <1>9, <1>10, <1>11, <1>12, <1>13, <1>14, <1>15, <1>16, <1>17, <1>18, <1>19, <1>20, <1>21
     DEF Next, Route, Task, Stopping

\* The invariant of fires and refusals holds initially.
LEMMA FireInit == Init => FireInv
  BY TypeInit, WebhookAssumption
     DEF Init, FireInv, InOrder, LastIsAFire, Spaced, RefusalsJustified, Never

\* The invariant of fires and refusals is inductive.
LEMMA FireStep == FireInv /\ [Next]_vars => FireInv'
  BY RouteTypeStep, CoolTypeStep, OrderStep, LastStep, SpacedStep, RefusalStep
     DEF FireInv, TypeOK

\* Every refused request was judged within the cooldown of some fire.
THEOREM RefusalsAreJustified == Spec => []RefusalsJustified
<1>1. FireInv => RefusalsJustified
  BY DEF FireInv
<1> QED
  BY <1>1, FireInit, FireStep, PTL DEF Spec

\* Two fires of a trigger come closer than its cooldown only when the later one's
\* request was judged before the earlier one fired.
THEOREM OnlyOverlapsGetAround == Spec => []CloseFiresOverlap
<1>1. FireInv => CloseFiresOverlap
  <2> SUFFICES ASSUME FireInv, NEW r \in Posts, NEW s \in Posts,
                      r # s, target[r] = target[s], firedAt[s] # Never,
                      Within(firedAt[s], firedAt[r], target[r]),
                      ~(judgedAt[s] <= firedAt[r])
               PROVE  FALSE
    BY DEF CloseFiresOverlap
  <2>1. /\ firedAt[r] # Never /\ firedAt[r] < judgedAt[s] /\ judgedAt[s] <= firedAt[s]
        /\ firedAt[s] < firedAt[r] + CooldownOf[target[r]]
        /\ target[r] \in Armed /\ status[s] # 429 /\ judgedAt[s] # Never
    BY Numbers DEF FireInv, InOrder, Within, Never
  <2> QED
    BY <2>1, Numbers DEF FireInv, Spaced
<1> QED
  BY <1>1, FireInit, FireStep, PTL DEF Spec

-----------------------------------------------------------------------------
(***************************************************************************)
(* What the rows being written count.  The recursive sum over the posts is *)
(* reasoned about by a smallest set of posts where a claim fails.          *)
(***************************************************************************)
LEMMA LeastNumber ==
    ASSUME NEW T \in SUBSET Nat, T # {}
    PROVE  \E x \in T : \A y \in T : x <= y
<1>1. PICK x \in T : \A y \in T : ~ (<<y, x>> \in OpToRel(<, Nat))
  BY WFMin, NatLessThanWellFounded, Zenon
<1>2. \A y \in T : ~ (y < x)
  BY <1>1 DEF OpToRel
<1> QED
  BY <1>2

\* A set of posts, and the smaller one without the post its sum takes first.
LEMMA Smaller ==
    ASSUME NEW W \in SUBSET Posts
    PROVE  /\ Cardinality(W) \in Nat /\ Cardinality(W) <= Cardinality(Posts)
           /\ Cardinality(W) = 0 <=> W = {}
           /\ W # {} => /\ AnyOf(W) \in W /\ W \ {AnyOf(W)} \in SUBSET Posts
                        /\ Cardinality(W \ {AnyOf(W)}) = Cardinality(W) - 1
<1>1. IsFiniteSet(W) /\ IsFiniteSet(Posts)
  BY FS_Subset, WebhookAssumption
<1>2. Cardinality(W) \in Nat /\ (Cardinality(W) = 0 <=> W = {})
  BY <1>1, FS_CardinalityType, FS_EmptySet
<1>3. Cardinality(W) <= Cardinality(Posts)
  BY <1>1, FS_Subset
<1>4. ASSUME W # {}
      PROVE  /\ AnyOf(W) \in W /\ W \ {AnyOf(W)} \in SUBSET Posts
             /\ Cardinality(W \ {AnyOf(W)}) = Cardinality(W) - 1
  <2>1. AnyOf(W) \in W
    BY <1>4 DEF AnyOf
  <2> QED
    BY <1>1, <2>1, FS_RemoveElement
<1> QED
  BY <1>1, <1>2, <1>3, <1>4, FS_CardinalityType, FS_EmptySet

\* A smallest set of posts of a family.
LEMMA SmallestSet ==
    ASSUME NEW F \in SUBSET (SUBSET Posts), F # {}
    PROVE  \E W \in F : \A V \in F : Cardinality(W) <= Cardinality(V)
<1> DEFINE T == {Cardinality(W) : W \in F}
<1>1. T \in SUBSET Nat /\ T # {}
  <2>1. ASSUME NEW W \in F
        PROVE  Cardinality(W) \in Nat
    <3>1. W \in SUBSET Posts
      OBVIOUS
    <3> QED
      BY <3>1, Smaller, Zenon
  <2> QED
    BY <2>1
<1>2. PICK n \in T : \A m \in T : n <= m
  BY <1>1, LeastNumber
<1> QED
  BY <1>2, <1>1

UpTo(n) == {W \in SUBSET Posts : Cardinality(W) <= n}

\* The sums of at most n posts.
Sums(counts, n) == {g \in [UpTo(n) -> Nat] :
    \A W \in UpTo(n) : g[W] = IF W = {} THEN 0 ELSE counts[AnyOf(W)] + g[W \ {AnyOf(W)}]}

LEMMA SumsExist ==
    ASSUME NEW counts \in [Posts -> Nat], NEW N \in Nat
    PROVE  Sums(counts, N) # {}
<1> DEFINE T == {n \in Nat : Sums(counts, n) = {}}
<1>1. Sums(counts, 0) # {}
  <2> DEFINE g == [W \in UpTo(0) |-> 0]
  <2>1. ASSUME NEW W \in UpTo(0)
        PROVE  W = {}
    <3>1. W \in SUBSET Posts /\ Cardinality(W) <= 0
      BY DEF UpTo
    <3>2. Cardinality(W) \in Nat /\ (Cardinality(W) = 0 <=> W = {})
      BY <3>1, Smaller, Zenon
    <3> QED
      BY <3>1, <3>2
  <2>2. g \in Sums(counts, 0)
    BY <2>1 DEF Sums
  <2> QED
    BY <2>2
<1>2. ASSUME NEW n \in Nat, Sums(counts, n) # {}
      PROVE  Sums(counts, n + 1) # {}
  <2>1. PICK g \in Sums(counts, n) : TRUE
    BY <1>2
  <2> DEFINE h == [W \in UpTo(n + 1) |-> IF W \in UpTo(n) THEN g[W]
                                         ELSE counts[AnyOf(W)] + g[W \ {AnyOf(W)}]]
  <2>2. /\ g \in [UpTo(n) -> Nat]
        /\ \A W \in UpTo(n) : g[W] = IF W = {} THEN 0
                                     ELSE counts[AnyOf(W)] + g[W \ {AnyOf(W)}]
    BY <2>1 DEF Sums
  <2>3. ASSUME NEW W \in UpTo(n + 1)
        PROVE  /\ W # {} => W \ {AnyOf(W)} \in UpTo(n) /\ counts[AnyOf(W)] \in Nat
                            /\ W \ {AnyOf(W)} \in UpTo(n + 1)
               /\ W = {} => W \in UpTo(n)
    <3>1. W \in SUBSET Posts /\ Cardinality(W) <= n + 1
      BY DEF UpTo
    <3>2. CASE W # {}
      <4>1. /\ AnyOf(W) \in W /\ W \ {AnyOf(W)} \in SUBSET Posts
            /\ Cardinality(W \ {AnyOf(W)}) = Cardinality(W) - 1 /\ Cardinality(W) \in Nat
        BY <3>1, <3>2, Smaller
      <4> QED
        BY <3>1, <3>2, <4>1 DEF UpTo
    <3>3. CASE W = {}
      <4>1. Cardinality(W) = 0
        BY <3>1, <3>3, Smaller
      <4> QED
        BY <3>1, <3>3, <4>1 DEF UpTo
    <3> QED
      BY <3>2, <3>3
  <2>4. h \in [UpTo(n + 1) -> Nat]
    BY <2>2, <2>3
  <2>5. ASSUME NEW W \in UpTo(n + 1)
        PROVE  h[W] = IF W = {} THEN 0 ELSE counts[AnyOf(W)] + h[W \ {AnyOf(W)}]
    BY <2>2, <2>3
  <2>6. h \in Sums(counts, n + 1)
    BY <2>4, <2>5 DEF Sums
  <2> QED
    BY <2>6
<1>3. ASSUME T # {}
      PROVE  FALSE
  <2>1. PICK x \in T : \A y \in T : x <= y
    BY <1>3, LeastNumber
  <2>2. x \in Nat /\ x # 0 /\ Sums(counts, x) = {}
    BY <1>1, <2>1
  <2>3. x - 1 \in Nat /\ x - 1 \notin T /\ (x - 1) + 1 = x
    BY <2>1, <2>2
  <2>4. Sums(counts, x - 1) # {}
    BY <2>3
  <2> QED
    BY <1>2, <2>2, <2>3, <2>4
<1> QED
  BY <1>3

Unfolds(counts, h) ==
    h = [W \in SUBSET Posts |-> IF W = {} THEN 0 ELSE counts[AnyOf(W)] + h[W \ {AnyOf(W)}]]

LEMMA TotalUnfolds ==
    ASSUME NEW counts \in [Posts -> Nat]
    PROVE  \E h : Unfolds(counts, h) /\ Total(counts) = h[Posts]
<1>1. Cardinality(Posts) \in Nat /\ UpTo(Cardinality(Posts)) = SUBSET Posts
  BY Smaller DEF UpTo
<1>2. PICK g \in Sums(counts, Cardinality(Posts)) : TRUE
  BY <1>1, SumsExist
<1>3. Unfolds(counts, g)
  BY <1>1, <1>2 DEF Sums, Unfolds
<1> QED
  BY <1>3 DEF Total, Unfolds

\* A family of sets of posts that has no smallest member is empty.
LEMMA NoSmallest ==
    ASSUME NEW F \in SUBSET (SUBSET Posts), {} \notin F,
           \A W \in F : W \ {AnyOf(W)} \in F
    PROVE  F = {}
<1> SUFFICES ASSUME F # {}
             PROVE  FALSE
  OBVIOUS
<1>1. PICK W \in F : \A V \in F : Cardinality(W) <= Cardinality(V)
  BY SmallestSet
<1>2. W \in SUBSET Posts /\ W # {}
  OBVIOUS
<1>3. /\ Cardinality(W) \in Nat
      /\ Cardinality(W \ {AnyOf(W)}) = Cardinality(W) - 1
  BY <1>2, Smaller, Zenon
<1>4. Cardinality(W) <= Cardinality(W \ {AnyOf(W)})
  BY <1>1
<1> QED
  BY <1>3, <1>4

\* A change of what one post counts changes the total by as much.
LEMMA TotalMoves ==
    ASSUME NEW f \in [Posts -> Nat], NEW g \in [Posts -> Nat], NEW r \in Posts,
           \A s \in Posts : s # r => g[s] = f[s]
    PROVE  Total(f) \in Nat /\ Total(g) \in Nat /\ Total(g) + f[r] = Total(f) + g[r]
<1>1. PICK hf : Unfolds(f, hf) /\ Total(f) = hf[Posts]
  BY TotalUnfolds
<1>2. PICK hg : Unfolds(g, hg) /\ Total(g) = hg[Posts]
  BY TotalUnfolds
<1> DEFINE Good(W) == /\ hf[W] \in Nat /\ hg[W] \in Nat
                      /\ r \in W => hg[W] + f[r] = hf[W] + g[r]
                      /\ r \notin W => hg[W] = hf[W]
           F == {W \in SUBSET Posts : ~Good(W)}
<1>3. \A W \in SUBSET Posts :
          /\ hf[W] = IF W = {} THEN 0 ELSE f[AnyOf(W)] + hf[W \ {AnyOf(W)}]
          /\ hg[W] = IF W = {} THEN 0 ELSE g[AnyOf(W)] + hg[W \ {AnyOf(W)}]
  BY <1>1, <1>2 DEF Unfolds
<1>4. Good({})
  <2>1. hf[{}] = 0 /\ hg[{}] = 0
    <3>1. {} \in SUBSET Posts
      OBVIOUS
    <3> QED
      BY <1>3, <3>1, Zenon
  <2> QED
    BY <2>1
<1>5. ASSUME NEW W \in SUBSET Posts, W # {}, Good(W \ {AnyOf(W)})
      PROVE  Good(W)
  <2>1. AnyOf(W) \in W
    BY <1>5 DEF AnyOf
  <2>2. AnyOf(W) \in Posts /\ f[AnyOf(W)] \in Nat /\ g[AnyOf(W)] \in Nat
        /\ f[r] \in Nat /\ g[r] \in Nat
    BY <2>1
  <2>3. /\ hf[W] = f[AnyOf(W)] + hf[W \ {AnyOf(W)}]
        /\ hg[W] = g[AnyOf(W)] + hg[W \ {AnyOf(W)}]
    BY <1>3, <1>5
  <2>4. CASE AnyOf(W) = r
    BY <1>5, <2>1, <2>2, <2>3, <2>4
  <2>5. CASE AnyOf(W) # r
    <3>1. g[AnyOf(W)] = f[AnyOf(W)] /\ (r \in W <=> r \in W \ {AnyOf(W)})
      BY <2>2, <2>5
    <3> QED
      BY <1>5, <2>2, <2>3, <3>1
  <2> QED
    BY <2>4, <2>5
<1>6. F = {}
  <2>1. F \in SUBSET (SUBSET Posts) /\ {} \notin F
    BY <1>4
  <2>2. ASSUME NEW W \in F
        PROVE  W \ {AnyOf(W)} \in F
    <3>1. W \in SUBSET Posts /\ W # {} /\ ~Good(W) /\ W \ {AnyOf(W)} \in SUBSET Posts
      BY <2>1
    <3> HIDE DEF Good
    <3>2. ~Good(W \ {AnyOf(W)})
      BY <1>5, <3>1
    <3> QED
      BY <3>1, <3>2
  <2> HIDE DEF F
  <2> QED
    BY <2>1, <2>2, NoSmallest
<1>7. Good(Posts)
  <2>1. Posts \in SUBSET Posts
    OBVIOUS
  <2> HIDE DEF Good
  <2> QED
    BY <1>6, <2>1
<1> QED
  BY <1>1, <1>2, <1>7

LEMMA TotalOfNothing ==
    ASSUME NEW f \in [Posts -> Nat], \A s \in Posts : f[s] = 0
    PROVE  Total(f) = 0
<1>1. PICK h : Unfolds(f, h) /\ Total(f) = h[Posts]
  BY TotalUnfolds
<1> DEFINE F == {W \in SUBSET Posts : h[W] # 0}
<1>2. \A W \in SUBSET Posts : h[W] = IF W = {} THEN 0 ELSE f[AnyOf(W)] + h[W \ {AnyOf(W)}]
  BY <1>1 DEF Unfolds
<1>3. F \in SUBSET (SUBSET Posts) /\ {} \notin F
  BY <1>2
<1>4. ASSUME NEW W \in F
      PROVE  W \ {AnyOf(W)} \in F
  <2>1. W \in SUBSET Posts /\ W # {} /\ W \ {AnyOf(W)} \in SUBSET Posts
    BY <1>3
  <2>2. AnyOf(W) \in Posts
    BY <2>1 DEF AnyOf
  <2>3. h[W] = 0 + h[W \ {AnyOf(W)}] /\ h[W] # 0
    BY <1>2, <2>1, <2>2
  <2>4. h[W \ {AnyOf(W)}] # 0
    BY <2>3
  <2> QED
    BY <2>1, <2>4
<1>5. F = {}
  <2> HIDE DEF F
  <2> QED
    BY <1>3, <1>4, NoSmallest
<1> QED
  BY <1>1, <1>5

-----------------------------------------------------------------------------
(***************************************************************************)
(* Every refused request is in a written row, in the row a fire or stop()  *)
(* is writing, or pending; only a flushing fire holds a row.               *)
(***************************************************************************)
StopCount(k) == IF stopRow[1] = k THEN CountOf(stopRow[2]) ELSE 0

Accounted(k) ==
    /\ told[k] + Unwritten(k) <= hits[k]
    /\ k \notin cut => told[k] + Unwritten(k) = hits[k]

RowsHeld == \A r \in Posts : pc[r] # "flushing" => row[r] = NoRow

NothingLeft ==
    /\ \A k \in Armed : pending[k] = NoRow
    /\ stopRow[2] = NoRow
    /\ \A r \in Posts : pc[r] \notin {"flushing", "recording"}

AccountInv ==
    /\ TypeOK /\ RowsHeld
    /\ phase # "running" => \A r \in Posts : pc[r] # "recording"
    /\ phase = "stopped" => NothingLeft
    /\ \A k \in Armed : Accounted(k)

\* A trigger.suppressed row is not the missing one, and it counts something.
LEMMA RowIsARow ==
    ASSUME NEW x \in SupRow
    PROVE  x # NoRow /\ x.count \in Nat /\ CountOf(x) = x.count
<1>1. x \in [count : Nat, first : Nat, last : Nat]
  BY WebhookAssumption DEF SupRow, Moments
<1> QED
  BY <1>1, WebhookAssumption DEF CountOf

\* What Unwritten adds up are numbers.
LEMMA Parts ==
    TypeOK => \A k \in Armed :
        /\ RowCounts(k) \in [Posts -> Nat]
        /\ Total(RowCounts(k)) \in Nat
        /\ CountOf(pending[k]) \in Nat /\ StopCount(k) \in Nat
        /\ told[k] \in Nat /\ hits[k] \in Nat
        /\ Unwritten(k) = Total(RowCounts(k)) + CountOf(pending[k]) + StopCount(k)
<1> SUFFICES ASSUME TypeOK, NEW k \in Armed
             PROVE  /\ RowCounts(k) \in [Posts -> Nat]
                    /\ Total(RowCounts(k)) \in Nat
                    /\ CountOf(pending[k]) \in Nat /\ StopCount(k) \in Nat
                    /\ told[k] \in Nat /\ hits[k] \in Nat
                    /\ Unwritten(k) = Total(RowCounts(k)) + CountOf(pending[k])
                                          + StopCount(k)
  OBVIOUS
<1>1. ASSUME NEW x \in SupRow \cup {NoRow}
      PROVE  CountOf(x) \in Nat
  BY <1>1, RowIsARow DEF CountOf
<1>2. \A r \in Posts : row[r] \in SupRow \cup {NoRow}
  BY DEF TypeOK, CoolTypeOK
<1>3. RowCounts(k) \in [Posts -> Nat]
  BY <1>1, <1>2 DEF RowCounts
<1>4. Total(RowCounts(k)) \in Nat
  <2>1. PICK h : Unfolds(RowCounts(k), h) /\ Total(RowCounts(k)) = h[Posts]
    BY <1>3, TotalUnfolds
  <2>2. CASE Posts = {}
    <3>1. Posts \in SUBSET Posts
      OBVIOUS
    <3>2. h[Posts] = 0
      BY <2>1, <2>2, <3>1 DEF Unfolds
    <3> QED
      BY <2>1, <3>2
  <2>3. CASE Posts # {}
    <3>1. PICK r \in Posts : TRUE
      BY <2>3
    <3> QED
      BY <1>3, <3>1, TotalMoves
  <2> QED
    BY <2>2, <2>3
<1>5. CountOf(pending[k]) \in Nat
  BY <1>1 DEF TypeOK, CoolTypeOK
<1>6. StopCount(k) \in Nat
  <2>1. stopRow[2] \in SupRow \cup {NoRow}
    BY DEF TypeOK, CoolTypeOK
  <2> QED
    BY <1>1, <2>1 DEF StopCount
<1> QED
  BY <1>3, <1>4, <1>5, <1>6 DEF TypeOK, CoolTypeOK, Unwritten, StopCount

\* A step that touches no row and no number.
Quiet ==
    /\ UNCHANGED <<pending, row, stopRow, told, hits, cut>>
    /\ \A s \in Posts : target'[s] = target[s] \/ row[s] = NoRow

LEMMA QuietKeeps ==
    ASSUME Quiet, NEW k \in Armed, Accounted(k)
    PROVE  Accounted(k)'
<1>1. RowCounts(k)' = RowCounts(k)
  BY DEF Quiet, RowCounts, CountOf
<1>2. Unwritten(k)' = Unwritten(k)
  BY <1>1 DEF Quiet, Unwritten
<1> QED
  BY <1>2 DEF Quiet, Accounted

Held ==
    /\ RowsHeld
    /\ phase # "running" => \A r \in Posts : pc[r] # "recording"
    /\ phase = "stopped" => NothingLeft

LEMMA HeldStep == AccountInv /\ [Next]_vars => Held'
<1> SUFFICES ASSUME AccountInv, [Next]_vars PROVE Held'
  OBVIOUS
<1> USE DEF AccountInv, Held, RowsHeld, NothingLeft, TypeOK, RouteTypeOK, CoolTypeOK
<1>1. ASSUME NEW r \in Posts, NEW k \in Names, TooLarge(r, k) PROVE Held'
  BY <1>1 DEF TooLarge, Arrives, Respond, Goto, coolVars
<1>2. ASSUME NEW r \in Posts, NEW k \in Names, Unknown(r, k) PROVE Held'
  BY <1>2 DEF Unknown, Arrives, Respond, Goto, coolVars
<1>3. ASSUME NEW r \in Posts, NEW k \in Names, Unauthorized(r, k) PROVE Held'
  BY <1>3 DEF Unauthorized, Arrives, Respond, Goto, coolVars
<1>4. ASSUME NEW r \in Posts, NEW k \in Names, Suppress(r, k) PROVE Held'
  BY <1>4 DEF Suppress, Arrives, Respond, Goto, coolVars
<1>5. ASSUME NEW r \in Posts, NEW k \in Names, Accept(r, k) PROVE Held'
  BY <1>5 DEF Accept, Arrives, Goto, coolVars
<1>6. ASSUME NEW r \in Posts, Received(r) PROVE Held'
  BY <1>6 DEF Received, Goto, coolVars
<1>7. ASSUME NEW r \in Posts, ReceivedFails(r) PROVE Held'
  BY <1>7 DEF ReceivedFails, Respond, Goto, coolVars
<1>8. ASSUME NEW r \in Posts, Fire(r) PROVE Held'
  BY <1>8 DEF Fire, MarkFired, Goto, Alive
<1>9. ASSUME NEW r \in Posts, FlushFirst(r) PROVE Held'
  BY <1>9 DEF FlushFirst, Goto, Alive, Popped
<1>10. ASSUME NEW r \in Posts, FlushWritten(r) PROVE Held'
  BY <1>10 DEF FlushWritten, MarkFired, Goto, Alive
<1>11. ASSUME NEW r \in Posts, FlushFails(r) PROVE Held'
  BY <1>11 DEF FlushFails, Goto, Alive
<1>12. ASSUME NEW r \in Posts, FireReturns(r) PROVE Held'
  BY <1>12 DEF FireReturns, Goto, Alive, coolVars
<1>13. ASSUME NEW r \in Posts, FireRaises(r) PROVE Held'
  BY <1>13 DEF FireRaises, Goto, Alive, coolVars
<1>14. ASSUME NEW r \in Posts, Reported(r) PROVE Held'
  BY <1>14 DEF Reported, Goto, Alive, coolVars
<1>15. ASSUME NEW k \in Armed, StopFlush(k) PROVE Held'
  BY <1>15 DEF StopFlush, Popped
<1>16. CASE Stop
  BY <1>16 DEF Stop, coolVars
<1>17. CASE StopFlushWritten
  BY <1>17 DEF StopFlushWritten
<1>18. CASE StopFlushFails
  BY <1>18 DEF StopFlushFails
<1>19. CASE Stopped
  BY <1>19 DEF Stopped, Running, coolVars
<1>20. CASE Tick
  BY <1>20 DEF Tick, Alive, coolVars
<1>21. CASE UNCHANGED vars
  BY <1>21 DEF vars, coolVars
<1> QED
  BY <1>1, <1>2, <1>3, <1>4, <1>5, <1>6, <1>7, <1>8, <1>9,
     <1>10, <1>11, <1>12, <1>13, <1>14, <1>15, <1>16, <1>17, <1>18,
     <1>19, <1>20, <1>21
     DEF Next, Route, Task, Stopping

\* The steps that neither add a refusal nor move a row.
LEMMA QuietSteps ==
    ASSUME AccountInv,
           \/ \E r \in Posts : \/ \E j \in Names : \/ TooLarge(r, j) \/ Unknown(r, j)
                                                  \/ Unauthorized(r, j) \/ Accept(r, j)
                               \/ Received(r) \/ ReceivedFails(r) \/ Fire(r)
                               \/ FireReturns(r) \/ FireRaises(r) \/ Reported(r)
           \/ Stop \/ Stopped \/ Tick \/ UNCHANGED vars
    PROVE  Quiet
<1> USE DEF AccountInv, RowsHeld, TypeOK, RouteTypeOK, Quiet
<1>1. ASSUME NEW r \in Posts, NEW j \in Names, TooLarge(r, j) PROVE Quiet
  BY <1>1 DEF TooLarge, Arrives, coolVars
<1>2. ASSUME NEW r \in Posts, NEW j \in Names, Unknown(r, j) PROVE Quiet
  BY <1>2 DEF Unknown, Arrives, coolVars
<1>3. ASSUME NEW r \in Posts, NEW j \in Names, Unauthorized(r, j) PROVE Quiet
  BY <1>3 DEF Unauthorized, Arrives, coolVars
<1>4. ASSUME NEW r \in Posts, NEW j \in Names, Accept(r, j) PROVE Quiet
  BY <1>4 DEF Accept, Arrives, coolVars
<1>5. ASSUME NEW r \in Posts, Received(r) PROVE Quiet
  BY <1>5 DEF Received, coolVars
<1>6. ASSUME NEW r \in Posts, ReceivedFails(r) PROVE Quiet
  BY <1>6 DEF ReceivedFails, coolVars
<1>7. ASSUME NEW r \in Posts, Fire(r) PROVE Quiet
  BY <1>7 DEF Fire
<1>8. ASSUME NEW r \in Posts, FireReturns(r) PROVE Quiet
  BY <1>8 DEF FireReturns, coolVars
<1>9. ASSUME NEW r \in Posts, FireRaises(r) PROVE Quiet
  BY <1>9 DEF FireRaises, coolVars
<1>10. ASSUME NEW r \in Posts, Reported(r) PROVE Quiet
  BY <1>10 DEF Reported, coolVars
<1>11. ASSUME Stop PROVE Quiet
  BY <1>11 DEF Stop, coolVars
<1>12. ASSUME Stopped PROVE Quiet
  BY <1>12 DEF Stopped, coolVars
<1>13. ASSUME Tick PROVE Quiet
  BY <1>13 DEF Tick, coolVars
<1>14. ASSUME UNCHANGED vars PROVE Quiet
  BY <1>14 DEF vars, coolVars
<1> QED
  BY <1>1, <1>2, <1>3, <1>4, <1>5, <1>6, <1>7, <1>8, <1>9, <1>10, <1>11, <1>12, <1>13, <1>14

\* A refusal is added to what is pending.
LEMMA SuppressAccounted ==
    ASSUME AccountInv, TypeOK', NEW r \in Posts, NEW j \in Names, Suppress(r, j),
           NEW k \in Armed
    PROVE  Accounted(k)'
<1>1. RowCounts(k)' = RowCounts(k)
  BY DEF Suppress, Arrives, AccountInv, RowsHeld, TypeOK, RouteTypeOK, RowCounts, CountOf
<1>2. StopCount(k)' = StopCount(k) /\ told'[k] = told[k] /\ cut' = cut
  BY DEF Suppress, StopCount
<1>3. \A x \in Armed : TypeOK => pending[x] \in SupRow \cup {NoRow}
  BY DEF TypeOK, CoolTypeOK
<1>4. \E d \in Nat : CountOf(pending'[k]) = CountOf(pending[k]) + d /\ hits'[k] = hits[k] + d
  <2>1. CASE k = j
    <3>1. pending'[k] = Counted(k) /\ hits'[k] = hits[k] + 1
      BY <2>1 DEF Suppress, AccountInv, TypeOK, CoolTypeOK
    <3>2. pending'[k] \in SupRow \cup {NoRow}
      BY DEF TypeOK, CoolTypeOK
    <3>3. CountOf(Counted(k)) = CountOf(pending[k]) + 1
      <4>1. clock \in Moments /\ clock \in Nat
        BY WebhookAssumption DEF AccountInv, TypeOK, RouteTypeOK, Moments
      <4>2. CASE pending[k] = NoRow
        <5>1. Counted(k) \in SupRow /\ Counted(k).count = 1
          BY <4>1, <4>2 DEF Counted, SupRow
        <5> QED
          BY <4>2, <5>1, RowIsARow DEF CountOf
      <4>3. CASE pending[k] # NoRow
        <5>1. pending[k] \in SupRow
          BY <1>3, <4>3 DEF AccountInv
        <5>2. Counted(k) \in SupRow /\ Counted(k).count = pending[k].count + 1
          BY <4>1, <4>3, <5>1 DEF Counted, SupRow
        <5> QED
          BY <5>1, <5>2, RowIsARow
      <4> QED
        BY <4>2, <4>3
    <3> QED
      BY <3>1, <3>3
  <2>2. CASE k # j
    <3>1. pending'[k] = pending[k] /\ hits'[k] = hits[k]
      BY <2>2 DEF Suppress, AccountInv, TypeOK, CoolTypeOK
    <3>2. CountOf(pending[k]) \in Nat /\ hits[k] \in Nat
      BY Parts DEF AccountInv
    <3> QED
      BY <3>1, <3>2
  <2> QED
    BY <2>1, <2>2
<1>5. PICK d \in Nat : /\ CountOf(pending'[k]) = CountOf(pending[k]) + d
                        /\ hits'[k] = hits[k] + d
  BY <1>4
<1>6. Unwritten(k)' = Total(RowCounts(k)') + CountOf(pending'[k]) + StopCount(k)'
  BY DEF Unwritten, StopCount
<1>7. /\ Total(RowCounts(k)) \in Nat /\ CountOf(pending[k]) \in Nat
      /\ StopCount(k) \in Nat /\ told[k] \in Nat /\ hits[k] \in Nat
      /\ Unwritten(k) = Total(RowCounts(k)) + CountOf(pending[k]) + StopCount(k)
  BY Parts DEF AccountInv
<1>8. Unwritten(k)' = Unwritten(k) + d /\ Unwritten(k) \in Nat
  BY <1>1, <1>2, <1>5, <1>6, <1>7
<1>9. Accounted(k)
  BY DEF AccountInv
<1> QED
  BY <1>2, <1>5, <1>7, <1>8, <1>9 DEF Accounted

\* What a fire's row counts for a trigger, before and after the row changes.
LEMMA RowMoves ==
    ASSUME AccountInv, TypeOK', target' = target, NEW r \in Posts, NEW k \in Armed,
           \A s \in Posts : s # r => row'[s] = row[s]
    PROVE  \E t, u, a, b \in Nat :
               /\ t = Total(RowCounts(k)) /\ u = Total(RowCounts(k)')
               /\ a = IF target[r] = k THEN CountOf(row[r]) ELSE 0
               /\ b = IF target[r] = k THEN CountOf(row'[r]) ELSE 0
               /\ u + a = t + b
<1>1. RowCounts(k) \in [Posts -> Nat]
  BY Parts DEF AccountInv
<1>2. RowCounts(k)' \in [Posts -> Nat]
  <2>1. \A s \in Posts : row'[s] \in SupRow \cup {NoRow}
    BY DEF TypeOK, CoolTypeOK
  <2>2. \A x \in SupRow \cup {NoRow} : CountOf(x) \in Nat
    BY RowIsARow DEF CountOf
  <2> QED
    BY <2>1, <2>2 DEF RowCounts
<1>3. \A s \in Posts : s # r => RowCounts(k)'[s] = RowCounts(k)[s]
  BY DEF RowCounts
<1>4. /\ Total(RowCounts(k)) \in Nat /\ Total(RowCounts(k)') \in Nat
      /\ Total(RowCounts(k)') + RowCounts(k)[r] = Total(RowCounts(k)) + RowCounts(k)'[r]
  BY <1>1, <1>2, <1>3, TotalMoves
<1>5. /\ RowCounts(k)[r] = IF target[r] = k THEN CountOf(row[r]) ELSE 0
      /\ RowCounts(k)'[r] = IF target[r] = k THEN CountOf(row'[r]) ELSE 0
  BY DEF RowCounts
<1>6. RowCounts(k)[r] \in Nat /\ RowCounts(k)'[r] \in Nat
  BY <1>1, <1>2
<1> QED
  BY <1>4, <1>5, <1>6

\* A fire takes what is pending for its trigger into its row.
LEMMA FlushFirstAccounted ==
    ASSUME AccountInv, TypeOK', NEW r \in Posts, FlushFirst(r), NEW k \in Armed
    PROVE  Accounted(k)'
<1>1. /\ target' = target /\ target[r] \in Armed /\ row[r] = NoRow
      /\ row' = [row EXCEPT ![r] = pending[target[r]]]
      /\ pending' = [pending EXCEPT ![target[r]] = NoRow]
      /\ row'[r] = pending[target[r]]
      /\ \A s \in Posts : s # r => row'[s] = row[s]
      /\ told' = told /\ hits' = hits /\ cut' = cut /\ StopCount(k)' = StopCount(k)
  BY DEF FlushFirst, Popped, AccountInv, RowsHeld, TypeOK, RouteTypeOK, CoolTypeOK, StopCount
<1>2. PICK t, u, a, b \in Nat :
               /\ t = Total(RowCounts(k)) /\ u = Total(RowCounts(k)')
               /\ a = IF target[r] = k THEN CountOf(row[r]) ELSE 0
               /\ b = IF target[r] = k THEN CountOf(row'[r]) ELSE 0
               /\ u + a = t + b
  BY <1>1, RowMoves
<1>3. CountOf(NoRow) = 0
  BY DEF CountOf
<1>4. a = 0 /\ b + CountOf(pending'[k]) = CountOf(pending[k])
  <2>1. CountOf(pending[k]) \in Nat
    BY Parts DEF AccountInv
  <2>2. CASE target[r] = k
    <3>1. pending'[k] = NoRow /\ row'[r] = pending[k]
      BY <1>1, <2>2 DEF AccountInv, TypeOK, CoolTypeOK
    <3> QED
      BY <1>1, <1>2, <1>3, <2>1, <2>2, <3>1
  <2>3. CASE target[r] # k
    <3>1. pending'[k] = pending[k]
      BY <1>1, <2>3 DEF AccountInv, TypeOK, CoolTypeOK
    <3> QED
      BY <1>2, <2>1, <2>3, <3>1
  <2> QED
    BY <2>2, <2>3
<1>5. CountOf(pending'[k]) \in Nat
  BY RowIsARow DEF TypeOK, CoolTypeOK, CountOf
<1>6. Unwritten(k)' = u + CountOf(pending'[k]) + StopCount(k)'
  BY <1>2 DEF Unwritten, StopCount
<1>7. /\ StopCount(k) \in Nat
      /\ Unwritten(k) = t + CountOf(pending[k]) + StopCount(k)
  BY <1>2, Parts DEF AccountInv
<1>8. Unwritten(k)' = Unwritten(k)
  BY <1>1, <1>2, <1>4, <1>5, <1>6, <1>7
<1>9. Accounted(k)
  BY DEF AccountInv
<1> QED
  BY <1>1, <1>8, <1>9 DEF Accounted

\* The row a fire wrote is told; a row it could not write is not, and its
\* trigger is cut.
LEMMA FlushEndAccounted ==
    ASSUME AccountInv, TypeOK', NEW r \in Posts, FlushWritten(r) \/ FlushFails(r),
           NEW k \in Armed
    PROVE  Accounted(k)'
<1>1. /\ target' = target /\ target[r] \in Armed /\ row[r] \in SupRow
      /\ row'[r] = NoRow
      /\ \A s \in Posts : s # r => row'[s] = row[s]
      /\ pending' = pending /\ hits' = hits /\ StopCount(k)' = StopCount(k)
  <2>1. /\ pc[r] = "flushing" /\ target' = target /\ pending' = pending
        /\ hits' = hits /\ stopRow' = stopRow /\ row' = [row EXCEPT ![r] = NoRow]
    BY DEF FlushWritten, FlushFails
  <2> QED
    BY <2>1 DEF AccountInv, TypeOK, RouteTypeOK, CoolTypeOK, StopCount
<1>2. PICK t, u, a, b \in Nat :
               /\ t = Total(RowCounts(k)) /\ u = Total(RowCounts(k)')
               /\ a = IF target[r] = k THEN CountOf(row[r]) ELSE 0
               /\ b = IF target[r] = k THEN CountOf(row'[r]) ELSE 0
               /\ u + a = t + b
  BY <1>1, RowMoves
<1>3. CountOf(row'[r]) = 0 /\ CountOf(row[r]) = row[r].count
  BY <1>1, RowIsARow DEF CountOf
<1>4. b = 0 /\ t = u + a
  BY <1>2, <1>3
<1>5. Unwritten(k)' = u + CountOf(pending[k]) + StopCount(k)
  BY <1>1, <1>2 DEF Unwritten, StopCount
<1>6. /\ StopCount(k) \in Nat /\ CountOf(pending[k]) \in Nat
      /\ told[k] \in Nat /\ hits[k] \in Nat
      /\ Unwritten(k) = t + CountOf(pending[k]) + StopCount(k)
  BY <1>2, Parts DEF AccountInv
<1>7. Unwritten(k) = Unwritten(k)' + a /\ Unwritten(k) \in Nat /\ Unwritten(k)' \in Nat
  BY <1>2, <1>4, <1>5, <1>6
<1>8. /\ told[k] + Unwritten(k) <= hits[k]
      /\ k \notin cut => told[k] + Unwritten(k) = hits[k]
  BY DEF AccountInv, Accounted
<1>9. CASE FlushWritten(r)
  <2>1. told'[k] = told[k] + a /\ cut' = cut
    <3>1. CASE target[r] = k
      BY <1>2, <1>3, <1>9, <3>1 DEF FlushWritten, AccountInv, TypeOK, CoolTypeOK
    <3>2. CASE target[r] # k
      BY <1>2, <1>6, <1>9, <3>2 DEF FlushWritten, AccountInv, TypeOK, CoolTypeOK
    <3> QED
      BY <3>1, <3>2
  <2> QED
    BY <1>1, <1>2, <1>6, <1>7, <1>8, <2>1 DEF Accounted
<1>10. CASE FlushFails(r)
  <2>1. told' = told /\ cut' = cut \cup {target[r]}
    BY <1>10 DEF FlushFails
  <2>2. k \notin cut' => a = 0
    BY <1>2, <2>1
  <2> QED
    BY <1>1, <1>2, <1>6, <1>7, <1>8, <2>1, <2>2 DEF Accounted
<1> QED
  BY <1>9, <1>10

\* stop() takes a pending row, writes it or fails to.
LEMMA StopAccounted ==
    ASSUME AccountInv, TypeOK', NEW k \in Armed,
           (\E j \in Armed : StopFlush(j)) \/ StopFlushWritten \/ StopFlushFails
    PROVE  Accounted(k)'
<1>1. RowCounts(k)' = RowCounts(k)
  <2>1. row' = row /\ target' = target
    BY DEF StopFlush, StopFlushWritten, StopFlushFails
  <2> QED
    BY <2>1 DEF RowCounts
<1>2. Unwritten(k)' = Total(RowCounts(k)) + CountOf(pending'[k]) + StopCount(k)'
  BY <1>1 DEF Unwritten, StopCount
<1>3. /\ Total(RowCounts(k)) \in Nat /\ CountOf(pending[k]) \in Nat
      /\ StopCount(k) \in Nat /\ told[k] \in Nat /\ hits[k] \in Nat
      /\ Unwritten(k) = Total(RowCounts(k)) + CountOf(pending[k]) + StopCount(k)
  BY Parts DEF AccountInv
<1>4. /\ told[k] + Unwritten(k) <= hits[k]
      /\ k \notin cut => told[k] + Unwritten(k) = hits[k]
  BY DEF AccountInv, Accounted
<1>5. CountOf(NoRow) = 0 /\ k # NoName
  BY WebhookAssumption DEF CountOf
<1>6. ASSUME NEW j \in Armed, StopFlush(j)
      PROVE  Accounted(k)'
  <2>1. /\ stopRow[2] = NoRow /\ stopRow' = <<j, pending[j]>>
        /\ pending' = [pending EXCEPT ![j] = NoRow]
        /\ told' = told /\ hits' = hits /\ cut' = cut
    BY <1>6 DEF StopFlush, Popped
  <2>2. StopCount(k) = 0
    BY <1>5, <2>1 DEF StopCount
  <2>3. CountOf(pending'[k]) + StopCount(k)' = CountOf(pending[k])
        /\ CountOf(pending'[k]) \in Nat /\ StopCount(k)' \in Nat
    <3>1. CASE k = j
      <4>1. pending'[k] = NoRow
        BY <2>1, <3>1 DEF AccountInv, TypeOK, CoolTypeOK
      <4>2. StopCount(k)' = CountOf(pending[k])
        BY <2>1, <3>1 DEF StopCount
      <4> QED
        BY <1>3, <1>5, <4>1, <4>2
    <3>2. CASE k # j
      <4>1. pending'[k] = pending[k] /\ StopCount(k)' = 0
        BY <2>1, <3>2 DEF AccountInv, TypeOK, CoolTypeOK, StopCount
      <4> QED
        BY <1>3, <4>1
    <3> QED
      BY <3>1, <3>2
  <2>4. Unwritten(k)' = Unwritten(k)
    BY <1>2, <1>3, <2>2, <2>3
  <2> QED
    BY <1>4, <2>1, <2>4 DEF Accounted
<1>7. CASE StopFlushWritten \/ StopFlushFails
  <2>1. /\ stopRow \in Armed \X SupRow /\ stopRow' = <<NoName, NoRow>>
        /\ pending' = pending /\ hits' = hits
    BY <1>7 DEF StopFlushWritten, StopFlushFails, AccountInv, TypeOK, CoolTypeOK
  <2>2. stopRow[1] \in Armed /\ CountOf(stopRow[2]) = stopRow[2].count
        /\ CountOf(stopRow[2]) \in Nat
    BY <2>1, RowIsARow
  <2>3. StopCount(k)' = 0
    BY <1>5, <2>1 DEF StopCount
  <2>4. Unwritten(k) = Unwritten(k)' + StopCount(k) /\ Unwritten(k)' \in Nat
    BY <1>2, <1>3, <2>1, <2>3
  <2>5. CASE StopFlushWritten
    <3>1. told'[k] = told[k] + StopCount(k) /\ cut' = cut
      <4>1. told' = [told EXCEPT ![stopRow[1]] = @ + stopRow[2].count] /\ cut' = cut
        BY <2>5 DEF StopFlushWritten
      <4>2. CASE stopRow[1] = k
        BY <2>2, <4>1, <4>2 DEF StopCount, AccountInv, TypeOK, CoolTypeOK
      <4>3. CASE stopRow[1] # k
        BY <1>3, <4>1, <4>3 DEF StopCount, AccountInv, TypeOK, CoolTypeOK
      <4> QED
        BY <4>2, <4>3
    <3> QED
      BY <1>3, <1>4, <2>1, <2>4, <3>1 DEF Accounted
  <2>6. CASE StopFlushFails
    <3>1. told' = told /\ cut' = cut \cup {stopRow[1]}
      BY <2>6 DEF StopFlushFails
    <3>2. k \notin cut' => StopCount(k) = 0
      BY <3>1 DEF StopCount
    <3> QED
      BY <1>3, <1>4, <2>1, <2>4, <3>1, <3>2 DEF Accounted
  <2> QED
    BY <1>7, <2>5, <2>6
<1> QED
  BY <1>6, <1>7

LEMMA AccountInit == Init => AccountInv
<1> SUFFICES ASSUME Init PROVE AccountInv
  OBVIOUS
<1>1. TypeOK
  BY TypeInit
<1>2. RowsHeld /\ phase = "running"
  BY DEF Init, RowsHeld
<1>3. ASSUME NEW k \in Armed
      PROVE  Accounted(k)
  <2>1. RowCounts(k) \in [Posts -> Nat] /\ \A s \in Posts : RowCounts(k)[s] = 0
    BY <1>1, Parts DEF Init, RowCounts, CountOf
  <2>2. Total(RowCounts(k)) = 0
    BY <2>1, TotalOfNothing
  <2>3. /\ told[k] = 0 /\ hits[k] = 0 /\ pending[k] = NoRow /\ stopRow[2] = NoRow
    BY DEF Init
  <2>4. CountOf(pending[k]) = 0 /\ StopCount(k) = 0
    BY <2>3 DEF CountOf, StopCount
  <2>5. Unwritten(k) = 0
    BY <1>1, <2>2, <2>4, Parts
  <2> QED
    BY <2>3, <2>5 DEF Accounted
<1> QED
  BY <1>1, <1>2, <1>3 DEF AccountInv

LEMMA AccountStep == AccountInv /\ [Next]_vars => AccountInv'
<1> SUFFICES ASSUME AccountInv, [Next]_vars PROVE AccountInv'
  OBVIOUS
<1>1. TypeOK'
  BY RouteTypeStep, CoolTypeStep DEF AccountInv, TypeOK
<1>2. Held'
  BY HeldStep
<1>3. ASSUME NEW k \in Armed
      PROVE  Accounted(k)'
  <2>1. ASSUME NEW r \in Posts, NEW j \in Names, Suppress(r, j)
        PROVE  Accounted(k)'
    BY <1>1, <2>1, SuppressAccounted
  <2>2. ASSUME NEW r \in Posts, FlushFirst(r)
        PROVE  Accounted(k)'
    BY <1>1, <2>2, FlushFirstAccounted
  <2>3. ASSUME NEW r \in Posts, FlushWritten(r) \/ FlushFails(r)
        PROVE  Accounted(k)'
    BY <1>1, <2>3, FlushEndAccounted
  <2>4. CASE (\E j \in Armed : StopFlush(j)) \/ StopFlushWritten \/ StopFlushFails
    BY <1>1, <2>4, StopAccounted
  <2>5. CASE \/ \E r \in Posts : \/ \E j \in Names : \/ TooLarge(r, j) \/ Unknown(r, j)
                                                    \/ Unauthorized(r, j) \/ Accept(r, j)
                                 \/ Received(r) \/ ReceivedFails(r) \/ Fire(r)
                                 \/ FireReturns(r) \/ FireRaises(r) \/ Reported(r)
             \/ Stop \/ Stopped \/ Tick \/ UNCHANGED vars
    <3>1. Quiet
      BY <2>5, QuietSteps
    <3>2. Accounted(k)
      BY DEF AccountInv
    <3> QED
      BY <3>1, <3>2, QuietKeeps
  <2> QED
    BY <2>1, <2>2, <2>3, <2>4, <2>5 DEF Next, Route, Task, Stopping
<1> QED
  BY <1>1, <1>2, <1>3 DEF AccountInv, Held

LEMMA NothingForgotten == AccountInv => SuppressionsAccounted
<1> SUFFICES ASSUME AccountInv, NEW k \in Armed
             PROVE  /\ Accounted(k)
                    /\ phase = "stopped" => Unwritten(k) = 0
  BY DEF SuppressionsAccounted, Accounted
<1>1. Accounted(k)
  BY DEF AccountInv
<1>2. ASSUME phase = "stopped"
      PROVE  Unwritten(k) = 0
  <2>1. NothingLeft
    BY <1>2 DEF AccountInv
  <2>2. \A s \in Posts : RowCounts(k)[s] = 0
    BY <2>1 DEF AccountInv, RowsHeld, NothingLeft, RowCounts, CountOf
  <2>3. Total(RowCounts(k)) = 0
    BY <2>2, Parts, TotalOfNothing DEF AccountInv
  <2>4. CountOf(pending[k]) = 0 /\ StopCount(k) = 0
    BY <2>1 DEF NothingLeft, CountOf, StopCount
  <2> QED
    BY <2>3, <2>4, Parts DEF AccountInv
<1> QED
  BY <1>1, <1>2

(***************************************************************************)
(* However fires and stop() interleave their flushes of one trigger, no    *)
(* refused request is reported twice, none is forgotten while no row is    *)
(* lost, and nothing is left once stop() has returned.                     *)
(***************************************************************************)
THEOREM RefusalsAreAccounted == Spec => []SuppressionsAccounted
  BY AccountInit, AccountStep, NothingForgotten, PTL DEF Spec

-----------------------------------------------------------------------------
(***************************************************************************)
(* The cooldown, while no two requests for one trigger are under way.      *)
(* What makes it inductive: a request under way is still out of the        *)
(* cooldown it was judged by.                                              *)
(***************************************************************************)
StillOut == \A r \in UnderWay : ~IsInCooldown(target[r])

\* The trigger of a request under way is armed, and times are numbers.
LEMMA UnderWayArmed ==
    ASSUME TypeOK
    PROVE  /\ UnderWay \subseteq Posts /\ \A r \in UnderWay : target[r] \in Armed
           /\ clock \in Nat /\ last \in [Armed -> Nat \cup {Never}]
           /\ hits \in [Armed -> Nat] /\ CooldownOf \in [Armed -> Nat]
  BY WebhookAssumption DEF UnderWay, TypeOK, RouteTypeOK, CoolTypeOK, Moments

\* The steps that move no cooldown and let no request through.
Calm == UNCHANGED <<clock, last, hits>> /\ UnderWay' \subseteq UnderWay
           /\ \A r \in UnderWay' : target'[r] = target[r]

\* The steps that mark a request as fired.
Marks(r) == Fire(r) \/ FlushWritten(r)

\* Every step judges a request, marks one as fired, lets time pass or is calm.
LEMMA CooldownSteps ==
    ASSUME TypeOK, [Next]_vars
    PROVE  \/ \E r \in Posts, k \in Names : Suppress(r, k) \/ Accept(r, k)
           \/ \E r \in Posts : Marks(r)
           \/ Tick
           \/ Calm
<1> USE DEF TypeOK, RouteTypeOK
<1>1. ASSUME NEW r \in Posts, NEW k \in Names,
             TooLarge(r, k) \/ Unknown(r, k) \/ Unauthorized(r, k)
      PROVE  Calm
  BY <1>1 DEF TooLarge, Unknown, Unauthorized, Arrives, Respond, Goto, Calm, UnderWay, coolVars
<1>2. ASSUME NEW r \in Posts, Received(r) \/ ReceivedFails(r)
      PROVE  Calm
  BY <1>2 DEF Received, ReceivedFails, Respond, Goto, Calm, UnderWay, coolVars
<1>3. ASSUME NEW r \in Posts, FlushFirst(r) \/ FlushFails(r)
      PROVE  Calm
  BY <1>3 DEF FlushFirst, FlushFails, Goto, Calm, UnderWay, coolVars
<1>4. ASSUME NEW r \in Posts, FireReturns(r) \/ FireRaises(r) \/ Reported(r)
      PROVE  Calm
  BY <1>4 DEF FireReturns, FireRaises, Reported, Goto, Calm, UnderWay, coolVars
<1>5. CASE Stop \/ Stopped \/ UNCHANGED vars
  BY <1>5 DEF Stop, Stopped, Calm, UnderWay, vars, coolVars
<1>6. CASE StopFlushWritten \/ StopFlushFails
  BY <1>6 DEF StopFlushWritten, StopFlushFails, Calm, UnderWay
<1>7. ASSUME NEW k \in Armed, StopFlush(k)
      PROVE  Calm
  BY <1>7 DEF StopFlush, Calm, UnderWay
<1> QED
  BY <1>1, <1>2, <1>3, <1>4, <1>5, <1>6, <1>7 DEF Next, Route, Task, Stopping, Marks

\* What a step that marks a request does to the cooldowns.
LEMMA MarkMoves ==
    ASSUME TypeOK, NEW r \in Posts, Marks(r)
    PROVE  /\ r \in UnderWay /\ UnderWay' = UnderWay \ {r}
           /\ last' = [last EXCEPT ![target[r]] = clock]
           /\ UNCHANGED <<clock, hits, target>>
<1>1. CASE Fire(r)
  BY <1>1 DEF Fire, MarkFired, Goto, UnderWay, TypeOK, RouteTypeOK
<1>2. CASE FlushWritten(r)
  BY <1>2 DEF FlushWritten, MarkFired, Goto, UnderWay, TypeOK, RouteTypeOK
<1> QED
  BY <1>1, <1>2 DEF Marks

\* One by one, a request stays out of its trigger's cooldown until it is marked.
LEMMA StillOutStep == TypeOK /\ OneByOne /\ StillOut /\ [Next]_vars => StillOut'
<1> SUFFICES ASSUME TypeOK, OneByOne, StillOut, [Next]_vars, NEW s \in UnderWay'
             PROVE  ~IsInCooldown(target[s])'
  BY DEF StillOut
<1>1. ASSUME NEW r \in Posts, NEW k \in Names, Suppress(r, k)
      PROVE  ~IsInCooldown(target[s])'
  BY <1>1 DEF Suppress, Arrives, Respond, Goto, IsInCooldown, StillOut, UnderWay, TypeOK, RouteTypeOK
<1>2. ASSUME NEW r \in Posts, NEW k \in Names, Accept(r, k)
      PROVE  ~IsInCooldown(target[s])'
  BY <1>2 DEF Accept, Arrives, Goto, IsInCooldown, StillOut, UnderWay, TypeOK, RouteTypeOK, coolVars
<1>3. ASSUME NEW r \in Posts, Marks(r)
      PROVE  ~IsInCooldown(target[s])'
  <2>1. /\ r \in UnderWay /\ s \in UnderWay /\ s # r
        /\ last' = [last EXCEPT ![target[r]] = clock] /\ clock' = clock /\ target' = target
    BY <1>3, MarkMoves
  <2>2. target[s] # target[r] /\ target[s] \in Armed
    BY <2>1, UnderWayArmed DEF OneByOne
  <2>3. last'[target[s]] = last[target[s]]
    BY <2>1, <2>2, UnderWayArmed
  <2> QED
    BY <2>1, <2>3 DEF StillOut, IsInCooldown
<1>4. CASE Tick
  <2>1. s \in UnderWay /\ target' = target /\ last' = last /\ clock' = clock + 1
    BY <1>4 DEF Tick, UnderWay, coolVars
  <2>2. ~IsInCooldown(target[s]) /\ target[s] \in Armed
    BY <2>1, UnderWayArmed DEF StillOut
  <2>3. /\ clock \in Nat /\ CooldownOf[target[s]] \in Nat
        /\ last[target[s]] \in Nat \cup {Never}
    BY <2>2, UnderWayArmed
  <2> QED
    BY <2>1, <2>2, <2>3 DEF IsInCooldown, Never
<1>5. CASE Calm
  BY <1>5 DEF Calm, StillOut, IsInCooldown
<1> QED
  BY <1>1, <1>2, <1>3, <1>4, <1>5, CooldownSteps

\* The clock judges a trigger as the abstract cooldown does.
LEMMA SameVerdict ==
    ASSUME NEW k \in Armed PROVE CD(k)!InCooldown <=> IsInCooldown(k)
  BY DEF CD!InCooldown, CD!Never, IsInCooldown, Never

\* One by one, every step is, for every trigger, a step of the abstract cooldown or none.
LEMMA CooldownRefined ==
    ASSUME TypeOK, StillOut, [Next]_vars, NEW k \in Armed
    PROVE  [CD(k)!Next]_(CD(k)!cooldownVars)
<1>1. ASSUME NEW r \in Posts, NEW j \in Names, Suppress(r, j)
      PROVE  [CD(k)!Next]_(CD(k)!cooldownVars)
  <2>1. IsInCooldown(j) /\ hits' = [hits EXCEPT ![j] = @ + 1] /\ UNCHANGED <<clock, last>>
    BY <1>1 DEF Suppress
  <2>2. CASE j = k
    <3>1. CD(k)!Refuse
      BY <2>1, <2>2, SameVerdict, UnderWayArmed DEF CD!Refuse
    <3> QED
      BY <3>1 DEF CD!Next
  <2>3. CASE j # k
    BY <2>1, <2>3, UnderWayArmed DEF CD!cooldownVars
  <2> QED
    BY <2>2, <2>3
<1>2. ASSUME NEW r \in Posts, NEW j \in Names, Accept(r, j)
      PROVE  [CD(k)!Next]_(CD(k)!cooldownVars)
  BY <1>2 DEF Accept, coolVars, CD!cooldownVars
<1>3. ASSUME NEW r \in Posts, Marks(r)
      PROVE  [CD(k)!Next]_(CD(k)!cooldownVars)
  <2>1. /\ r \in UnderWay /\ last' = [last EXCEPT ![target[r]] = clock]
        /\ UNCHANGED <<clock, hits>> /\ ~IsInCooldown(target[r])
    BY <1>3, MarkMoves DEF StillOut
  <2>2. CASE target[r] = k
    <3>1. CD(k)!Allow
      BY <2>1, <2>2, SameVerdict, UnderWayArmed DEF CD!Allow
    <3> QED
      BY <3>1 DEF CD!Next
  <2>3. CASE target[r] # k
    BY <2>1, <2>3, UnderWayArmed DEF CD!cooldownVars
  <2> QED
    BY <2>2, <2>3
<1>4. CASE Tick
  <2>1. clock' = clock + 1 /\ UNCHANGED <<last, hits>> /\ clock \in Nat
    BY <1>4, UnderWayArmed DEF Tick, coolVars
  <2>2. CD(k)!Pass
    BY <2>1 DEF CD!Pass
  <2> QED
    BY <2>2 DEF CD!Next
<1>5. CASE Calm
  BY <1>5 DEF Calm, CD!cooldownVars
<1> QED
  BY <1>1, <1>2, <1>3, <1>4, <1>5, CooldownSteps

(***************************************************************************)
(* As long as no two POSTs to one trigger are under way together, each     *)
(* webhook implements the abstract cooldown, as an HA trigger does always  *)
(* ("same suppression semantics as HA events", docs/PROACTIVE-CAESAR.md).  *)
(***************************************************************************)
THEOREM CooldownKeptOneByOne == Spec /\ []OneByOne => CooldownKept
<1>1. Init => StillOut
  BY DEF Init, StillOut, UnderWay
<1>2. Init => \A k \in Armed : CD(k)!Init
  BY DEF Init, CD!Init, CD!Never, Never
<1>3. TypeOK /\ StillOut /\ [Next]_vars
        => \A k \in Armed : [CD(k)!Next]_(CD(k)!cooldownVars)
  BY CooldownRefined
<1>4. Spec => []TypeOK
  BY TypeCorrect
<1> QED
  BY <1>1, <1>2, <1>3, <1>4, StillOutStep, PTL DEF Spec, CooldownKept

=============================================================================
