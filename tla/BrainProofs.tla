----------------------------- MODULE BrainProofs -----------------------------
(***************************************************************************)
(* Theorems about Legion, Policy and Brain for every value of their        *)
(* constants: what the Legion promises, what the rules of a policy mean,   *)
(* that the brain drives the Legion as it may be driven, so that what is   *)
(* proved of the Legion holds under the brain, and what the brain promises *)
(* of its own.                                                             *)
(***************************************************************************)
EXTENDS Brain, FiniteSetTheorems, WellFoundedInduction, TLAPS

-----------------------------------------------------------------------------
(***************************************************************************)
(* The Legion.                                                             *)
(***************************************************************************)
\* The first id of a cycle exists: a nonempty set of ids has one of least rank.
LEMMA FirstIsLeast ==
    ASSUME rank \in [Ids -> Nat], NEW S \in SUBSET Ids, S # {}
    PROVE  First(S) \in S /\ \A j \in S : rank[First(S)] <= rank[j]
<1> DEFINE Ranks == {rank[i] : i \in S}
           Less  == {p \in Nat \X Nat : p[1] < p[2]}
<1>1. Ranks \subseteq Nat /\ Ranks # {}
  OBVIOUS
<1>2. IsWellFoundedOn(Less, Nat)
  <2>1. OpToRel(<, Nat) = Less
    BY Zenon DEF OpToRel
  <2> QED
    BY <2>1, NatLessThanWellFounded, Zenon
<1>3. \E n \in Ranks : \A m \in Ranks : n <= m
  <2> HIDE DEF Less, Ranks
  <2>1. PICK n \in Ranks : \A m \in Ranks : <<m, n>> \notin Less
    BY <1>1, <1>2, WFMin, Zenon
  <2>2. ASSUME NEW m \in Ranks PROVE n <= m
    <3>1. m \in Nat /\ n \in Nat
      BY <1>1
    <3>2. m < n => <<m, n>> \in Less
      BY <3>1 DEF Less
    <3> QED
      BY <3>1, <3>2, <2>1
  <2> QED
    BY <2>2
<1>4. \E i \in S : \A j \in S : rank[i] <= rank[j]
  BY <1>3
<1> QED
  BY <1>4 DEF First

\* The id a dispatch picks advertises the capability.
LEMMA NextInIsMember ==
    ASSUME TypeOK, NEW cap \in Caps, Members(cap) # {}
    PROVE  NextIn(cap) \in Members(cap) /\ NextIn(cap) \in Ids
<1>1. Later(cap) \in SUBSET Ids /\ Members(cap) \in SUBSET Ids /\ rank \in [Ids -> Nat]
  BY DEF Later, Members, TypeOK
<1>2. CASE Later(cap) # {}
  BY <1>1, <1>2, FirstIsLeast DEF NextIn, Later
<1>3. CASE Later(cap) = {}
  BY <1>1, <1>3, FirstIsLeast DEF NextIn
<1> QED
  BY <1>2, <1>3

\* A new id's place in the ring is a positive natural number.
LEMMA NextRankIsNat ==
    ASSUME TypeOK
    PROVE  NextRank \in Nat
<1>1. IsFiniteSet({i \in Ids : rank[i] > 0})
  BY FS_Subset, LegionAssumption
<1> QED
  BY <1>1, FS_CardinalityType DEF NextRank

\* Below the bound, the task id a dispatch makes up is one of the task ids.
LEMMA FreshIsTask ==
    ASSUME TypeOK, NEW c \in Callers, seq[c] < MaxCalls
    PROVE  Fresh(c) \in Tasks /\ seq[c] + 1 \in 0 .. MaxCalls
  BY LegionAssumption DEF TypeOK, Fresh, Tasks

\* A task that a caller awaits is the one of its latest dispatch.
CurrentIsTask == \A c \in Callers : pc[c] # "idle" =>
    /\ Current(c) \in Tasks
    /\ want[Current(c)] \in Caps /\ to[Current(c)] \in Ids
    /\ pc[c] = "recording" => reply[Current(c)] # "none"

\* TypeOK alone is not inductive: the row that Record writes is well formed because
\* its task was dispatched and answered.
TypeInv == TypeOK /\ CurrentIsTask

\* The initial state is type correct.
LEMMA TypeInit == Init => TypeInv
<1> SUFFICES ASSUME Init PROVE TypeInv
  OBVIOUS
<1>1. CurrentIsTask
  BY DEF Init, CurrentIsTask
<1>2. rows \subseteq Row /\ res \in [Callers -> Results]
  BY DEF Init, Results
<1>3. regQ \in Seq(Registration) /\ inbox \in [Procs -> Seq(Tasks)]
  BY DEF Init
<1>4. /\ praetor \in BOOLEAN /\ boots \in Nat
      /\ known \in [Ids -> SUBSET Caps] /\ rank \in [Ids -> Nat]
      /\ cursor \in [Caps -> Nat] /\ picks \in [Caps -> [Ids -> Nat]]
  BY DEF Init
<1>5. /\ wpc \in [Procs -> {"down", "subscribed", "announced"}]
      /\ starts \in [Procs -> Nat] /\ job \in [Procs -> Tasks \cup {NoTask}]
      /\ verdict \in [Procs -> [Tasks -> {"none", "ok", "failed"}]]
      /\ begun \in [Procs -> [Tasks -> Nat]]
  BY DEF Init
<1>6. /\ pc \in [Callers -> {"idle", "waiting", "recording"}]
      /\ seq \in [Callers -> 0 .. MaxCalls]
      /\ want \in [Tasks -> Caps \cup {NoCap}] /\ to \in [Tasks -> Ids \cup {NoId}]
      /\ reply \in [Tasks -> {"none", "ok", "failed"}]
  BY LegionAssumption DEF Init
<1> QED
  BY <1>1, <1>2, <1>3, <1>4, <1>5, <1>6 DEF TypeInv, TypeOK

\* Each action keeps the types and keeps what a caller awaits a task of its own.
LEMMA TypeStep == TypeInv /\ [Next]_legionVars => TypeInv'
<1> SUFFICES ASSUME TypeInv, [Next]_legionVars PROVE TypeInv'
  OBVIOUS
<1> USE DEF TypeInv, registryVars, workerVars, callVars
<1>1. CASE StartPraetor
  BY <1>1 DEF StartPraetor, TypeOK, CurrentIsTask, Current
<1>2. CASE PraetorDown
  <2>1. CurrentIsTask'
    BY <1>2 DEF PraetorDown, CurrentIsTask
  <2>2. (rows \subseteq Row)' /\ (res \in [Callers -> Results])'
    BY <1>2 DEF PraetorDown, TypeOK, Results, Raised
  <2>3. (inbox \in [Procs -> Seq(Tasks)])' /\ (job \in [Procs -> Tasks \cup {NoTask}])'
    BY <1>2 DEF PraetorDown, TypeOK
  <2>4. (regQ \in Seq(Registration))'
    BY <1>2 DEF PraetorDown
  <2> QED
    BY <1>2, <2>1, <2>2, <2>3, <2>4 DEF PraetorDown, TypeOK
<1>3. CASE Register
  <2>1. CurrentIsTask'
    BY <1>3 DEF Register, CurrentIsTask, Current
  <2>0. Head(regQ) \in Registration
    BY <1>3 DEF Register, TypeOK
  <2>2. Head(regQ).id \in Ids /\ Head(regQ).caps \in SUBSET Caps
    BY <2>0 DEF Registration
  <2>3. (regQ \in Seq(Registration))'
    BY <1>3 DEF Register, TypeOK
  <2>4. (known \in [Ids -> SUBSET Caps])' /\ (rank \in [Ids -> Nat])'
    BY <1>3, <2>2, NextRankIsNat DEF Register, TypeOK
  <2> QED
    BY <1>3, <2>1, <2>3, <2>4 DEF Register, TypeOK
<1>4. ASSUME NEW p \in Procs, Subscribe(p) PROVE TypeInv'
  BY <1>4 DEF Subscribe, TypeOK, CurrentIsTask, Current
<1>5. ASSUME NEW p \in Procs, Announce(p) PROVE TypeInv'
  <2>1. CurrentIsTask'
    BY <1>5 DEF Announce, CurrentIsTask, Current
  <2>2. [id |-> IdOf[p], caps |-> Build[p]] \in Registration
    BY LegionAssumption DEF Registration
  <2>3. (regQ \in Seq(Registration))'
    BY <1>5, <2>2 DEF Announce, TypeOK
  <2> QED
    BY <1>5, <2>1, <2>3 DEF Announce, TypeOK
<1>6. ASSUME NEW p \in Procs, WorkerDown(p) PROVE TypeInv'
  BY <1>6 DEF WorkerDown, TypeOK, CurrentIsTask, Current
<1>7. ASSUME NEW p \in Procs, Take(p) PROVE TypeInv'
  <2>1. CurrentIsTask'
    BY <1>7 DEF Take, CurrentIsTask, Current
  <2>2. Head(inbox[p]) \in Tasks /\ Tail(inbox[p]) \in Seq(Tasks)
    BY <1>7 DEF Take, TypeOK
  <2>3. (begun \in [Procs -> [Tasks -> Nat]])'
    BY <1>7, <2>2 DEF Take, TypeOK
  <2>4. (inbox \in [Procs -> Seq(Tasks)])' /\ (job \in [Procs -> Tasks \cup {NoTask}])'
    BY <1>7, <2>2 DEF Take, TypeOK
  <2> QED
    BY <1>7, <2>1, <2>3, <2>4 DEF Take, TypeOK
<1>8. ASSUME NEW p \in Procs, NEW v \in {"ok", "failed"}, Finish(p, v) PROVE TypeInv'
  <2> DEFINE t == job[p]
  <2>1. t \in Tasks
    BY <1>8 DEF Finish, TypeOK
  <2>2. \/ reply' = reply
        \/ reply[t] = "none" /\ reply' = [reply EXCEPT ![t] = v]
    BY <1>8 DEF Finish, Respond
  <2>3. /\ verdict' = [verdict EXCEPT ![p][t] = v] /\ job' = [job EXCEPT ![p] = NoTask]
        /\ UNCHANGED <<praetor, boots, registryVars, wpc, starts, inbox, begun, pc, seq,
                       res, want, to, rows>>
    BY <1>8 DEF Finish
  <2> HIDE DEF t
  <2>4. (reply \in [Tasks -> {"none", "ok", "failed"}])'
    BY <1>8, <2>1, <2>2 DEF TypeOK
  <2>5. CurrentIsTask'
    <3> SUFFICES ASSUME NEW c \in Callers, pc'[c] # "idle"
                 PROVE  /\ Current(c)' \in Tasks
                        /\ want'[Current(c)'] \in Caps /\ to'[Current(c)'] \in Ids
                        /\ pc'[c] = "recording" => reply'[Current(c)'] # "none"
      BY DEF CurrentIsTask
    <3>1. Current(c)' = Current(c) /\ pc'[c] # "idle" /\ want' = want /\ to' = to /\ pc' = pc
      BY <2>3 DEF Current
    <3>2. /\ Current(c) \in Tasks /\ want[Current(c)] \in Caps /\ to[Current(c)] \in Ids
          /\ pc[c] = "recording" => reply[Current(c)] # "none"
      BY <3>1 DEF CurrentIsTask
    <3>3. reply[Current(c)] # "none" => reply'[Current(c)] # "none"
      BY <1>8, <2>1, <2>2, <3>2 DEF TypeOK
    <3> QED
      BY <3>1, <3>2, <3>3
  <2> QED
    BY <2>1, <2>3, <2>4, <2>5 DEF TypeOK, registryVars
<1>9. ASSUME NEW c \in Callers, Timeout(c) PROVE TypeInv'
  BY <1>9 DEF Timeout, GiveUp, MayTimeout, TypeOK, CurrentIsTask, Current, Results, Raised
<1>10. ASSUME NEW c \in Callers, Receive(c) PROVE TypeInv'
  BY <1>10 DEF Receive, TypeOK, CurrentIsTask, Current
<1>11. ASSUME NEW c \in Callers, Record(c) PROVE TypeInv'
  <2> DEFINE t == Current(c)
  <2>1. t \in Tasks /\ want[t] \in Caps /\ to[t] \in Ids /\ reply[t] \in {"ok", "failed"}
    BY <1>11 DEF Record, CurrentIsTask, TypeOK
  <2>2. RowOf(t) \in Row
    BY <2>1 DEF RowOf, Row
  <2>3. (rows \subseteq Row)'
    BY <1>11, <2>2 DEF Record, NewRows, TypeOK
  <2>4. (res \in [Callers -> Results])'
    BY <1>11, <2>1 DEF Record, TypeOK, Results
  <2>5. CurrentIsTask'
    BY <1>11 DEF Record, CurrentIsTask, Current, TypeOK
  <2> QED
    BY <1>11, <2>3, <2>4, <2>5 DEF Record, TypeOK
<1>12. ASSUME NEW c \in Callers, RecordFails(c) PROVE TypeInv'
  BY <1>12 DEF RecordFails, TypeOK, CurrentIsTask, Current, Results, Raised
<1>13. ASSUME NEW c \in Callers, NEW cap \in Caps, Dispatch(c, cap) PROVE TypeInv'
  <2> DEFINE i == NextIn(cap)
             t == Fresh(c)
  <2>1. i \in Ids /\ t \in Tasks /\ seq[c] + 1 \in 0 .. MaxCalls
    BY <1>13, NextInIsMember, FreshIsTask DEF Dispatch
  <2> HIDE DEF i, t
  <2>2. (cursor \in [Caps -> Nat])' /\ (picks \in [Caps -> [Ids -> Nat]])'
    BY <1>13, <2>1 DEF Dispatch, TypeOK, i
  <2>3. (want \in [Tasks -> Caps \cup {NoCap}])' /\ (to \in [Tasks -> Ids \cup {NoId}])'
    BY <1>13, <2>1 DEF Dispatch, TypeOK, i
  <2>4. (inbox \in [Procs -> Seq(Tasks)])'
    BY <1>13, <2>1 DEF Dispatch, Deliver, TypeOK, t
  <2>5. (seq \in [Callers -> 0 .. MaxCalls])' /\ (res \in [Callers -> Results])'
            /\ (pc \in [Callers -> {"idle", "waiting", "recording"}])'
    BY <1>13, <2>1 DEF Dispatch, TypeOK, Results, Raised
  <2>6. CurrentIsTask'
    <3> SUFFICES ASSUME NEW d \in Callers, pc'[d] # "idle"
                 PROVE  /\ Current(d)' \in Tasks
                        /\ want'[Current(d)'] \in Caps /\ to'[Current(d)'] \in Ids
                        /\ pc'[d] = "recording" => reply'[Current(d)'] # "none"
      BY DEF CurrentIsTask
    <3>1. CASE d = c
      <4>1. Current(d)' = t /\ pc'[d] # "recording"
        BY <1>13, <3>1 DEF Dispatch, Current, Fresh, TypeOK, t
      <4>2. want'[t] = cap /\ to'[t] = i
        BY <1>13, <2>1 DEF Dispatch, TypeOK, t, i
      <4> QED
        BY <2>1, <4>1, <4>2
    <3>2. CASE d # c
      <4>1. Current(d)' = Current(d) /\ pc'[d] = pc[d] /\ Current(d) # t
        BY <1>13, <3>2 DEF Dispatch, Current, Fresh, TypeOK, t
      <4>2. want'[Current(d)] = want[Current(d)] /\ to'[Current(d)] = to[Current(d)]
        BY <1>13, <4>1 DEF Dispatch, TypeOK, t, CurrentIsTask
      <4> QED
        BY <1>13, <4>1, <4>2 DEF Dispatch, CurrentIsTask
    <3> QED
      BY <3>1, <3>2
  <2> QED
    BY <1>13, <2>2, <2>3, <2>4, <2>5, <2>6 DEF Dispatch, TypeOK
<1>14. ASSUME NEW c \in Callers, NEW cap \in Caps, DispatchNoWorker(c, cap) PROVE TypeInv'
  BY <1>14, FreshIsTask
     DEF DispatchNoWorker, TypeOK, CurrentIsTask, Current, Results, Raised
<1>15. CASE UNCHANGED legionVars
  BY <1>15 DEF legionVars, TypeOK, CurrentIsTask, Current
<1> QED
  BY <1>1, <1>2, <1>3, <1>4, <1>5, <1>6, <1>7, <1>8, <1>9, <1>10, <1>11, <1>12, <1>13,
     <1>14, <1>15 DEF Next, Background, Await, Call

\* Every variable of the Legion keeps to its type.
THEOREM TypeCorrect == Spec => []TypeOK
<1>1. TypeInv => TypeOK
  BY DEF TypeInv
<1> QED
  BY <1>1, TypeInit, TypeStep, PTL DEF Spec

-----------------------------------------------------------------------------
(***************************************************************************)
(* At most once.  A queued task was dispatched, to this process's id, is   *)
(* queued once and was not begun; a begun one was begun once.  A task is   *)
(* finished only by the process that works on it, hence at most once.      *)
(***************************************************************************)
Issued(t) == t[2] <= seq[t[1]]

QueueInv == \A p \in Procs : \A i \in 1 .. Len(inbox[p]) :
    /\ Issued(inbox[p][i]) /\ to[inbox[p][i]] = IdOf[p]
    /\ begun[p][inbox[p][i]] = 0
    /\ \A j \in 1 .. Len(inbox[p]) : inbox[p][i] = inbox[p][j] => i = j

BegunInv == \A p \in Procs, t \in Tasks :
    /\ begun[p][t] <= 1
    /\ begun[p][t] > 0 => Issued(t) /\ to[t] = IdOf[p]
    /\ job[p] = t => begun[p][t] > 0 /\ verdict[p][t] = "none"
    /\ verdict[p][t] # "none" => begun[p][t] > 0

OnceInv == TypeInv /\ QueueInv /\ BegunInv

\* Initially nothing is queued and nothing has begun.
LEMMA OnceInit == Init => OnceInv
<1> SUFFICES ASSUME Init PROVE OnceInv
  OBVIOUS
<1>1. TypeInv
  BY TypeInit
<1>2. QueueInv
  BY DEF Init, QueueInv
<1>3. BegunInv
  BY NoTaskAssumption DEF Init, BegunInv
<1> QED
  BY <1>1, <1>2, <1>3 DEF OnceInv

\* The steps that leave the queues and the handlers alone.
Apart == /\ UNCHANGED <<inbox, begun, job, verdict, to>>
         /\ \A c \in Callers : seq'[c] >= seq[c]

\* A step that touches no queue, no job and no begun counter keeps the invariant.
LEMMA OnceApart == OnceInv /\ TypeInv' /\ Apart => QueueInv' /\ BegunInv'
<1> SUFFICES ASSUME OnceInv, TypeInv', Apart PROVE QueueInv' /\ BegunInv'
  OBVIOUS
<1>1. ASSUME NEW t \in Tasks, Issued(t) PROVE t[2] <= seq'[t[1]]
  BY <1>1 DEF Apart, Issued, Tasks, OnceInv, TypeInv, TypeOK
<1>2. QueueInv'
  <2> SUFFICES ASSUME NEW p \in Procs, NEW i \in 1 .. Len(inbox[p])
               PROVE  inbox[p][i][2] <= seq'[inbox[p][i][1]]
    BY DEF Apart, QueueInv, Issued, OnceInv
  <2>1. inbox[p][i] \in Tasks
    BY DEF OnceInv, TypeInv, TypeOK
  <2>2. Issued(inbox[p][i])
    BY DEF OnceInv, QueueInv
  <2> QED
    BY <1>1, <2>1, <2>2
<1>3. BegunInv'
  BY <1>1 DEF OnceInv, BegunInv, Apart, Issued
<1> QED
  BY <1>2, <1>3

\* A dispatch publishes a task no process has heard of, to each listener once.
LEMMA OnceDispatch ==
    ASSUME OnceInv, TypeInv', NEW c \in Callers, NEW cap \in Caps, Dispatch(c, cap)
    PROVE  QueueInv' /\ BegunInv'
<1> DEFINE t == Fresh(c)
           i == NextIn(cap)
<1>1. t \in Tasks /\ i \in Ids /\ seq[c] \in Nat /\ ~Issued(t)
  BY NextInIsMember, FreshIsTask, LegionAssumption
     DEF Dispatch, OnceInv, TypeInv, TypeOK, Fresh, Issued
<1>2. \A p \in Procs : inbox'[p] = IF p \in Listeners(i) THEN Append(inbox[p], t) ELSE inbox[p]
  BY DEF Dispatch, Deliver
<1>3. to' = [to EXCEPT ![t] = i] /\ seq' = [seq EXCEPT ![c] = @ + 1]
          /\ begun' = begun /\ job' = job /\ verdict' = verdict
  BY DEF Dispatch
<1>4. t[1] = c /\ t[2] = seq[c] + 1 /\ t[2] <= seq'[t[1]]
  BY <1>3 DEF Fresh, OnceInv, TypeInv, TypeOK
<1>5. ASSUME NEW u \in Tasks, Issued(u)
      PROVE  u[2] <= seq'[u[1]] /\ u # t /\ to'[u] = to[u]
  BY <1>1, <1>3, <1>5 DEF Issued, Tasks, OnceInv, TypeInv, TypeOK
<1>6. \A p \in Procs : begun[p][t] = 0 /\ job[p] # t
  BY <1>1 DEF OnceInv, BegunInv, TypeInv, TypeOK
<1> HIDE DEF t, i
<1>7. ASSUME NEW p \in Procs PROVE \A n \in 1 .. Len(inbox[p]) :
          inbox[p][n] \in Tasks /\ Issued(inbox[p][n])
  BY DEF OnceInv, QueueInv, TypeInv, TypeOK
<1>8. QueueInv'
  <2> SUFFICES ASSUME NEW p \in Procs, NEW n \in 1 .. Len(inbox'[p])
               PROVE  /\ inbox'[p][n][2] <= seq'[inbox'[p][n][1]]
                      /\ to'[inbox'[p][n]] = IdOf[p]
                      /\ begun'[p][inbox'[p][n]] = 0
                      /\ \A m \in 1 .. Len(inbox'[p]) :
                            inbox'[p][n] = inbox'[p][m] => n = m
    BY DEF QueueInv, Issued
  <2>1. CASE p \notin Listeners(i)
    BY <1>2, <1>3, <1>5, <1>7, <2>1 DEF OnceInv, QueueInv
  <2>2. CASE p \in Listeners(i)
    <3>1. inbox[p] \in Seq(Tasks) /\ inbox'[p] = Append(inbox[p], t) /\ IdOf[p] = i
      BY <1>2, <2>2 DEF OnceInv, TypeInv, TypeOK, Listeners
    <3>2. Len(inbox'[p]) = Len(inbox[p]) + 1 /\ inbox'[p][Len(inbox[p]) + 1] = t
              /\ \A m \in 1 .. Len(inbox[p]) : inbox'[p][m] = inbox[p][m]
      BY <3>1, <1>1
    <3>3. CASE n = Len(inbox[p]) + 1
      <4>1. inbox'[p][n] = t /\ t[2] <= seq'[t[1]] /\ begun'[p][t] = 0
        BY <1>3, <1>4, <1>6, <3>2, <3>3
      <4>2. to'[t] = IdOf[p]
        BY <1>1, <1>3, <3>1 DEF OnceInv, TypeInv, TypeOK
      <4>3. \A m \in 1 .. Len(inbox[p]) : inbox'[p][m] # t
        BY <1>5, <1>7, <3>2
      <4>4. \A m \in 1 .. Len(inbox'[p]) : inbox'[p][n] = inbox'[p][m] => n = m
        BY <3>1, <3>2, <3>3, <4>1, <4>3
      <4> QED
        BY <4>1, <4>2, <4>4
    <3>4. CASE n \in 1 .. Len(inbox[p])
      <4>1. inbox'[p][n] = inbox[p][n] /\ inbox[p][n] \in Tasks /\ Issued(inbox[p][n])
        BY <1>7, <3>2, <3>4
      <4>2. /\ to[inbox[p][n]] = IdOf[p] /\ begun[p][inbox[p][n]] = 0
            /\ \A m \in 1 .. Len(inbox[p]) : inbox[p][n] = inbox[p][m] => n = m
        BY <3>4 DEF OnceInv, QueueInv
      <4>3. inbox[p][n][2] <= seq'[inbox[p][n][1]] /\ inbox[p][n] # t
                /\ to'[inbox[p][n]] = IdOf[p]
        BY <1>5, <4>1, <4>2
      <4>4. ASSUME NEW m \in 1 .. Len(inbox'[p]), inbox'[p][n] = inbox'[p][m]
            PROVE  n = m
        <5>1. CASE m \in 1 .. Len(inbox[p])
          BY <3>2, <4>1, <4>2, <4>4, <5>1
        <5>2. CASE m = Len(inbox[p]) + 1
          BY <3>2, <4>1, <4>3, <4>4, <5>2
        <5> QED
          BY <3>1, <3>2, <5>1, <5>2
      <4> QED
        BY <1>3, <4>1, <4>2, <4>3, <4>4
    <3> QED
      BY <3>1, <3>2, <3>3, <3>4
  <2> QED
    BY <2>1, <2>2
<1>9. BegunInv'
  <2> SUFFICES ASSUME NEW p \in Procs, NEW u \in Tasks
               PROVE  begun[p][u] > 0 => u[2] <= seq'[u[1]] /\ to'[u] = IdOf[p]
    BY <1>3 DEF OnceInv, BegunInv, Issued
  <2> QED
    BY <1>5 DEF OnceInv, BegunInv
<1> QED
  BY <1>8, <1>9

\* Entering handle() moves a task from the queue to the job; it leaves no copy behind.
LEMMA OnceTake ==
    ASSUME OnceInv, NEW p \in Procs, Take(p)
    PROVE  QueueInv' /\ BegunInv'
<1> DEFINE t == Head(inbox[p])
<1>1. inbox[p] \in Seq(Tasks) /\ inbox[p] # <<>> /\ t \in Tasks /\ t = inbox[p][1]
  BY DEF Take, OnceInv, TypeInv, TypeOK
<1>2. Issued(t) /\ to[t] = IdOf[p] /\ begun[p][t] = 0
  BY <1>1 DEF OnceInv, QueueInv
<1>3. verdict[p][t] = "none"
  BY <1>1, <1>2 DEF OnceInv, BegunInv, TypeInv, TypeOK
<1>4. /\ job' = [job EXCEPT ![p] = t] /\ begun' = [begun EXCEPT ![p][t] = @ + 1]
      /\ inbox' = [inbox EXCEPT ![p] = Tail(@)]
      /\ UNCHANGED <<seq, to, verdict>> /\ job[p] = NoTask
  BY DEF Take, callVars
<1> HIDE DEF t
<1>5. \A n \in 1 .. Len(inbox[p]) - 1 : Tail(inbox[p])[n] = inbox[p][n + 1]
          /\ Len(Tail(inbox[p])) = Len(inbox[p]) - 1
  BY <1>1
<1>6. QueueInv'
  <2> SUFFICES ASSUME NEW q \in Procs, NEW n \in 1 .. Len(inbox'[q])
               PROVE  /\ Issued(inbox'[q][n]) /\ to[inbox'[q][n]] = IdOf[q]
                      /\ begun'[q][inbox'[q][n]] = 0
                      /\ \A m \in 1 .. Len(inbox'[q]) :
                            inbox'[q][n] = inbox'[q][m] => n = m
    BY <1>4 DEF QueueInv, Issued
  <2>1. CASE q # p
    BY <1>4, <2>1 DEF OnceInv, QueueInv, TypeInv, TypeOK
  <2>2. CASE q = p
    <3>1. inbox'[p] = Tail(inbox[p]) /\ Len(inbox'[p]) = Len(inbox[p]) - 1
              /\ \A m \in 1 .. Len(inbox'[p]) : inbox'[p][m] = inbox[p][m + 1]
      BY <1>1, <1>4 DEF OnceInv, TypeInv, TypeOK
    <3>2. \A m \in 1 .. Len(inbox'[p]) : m + 1 \in 1 .. Len(inbox[p])
      BY <1>1, <3>1
    <3>3. inbox'[p][n] \in Tasks /\ inbox'[p][n] # t
      BY <1>1, <2>2, <3>1, <3>2 DEF OnceInv, QueueInv
    <3>4. begun'[p][inbox'[p][n]] = begun[p][inbox'[p][n]]
      BY <1>4, <3>3 DEF OnceInv, TypeInv, TypeOK
    <3>5. n \in 1 .. Len(inbox'[p]) /\ n + 1 \in 1 .. Len(inbox[p])
          /\ inbox'[p][n] = inbox[p][n + 1]
      BY <2>2, <3>1, <3>2
    <3>6. /\ Issued(inbox'[p][n]) /\ to[inbox'[p][n]] = IdOf[p]
          /\ begun'[p][inbox'[p][n]] = 0
      BY <3>4, <3>5 DEF OnceInv, QueueInv
    <3>7. ASSUME NEW m \in 1 .. Len(inbox'[p]), inbox'[p][n] = inbox'[p][m]
          PROVE  n = m
      <4>1. m + 1 \in 1 .. Len(inbox[p]) /\ inbox[p][n + 1] = inbox[p][m + 1]
        BY <3>1, <3>2, <3>5, <3>7
      <4>2. n + 1 = m + 1
        BY <3>5, <4>1 DEF OnceInv, QueueInv
      <4> QED
        BY <3>5, <4>2
    <3> QED
      BY <2>2, <3>6, <3>7
  <2> QED
    BY <2>1, <2>2
<1>7. BegunInv'
  <2> SUFFICES ASSUME NEW q \in Procs, NEW u \in Tasks
               PROVE  /\ begun'[q][u] <= 1
                      /\ begun'[q][u] > 0 => Issued(u) /\ to[u] = IdOf[q]
                      /\ job'[q] = u => begun'[q][u] > 0 /\ verdict[q][u] = "none"
                      /\ verdict[q][u] # "none" => begun'[q][u] > 0
    BY <1>4 DEF BegunInv, Issued
  <2>1. CASE q = p /\ u = t
    BY <1>1, <1>2, <1>3, <1>4, <2>1 DEF OnceInv, TypeInv, TypeOK
  <2>2. CASE ~(q = p /\ u = t)
    <3>1. begun'[q][u] = begun[q][u]
      BY <1>4, <2>2 DEF OnceInv, TypeInv, TypeOK
    <3>2. job'[q] = u => job[q] = u
      BY <1>4, <2>2 DEF OnceInv, TypeInv, TypeOK
    <3> QED
      BY <3>1, <3>2 DEF OnceInv, BegunInv
  <2> QED
    BY <2>1, <2>2
<1> QED
  BY <1>6, <1>7

\* A finished handler gives its process up for the next task.
LEMMA OnceFinish ==
    ASSUME OnceInv, NEW p \in Procs, NEW v \in {"ok", "failed"}, Finish(p, v)
    PROVE  QueueInv' /\ BegunInv'
<1>1. UNCHANGED <<inbox, begun, seq, to>>
  BY DEF Finish
<1>2. job[p] \in Tasks /\ job' = [job EXCEPT ![p] = NoTask]
          /\ verdict' = [verdict EXCEPT ![p][job[p]] = v]
  BY DEF Finish, OnceInv, TypeInv, TypeOK
<1>3. QueueInv'
  BY <1>1 DEF OnceInv, QueueInv, Issued
<1>4. BegunInv'
  <2> SUFFICES ASSUME NEW q \in Procs, NEW u \in Tasks
               PROVE  /\ job'[q] = u => begun[q][u] > 0 /\ verdict'[q][u] = "none"
                      /\ verdict'[q][u] # "none" => begun[q][u] > 0
    BY <1>1 DEF OnceInv, BegunInv, Issued
  <2>1. CASE q = p
    BY <1>2, <2>1, NoTaskAssumption DEF OnceInv, BegunInv, TypeInv, TypeOK
  <2>2. CASE q # p
    BY <1>2, <2>2 DEF OnceInv, BegunInv, TypeInv, TypeOK
  <2> QED
    BY <2>1, <2>2
<1> QED
  BY <1>3, <1>4

\* A process that goes down drops its queue and its task.
Dropped == /\ \A p \in Procs : inbox'[p] \in {inbox[p], <<>>} /\ job'[p] \in {job[p], NoTask}
           /\ UNCHANGED <<begun, verdict, seq, to>>

\* Losing a process's queue and job only removes copies of a task.
LEMMA OnceDropped == OnceInv /\ Dropped => QueueInv' /\ BegunInv'
<1> SUFFICES ASSUME OnceInv, Dropped PROVE QueueInv' /\ BegunInv'
  OBVIOUS
<1>1. QueueInv'
  BY DEF OnceInv, QueueInv, Issued, Dropped
<1>2. BegunInv'
  BY NoTaskAssumption DEF OnceInv, BegunInv, Issued, Dropped
<1> QED
  BY <1>1, <1>2

\* Each action keeps the count of a task's copies at one per process.
LEMMA OnceStep == OnceInv /\ [Next]_legionVars => OnceInv'
<1> SUFFICES ASSUME OnceInv, [Next]_legionVars PROVE OnceInv'
  OBVIOUS
<1> USE DEF registryVars, workerVars, callVars
<1>0. TypeInv'
  BY TypeStep DEF OnceInv
<1>1. CASE PraetorDown
  <2>1. Dropped
    BY <1>1 DEF PraetorDown, Dropped, OnceInv, TypeInv, TypeOK
  <2> QED
    BY <1>0, <2>1, OnceDropped DEF OnceInv
<1>2. ASSUME NEW p \in Procs, WorkerDown(p) PROVE OnceInv'
  <2>1. Dropped
    BY <1>2 DEF WorkerDown, Dropped, OnceInv, TypeInv, TypeOK
  <2> QED
    BY <1>0, <2>1, OnceDropped DEF OnceInv
<1>3. ASSUME NEW p \in Procs, Take(p) PROVE OnceInv'
  BY <1>0, <1>3, OnceTake DEF OnceInv
<1>4. ASSUME NEW p \in Procs, NEW v \in {"ok", "failed"}, Finish(p, v) PROVE OnceInv'
  BY <1>0, <1>4, OnceFinish DEF OnceInv
<1>5. ASSUME NEW c \in Callers, NEW cap \in Caps, Dispatch(c, cap) PROVE OnceInv'
  BY <1>0, <1>5, OnceDispatch DEF OnceInv
<1>6. CASE \/ StartPraetor \/ Register \/ UNCHANGED legionVars
           \/ \E p \in Procs : Subscribe(p) \/ Announce(p)
           \/ \E c \in Callers : Await(c) \/ Record(c)
           \/ \E c \in Callers, cap \in Caps : DispatchNoWorker(c, cap)
  <2>1. Apart
    <3>1. UNCHANGED seq => \A c \in Callers : seq'[c] >= seq[c]
      BY DEF OnceInv, TypeInv, TypeOK
    <3>2. CASE StartPraetor \/ Register \/ UNCHANGED legionVars
      BY <3>1, <3>2 DEF Apart, StartPraetor, Register, legionVars
    <3>3. CASE \E p \in Procs : Subscribe(p) \/ Announce(p)
      BY <3>1, <3>3 DEF Apart, Subscribe, Announce
    <3>4. CASE \E c \in Callers : Await(c) \/ Record(c)
      BY <3>1, <3>4 DEF Apart, Await, Timeout, GiveUp, Receive, RecordFails, Record
    <3>5. CASE \E c \in Callers, cap \in Caps : DispatchNoWorker(c, cap)
      BY <3>5 DEF Apart, DispatchNoWorker, OnceInv, TypeInv, TypeOK
    <3> QED
      BY <1>6, <3>2, <3>3, <3>4, <3>5
  <2> QED
    BY <1>0, <2>1, OnceApart DEF OnceInv
<1> QED
  BY <1>1, <1>2, <1>3, <1>4, <1>5, <1>6 DEF Next, Background, Call

\* No process enters handle() twice for one task, whatever times out, restarts or
\* comes late.
THEOREM AtMostOnce == Spec => []HandledOnce
<1>1. OnceInv => HandledOnce
  BY DEF OnceInv, BegunInv, HandledOnce
<1> QED
  BY <1>1, OnceInit, OnceStep, PTL DEF Spec

\* When every process runs under an id of its own, no two of them handle one task.
THEOREM OneProcessPerTask ==
    ASSUME \A p, q \in Procs : IdOf[p] = IdOf[q] => p = q
    PROVE  Spec => []HandledByOne
<1>1. OnceInv => HandledByOne
  BY DEF OnceInv, BegunInv, HandledByOne
<1> QED
  BY <1>1, OnceInit, OnceStep, PTL DEF Spec

-----------------------------------------------------------------------------
(***************************************************************************)
(* The audit log of the Legion.  A reply comes from a process that runs    *)
(* under the task's id and finished with that outcome; as a task is        *)
(* finished once, the outcome never changes and the row stays true.        *)
(***************************************************************************)
AnswerInv == \A t \in Tasks : reply[t] # "none" =>
    \E p \in Procs : IdOf[p] = to[t] /\ verdict[p][t] = reply[t]

TruthInv == OnceInv /\ AnswerInv /\ RowsTruthful /\ ReturnsAreRecorded

Settled == \A p \in Procs, t \in Tasks : verdict[p][t] # "none" => verdict'[p][t] = verdict[p][t]

\* A verdict, once reached, is never changed.
LEMMA VerdictsSettle == OnceInv /\ [Next]_legionVars => Settled
<1> SUFFICES ASSUME OnceInv, [Next]_legionVars, NEW p \in Procs, NEW t \in Tasks,
                    verdict[p][t] # "none"
             PROVE  verdict'[p][t] = verdict[p][t]
  BY DEF Settled
<1> USE DEF registryVars, workerVars, callVars
<1>1. ASSUME NEW q \in Procs, NEW v \in {"ok", "failed"}, Finish(q, v)
      PROVE  verdict'[p][t] = verdict[p][t]
  <2>1. ~(q = p /\ job[q] = t)
    BY DEF OnceInv, BegunInv
  <2> QED
    BY <1>1, <2>1 DEF Finish, OnceInv, TypeInv, TypeOK
<1>2. CASE UNCHANGED verdict
  BY <1>2
<1>3. CASE PraetorDown \/ StartPraetor \/ Register \/ UNCHANGED legionVars
  BY <1>3 DEF PraetorDown, StartPraetor, Register, legionVars
<1>4. ASSUME NEW q \in Procs, Subscribe(q) \/ Announce(q) \/ WorkerDown(q) \/ Take(q)
      PROVE  verdict'[p][t] = verdict[p][t]
  BY <1>4 DEF Subscribe, Announce, WorkerDown, Take
<1>5. ASSUME NEW c \in Callers, Await(c) \/ Record(c) PROVE verdict'[p][t] = verdict[p][t]
  BY <1>5 DEF Await, Timeout, Receive, RecordFails, Record
<1>6. ASSUME NEW c \in Callers, NEW cap \in Caps, Call(c, cap)
      PROVE  verdict'[p][t] = verdict[p][t]
  BY <1>6 DEF Call, Dispatch, DispatchNoWorker
<1> QED
  BY <1>1, <1>3, <1>4, <1>5, <1>6 DEF Next, Background

\* A task a process is done with is not in its queue, so no step begins it again.
LEMMA DoneStep ==
    ASSUME OnceInv, [Next]_legionVars, NEW p \in Procs, NEW t \in Tasks, DoneWith(p, t)
    PROVE  DoneWith(p, t)' /\ verdict'[p][t] = verdict[p][t]
<1> USE DEF registryVars, workerVars, callVars, DoneWith
<1>0. TypeOK /\ BegunInv /\ QueueInv /\ NoTask \notin Tasks
  BY NoTaskAssumption DEF OnceInv, TypeInv
<1>1. ASSUME NEW q \in Procs, NEW v \in {"ok", "failed"}, Finish(q, v)
      PROVE  DoneWith(p, t)' /\ verdict'[p][t] = verdict[p][t]
  BY <1>0, <1>1 DEF Finish, TypeOK
<1>2. ASSUME NEW q \in Procs, Take(q)
      PROVE  DoneWith(p, t)' /\ verdict'[p][t] = verdict[p][t]
  <2>1. /\ inbox[q] # <<>> /\ job' = [job EXCEPT ![q] = Head(inbox[q])] /\ verdict' = verdict
        /\ begun' = [begun EXCEPT ![q][Head(inbox[q])] = @ + 1]
    BY <1>2 DEF Take
  <2>2. Head(inbox[q]) = inbox[q][1] /\ 1 \in 1 .. Len(inbox[q]) /\ Head(inbox[q]) \in Tasks
    BY <1>0, <2>1 DEF TypeOK
  <2>3. begun[q][Head(inbox[q])] = 0
    BY <1>0, <2>2 DEF QueueInv
  <2>4. ~ (q = p /\ Head(inbox[q]) = t)
    BY <2>3
  <2> QED
    BY <1>0, <2>1, <2>2, <2>4 DEF TypeOK
<1>3. CASE PraetorDown \/ StartPraetor \/ Register \/ UNCHANGED legionVars
  <2>1. UNCHANGED <<begun, verdict>> /\ job'[p] \in {job[p], NoTask}
    BY <1>3 DEF PraetorDown, StartPraetor, Register, legionVars
  <2> QED
    BY <1>0, <2>1
<1>4. ASSUME NEW q \in Procs, Subscribe(q) \/ Announce(q) \/ WorkerDown(q)
      PROVE  DoneWith(p, t)' /\ verdict'[p][t] = verdict[p][t]
  BY <1>0, <1>4 DEF Subscribe, Announce, WorkerDown, TypeOK
<1>5. ASSUME NEW c \in Callers, Await(c) \/ Record(c)
      PROVE  DoneWith(p, t)' /\ verdict'[p][t] = verdict[p][t]
  BY <1>5 DEF Await, Timeout, Receive, RecordFails, Record
<1>6. ASSUME NEW c \in Callers, NEW cap \in Caps, Call(c, cap)
      PROVE  DoneWith(p, t)' /\ verdict'[p][t] = verdict[p][t]
  BY <1>6 DEF Call, Dispatch, DispatchNoWorker
<1> QED
  BY <1>1, <1>2, <1>3, <1>4, <1>5, <1>6 DEF Next, Background

\* What a process is done with it never takes up again, and its outcome stands, whatever
\* restarts, times out or comes late (worker.py, _on_dispatch).
THEOREM NothingIsTakenUpAgain == Spec => DoneIsDone
<1>1. OnceInv /\ [Next]_legionVars =>
          [\A p \in Procs, t \in Tasks :
              DoneWith(p, t) => DoneWith(p, t)' /\ verdict'[p][t] = verdict[p][t]]_legionVars
  BY DoneStep
<1> QED
  BY <1>1, OnceInit, OnceStep, PTL DEF Spec, DoneIsDone

\* Only an issued task is answered, so a fresh one has no reply.
LEMMA AnsweredIsIssued ==
    ASSUME OnceInv, AnswerInv, NEW t \in Tasks, reply[t] # "none"
    PROVE  Issued(t)
  BY DEF OnceInv, AnswerInv, BegunInv

\* A reply on its way was given by a process under the id the task was sent to.
LEMMA AnswerStep == TruthInv /\ [Next]_legionVars => AnswerInv'
<1> SUFFICES ASSUME TruthInv, [Next]_legionVars, NEW t \in Tasks, reply'[t] # "none"
             PROVE  \E p \in Procs : IdOf[p] = to'[t] /\ verdict'[p][t] = reply'[t]
  BY DEF AnswerInv
<1> USE DEF registryVars, workerVars, callVars
<1>0. Settled
  BY VerdictsSettle DEF TruthInv
<1>1. CASE reply'[t] = reply[t] /\ to'[t] = to[t]
  <2>1. PICK p \in Procs : IdOf[p] = to[t] /\ verdict[p][t] = reply[t]
    BY <1>1 DEF TruthInv, AnswerInv
  <2> QED
    BY <1>0, <1>1, <2>1 DEF Settled
<1>2. ASSUME NEW q \in Procs, NEW v \in {"ok", "failed"}, Finish(q, v),
             ~(reply'[t] = reply[t] /\ to'[t] = to[t])
      PROVE  \E p \in Procs : IdOf[p] = to'[t] /\ verdict'[p][t] = reply'[t]
  <2>1. job[q] = t /\ reply'[t] = v /\ to' = to /\ verdict'[q][t] = v
    BY <1>2 DEF Finish, Respond, TruthInv, OnceInv, TypeInv, TypeOK
  <2>2. to[t] = IdOf[q]
    BY <2>1 DEF TruthInv, OnceInv, BegunInv
  <2> QED
    BY <2>1, <2>2
<1>3. ASSUME NEW c \in Callers, NEW cap \in Caps, Dispatch(c, cap)
      PROVE  reply'[t] = reply[t] /\ to'[t] = to[t]
  <2>1. reply' = reply /\ Issued(t)
    BY <1>3, AnsweredIsIssued DEF Dispatch, TruthInv
  <2>2. t # Fresh(c)
    BY <2>1 DEF Issued, Fresh, TruthInv, OnceInv, TypeInv, TypeOK
  <2> QED
    BY <1>3, <2>1, <2>2 DEF Dispatch, TruthInv, OnceInv, TypeInv, TypeOK
<1>4. CASE PraetorDown \/ StartPraetor \/ Register \/ UNCHANGED legionVars
  BY <1>1, <1>4 DEF PraetorDown, StartPraetor, Register, legionVars
<1>5. ASSUME NEW q \in Procs, Subscribe(q) \/ Announce(q) \/ WorkerDown(q) \/ Take(q)
      PROVE  reply'[t] = reply[t] /\ to'[t] = to[t]
  BY <1>5 DEF Subscribe, Announce, WorkerDown, Take
<1>6. ASSUME NEW c \in Callers, Await(c) \/ Record(c)
      PROVE  reply'[t] = reply[t] /\ to'[t] = to[t]
  BY <1>6 DEF Await, Timeout, Receive, RecordFails, Record
<1>7. ASSUME NEW c \in Callers, NEW cap \in Caps, DispatchNoWorker(c, cap)
      PROVE  reply'[t] = reply[t] /\ to'[t] = to[t]
  BY <1>7 DEF DispatchNoWorker
<1> QED
  BY <1>1, <1>2, <1>3, <1>4, <1>5, <1>6, <1>7 DEF Next, Background, Call

\* Rows are only added, by Record, for the reply at hand.
LEMMA RowsStep == TruthInv /\ [Next]_legionVars => RowsTruthful'
<1> SUFFICES ASSUME TruthInv, [Next]_legionVars, NEW r \in rows'
             PROVE  \E p \in Procs : IdOf[p] = r.id /\ verdict'[p][r.task] = r.result
  BY DEF RowsTruthful
<1> USE DEF registryVars, workerVars, callVars
<1>0. Settled
  BY VerdictsSettle DEF TruthInv
<1>1. CASE r \in rows
  <2>1. PICK p \in Procs : IdOf[p] = r.id /\ verdict[p][r.task] = r.result
    BY <1>1 DEF TruthInv, RowsTruthful
  <2>2. r.task \in Tasks /\ r.result # "none"
    BY <1>1 DEF TruthInv, OnceInv, TypeInv, TypeOK, Row
  <2> QED
    BY <1>0, <2>1, <2>2 DEF Settled
<1>2. ASSUME NEW c \in Callers, Record(c), r \notin rows
      PROVE  \E p \in Procs : IdOf[p] = r.id /\ verdict'[p][r.task] = r.result
  <2> DEFINE t == Current(c)
  <2>1. t \in Tasks /\ reply[t] # "none"
    BY <1>2 DEF Record, TruthInv, OnceInv, TypeInv, CurrentIsTask
  <2>2. r = RowOf(t)
    BY <1>2 DEF Record, NewRows
  <2>3. PICK p \in Procs : IdOf[p] = to[t] /\ verdict[p][t] = reply[t]
    BY <2>1 DEF TruthInv, AnswerInv
  <2>4. r.id = to[t] /\ r.task = t /\ r.result = reply[t]
    BY <2>2 DEF RowOf
  <2> HIDE DEF t
  <2> QED
    BY <1>0, <2>1, <2>3, <2>4 DEF Settled
<1>3. CASE PraetorDown \/ StartPraetor \/ Register \/ UNCHANGED legionVars
  BY <1>1, <1>3 DEF PraetorDown, StartPraetor, Register, legionVars
<1>4. ASSUME NEW q \in Procs, Subscribe(q) \/ Announce(q) \/ WorkerDown(q) \/ Take(q)
      PROVE  r \in rows
  BY <1>4 DEF Subscribe, Announce, WorkerDown, Take
<1>5. ASSUME NEW q \in Procs, NEW v \in {"ok", "failed"}, Finish(q, v) PROVE r \in rows
  BY <1>5 DEF Finish
<1>6. ASSUME NEW c \in Callers, Await(c) PROVE r \in rows
  BY <1>6 DEF Await, Timeout, Receive, RecordFails
<1>7. ASSUME NEW c \in Callers, NEW cap \in Caps, Call(c, cap) PROVE r \in rows
  BY <1>7 DEF Call, Dispatch, DispatchNoWorker
<1> QED
  BY <1>1, <1>2, <1>3, <1>4, <1>5, <1>6, <1>7 DEF Next, Background

\* Only Record hands a result to a caller, and it has written the row.
LEMMA ReturnsStep == TruthInv /\ [Next]_legionVars => ReturnsAreRecorded'
<1> SUFFICES ASSUME TruthInv, [Next]_legionVars, NEW c \in Callers, res'[c] \in {"ok", "failed"}
             PROVE  \E r \in rows' : r.task = <<c, seq'[c]>> /\ r.result = res'[c]
  BY DEF ReturnsAreRecorded, Current
<1> USE DEF registryVars, workerVars, callVars
<1>1. CASE res'[c] = res[c] /\ seq'[c] = seq[c] /\ rows \subseteq rows'
  BY <1>1 DEF TruthInv, ReturnsAreRecorded, Current
<1>2. CASE PraetorDown
  <2>1. res'[c] = res[c]
    BY <1>2 DEF PraetorDown
  <2> QED
    BY <1>1, <1>2, <2>1 DEF PraetorDown
<1>3. CASE StartPraetor \/ Register \/ UNCHANGED legionVars
  BY <1>1, <1>3 DEF StartPraetor, Register, legionVars
<1>4. CASE \E q \in Procs : Subscribe(q) \/ Announce(q) \/ WorkerDown(q) \/ Take(q)
  BY <1>1, <1>4 DEF Subscribe, Announce, WorkerDown, Take
<1>5. CASE \E q \in Procs, v \in {"ok", "failed"} : Finish(q, v)
  BY <1>1, <1>5 DEF Finish
<1>6. ASSUME NEW d \in Callers, Await(d)
      PROVE  \E r \in rows' : r.task = <<c, seq'[c]>> /\ r.result = res'[c]
  <2>1. res'[c] = res[c] /\ seq' = seq /\ rows' = rows
    BY <1>6 DEF Await, Timeout, Receive, RecordFails, TruthInv, OnceInv, TypeInv, TypeOK
  <2> QED
    BY <1>1, <2>1
<1>7. ASSUME NEW d \in Callers, Record(d)
      PROVE  \E r \in rows' : r.task = <<c, seq'[c]>> /\ r.result = res'[c]
  <2>1. CASE d = c
    <3>1. RowOf(Current(c)) \in rows' /\ res'[c] = reply[Current(c)] /\ seq' = seq
      BY <1>7, <2>1 DEF Record, NewRows, TruthInv, OnceInv, TypeInv, TypeOK
    <3> QED
      BY <3>1 DEF RowOf, Current
  <2>2. CASE d # c
    <3>1. res'[c] = res[c] /\ seq' = seq /\ rows \subseteq rows'
      BY <1>7, <2>2 DEF Record, TruthInv, OnceInv, TypeInv, TypeOK
    <3> QED
      BY <1>1, <3>1
  <2> QED
    BY <2>1, <2>2
<1>8. ASSUME NEW d \in Callers, NEW cap \in Caps, Call(d, cap)
      PROVE  \E r \in rows' : r.task = <<c, seq'[c]>> /\ r.result = res'[c]
  <2>1. d # c
    BY <1>8 DEF Call, Dispatch, DispatchNoWorker, TruthInv, OnceInv, TypeInv, TypeOK
  <2>2. res'[c] = res[c] /\ seq'[c] = seq[c] /\ rows' = rows
    BY <1>8, <2>1 DEF Call, Dispatch, DispatchNoWorker, TruthInv, OnceInv, TypeInv, TypeOK
  <2> QED
    BY <1>1, <2>2
<1> QED
  BY <1>2, <1>3, <1>4, <1>5, <1>6, <1>7, <1>8 DEF Next, Background

\* Initially there are no replies, rows or results.
LEMMA TruthInit == Init => TruthInv
<1> SUFFICES ASSUME Init PROVE TruthInv
  OBVIOUS
<1>1. OnceInv
  BY OnceInit
<1>2. AnswerInv /\ RowsTruthful /\ ReturnsAreRecorded
  BY DEF Init, AnswerInv, RowsTruthful, ReturnsAreRecorded
<1> QED
  BY <1>1, <1>2 DEF TruthInv

\* Each action keeps replies, rows and results truthful.
LEMMA TruthStep == TruthInv /\ [Next]_legionVars => TruthInv'
  BY OnceStep, AnswerStep, RowsStep, ReturnsStep DEF TruthInv

\* Every legion.dispatched row stands for a task that a process running under the
\* row's id finished with the row's outcome.
THEOREM AuditTruthful == Spec => []RowsTruthful
<1>1. TruthInv => RowsTruthful
  BY DEF TruthInv
<1> QED
  BY <1>1, TruthInit, TruthStep, PTL DEF Spec

\* No result leaves dispatch without its row.
THEOREM ReturnsRecorded == Spec => []ReturnsAreRecorded
<1>1. TruthInv => ReturnsAreRecorded
  BY DEF TruthInv
<1> QED
  BY <1>1, TruthInit, TruthStep, PTL DEF Spec

-----------------------------------------------------------------------------
(***************************************************************************)
(* Round robin.  Ranks tell the registered ids apart, and every id up to   *)
(* the cursor is exactly one pick ahead of every id beyond it.             *)
(***************************************************************************)
Ranked == {i \in Ids : rank[i] > 0}

RankInv ==
    /\ \A i \in Ids : rank[i] <= Cardinality(Ranked) /\ (known[i] # {} => rank[i] > 0)
    /\ \A i, j \in Ranked : rank[i] = rank[j] => i = j

Ahead(k, i) == IF rank[i] <= cursor[k] THEN 1 ELSE 0

RingInv == \A k \in Caps : \E n \in Nat : \A i \in Members(k) : picks[k][i] = n + Ahead(k, i)

FairInv == TypeInv /\ RankInv /\ RingInv

\* What all steps but Register, Dispatch and PraetorDown leave alone.
RingVars == <<known, rank, cursor, picks>>

\* A step that leaves the registry and its cycles alone keeps the ring.
LEMMA RingUnchanged == FairInv /\ UNCHANGED RingVars => RankInv' /\ RingInv'
  BY DEF FairInv, RingVars, RankInv, RingInv, Ranked, Members, Ahead

\* After a rebuild nothing was picked and the cursor is before every member.
LEMMA RingRebuilt ==
    ASSUME TypeInv', RankInv', cursor' = [k \in Caps |-> 0],
           picks' = [k \in Caps |-> [i \in Ids |-> 0]]
    PROVE  RingInv'
<1>1. \A k \in Caps : \A i \in Members(k)' : rank'[i] > 0 /\ rank'[i] \in Nat /\ i \in Ids
  BY DEF RankInv, Members, TypeInv, TypeOK
<1>2. \A k \in Caps : \A i \in Members(k)' : picks'[k][i] = 0 + Ahead(k, i)'
  BY <1>1 DEF Ahead
<1> QED
  BY <1>2 DEF RingInv

\* A registration keeps ranks distinct and within the number of ids ranked.
LEMMA RegisterRanks == FairInv /\ TypeInv' /\ Register => RankInv'
<1> SUFFICES ASSUME FairInv, TypeInv', Register PROVE RankInv'
  OBVIOUS
<1> DEFINE id == Head(regQ).id
           n  == Cardinality(Ranked)
<1>1. Head(regQ) \in Registration
  BY DEF Register, FairInv, TypeInv, TypeOK
<1>2. id \in Ids /\ known' = [known EXCEPT ![id] = Head(regQ).caps]
          /\ rank' = [rank EXCEPT ![id] = IF rank[id] = 0 THEN NextRank ELSE rank[id]]
  BY <1>1 DEF Register, Registration
<1>3. IsFiniteSet(Ranked) /\ n \in Nat /\ NextRank = n + 1
  BY FS_Subset, FS_CardinalityType, LegionAssumption DEF Ranked, NextRank
<1> HIDE DEF id, n
<1>4. CASE rank[id] # 0
  <2>1. rank' = rank /\ Ranked' = Ranked /\ rank[id] > 0
    BY <1>2, <1>4 DEF FairInv, TypeInv, TypeOK, Ranked
  <2> QED
    BY <1>2, <2>1 DEF FairInv, RankInv, TypeInv, TypeOK
<1>5. CASE rank[id] = 0
  <2>1. rank' = [rank EXCEPT ![id] = n + 1]
    BY <1>2, <1>3, <1>5
  <2>2. \A i \in Ids : rank'[i] = IF i = id THEN n + 1 ELSE rank[i]
    BY <2>1 DEF FairInv, TypeInv, TypeOK
  <2>3. Ranked' = Ranked \cup {id} /\ id \notin Ranked
    <3>1. \A i \in Ids : i \in Ranked' <=> i \in Ranked \cup {id}
      <4>1. rank'[id] > 0
        BY <1>2, <1>3, <2>2
      <4>2. \A i \in Ids : i # id => rank'[i] = rank[i]
        BY <2>2
      <4>3. \A i \in Ids : (i \in Ranked <=> rank[i] > 0) /\ (i \in Ranked' <=> rank'[i] > 0)
        BY DEF Ranked
      <4> QED
        BY <1>2, <4>1, <4>2, <4>3
    <3>2. Ranked' \subseteq Ids /\ Ranked \cup {id} \subseteq Ids
      BY <1>2 DEF Ranked
    <3> QED
      BY <1>5, <3>1, <3>2 DEF Ranked
  <2>4. Cardinality(Ranked)' = n + 1
    BY <1>3, <2>3, FS_AddElement DEF n
  <2>5. \A i \in Ids : rank[i] <= n /\ rank[i] \in Nat
    BY DEF n, FairInv, RankInv, TypeInv, TypeOK
  <2>6. \A i \in Ids : rank'[i] <= n + 1 /\ (known'[i] # {} => rank'[i] > 0)
    BY <1>2, <1>3, <2>5, <2>2 DEF FairInv, RankInv, TypeInv, TypeOK
  <2>7. \A i, j \in Ranked' : rank'[i] = rank'[j] => i = j
    BY <1>2, <1>3, <2>3, <2>5, <2>2 DEF FairInv, RankInv, Ranked
  <2> QED
    BY <2>4, <2>6, <2>7 DEF RankInv
<1> QED
  BY <1>4, <1>5

\* A pick gives one more to the id whose turn it is and moves the cursor onto it.
LEMMA DispatchRing ==
    ASSUME FairInv, NEW c \in Callers, NEW cap \in Caps, Dispatch(c, cap)
    PROVE  RankInv' /\ RingInv'
<1> DEFINE id == NextIn(cap)
<1>1. id \in Members(cap) /\ id \in Ids
  BY NextInIsMember DEF Dispatch, FairInv, TypeInv
<1>2. /\ UNCHANGED <<known, rank>>
      /\ cursor' = [cursor EXCEPT ![cap] = rank[id]]
      /\ picks' = [picks EXCEPT ![cap][id] = @ + 1]
  BY DEF Dispatch
<1>3. RankInv'
  BY <1>2 DEF FairInv, RankInv, Ranked
<1>4. \A k \in Caps : Members(k)' = Members(k)
  BY <1>2 DEF Members
<1>5. \A i \in Members(cap) : i \in Ids /\ rank[i] \in Nat /\ rank[i] > 0
  BY DEF Members, FairInv, RankInv, TypeInv, TypeOK
<1>6. \A i \in Members(cap) : rank[i] = rank[id] => i = id
  BY <1>1, <1>5 DEF FairInv, RankInv, Ranked
<1>7. IF Later(cap) # {}
      THEN id \in Later(cap) /\ \A j \in Later(cap) : rank[id] <= rank[j]
      ELSE \A j \in Members(cap) : rank[id] <= rank[j]
  BY <1>1, FirstIsLeast DEF NextIn, Later, Members, FairInv, TypeInv, TypeOK
<1>8. PICK n \in Nat : \A i \in Members(cap) : picks[cap][i] = n + Ahead(cap, i)
  BY DEF FairInv, RingInv
<1>9. /\ cursor[cap] \in Nat /\ cursor'[cap] = rank[id]
      /\ \A i \in Ids : picks'[cap][i] = IF i = id THEN picks[cap][i] + 1 ELSE picks[cap][i]
  BY <1>1, <1>2 DEF FairInv, TypeInv, TypeOK
<1> HIDE DEF id
<1>10. \E m \in Nat : \A i \in Members(cap) : picks'[cap][i] = m + Ahead(cap, i)'
  <2>1. CASE Later(cap) # {}
    <3>1. \A i \in Members(cap) : picks'[cap][i] = n + Ahead(cap, i)'
      BY <1>1, <1>2, <1>5, <1>6, <1>7, <1>8, <1>9, <2>1 DEF Ahead, Later
    <3> QED
      BY <3>1
  <2>2. CASE Later(cap) = {}
    <3>1. \A i \in Members(cap) : picks'[cap][i] = (n + 1) + Ahead(cap, i)'
      BY <1>1, <1>2, <1>5, <1>6, <1>7, <1>8, <1>9, <2>2 DEF Ahead, Later
    <3> QED
      BY <3>1
  <2> QED
    BY <2>1, <2>2
<1>11. ASSUME NEW k \in Caps, k # cap
       PROVE  \E m \in Nat : \A i \in Members(k) : picks'[k][i] = m + Ahead(k, i)'
  <2>1. picks'[k] = picks[k] /\ cursor'[k] = cursor[k]
    BY <1>2, <1>11 DEF FairInv, TypeInv, TypeOK
  <2> QED
    BY <1>2, <2>1 DEF FairInv, RingInv, Ahead
<1>12. RingInv'
  BY <1>4, <1>10, <1>11 DEF RingInv
<1> QED
  BY <1>3, <1>12

\* The empty registry is fair.
LEMMA FairInit == Init => FairInv
<1> SUFFICES ASSUME Init PROVE FairInv
  OBVIOUS
<1>1. TypeInv
  BY TypeInit
<1>2. Ranked = {}
  BY DEF Init, Ranked
<1>3. Cardinality(Ranked) = 0
  BY <1>2, FS_EmptySet
<1>4. RankInv
  BY <1>2, <1>3 DEF Init, RankInv
<1>5. RingInv
  <2>1. \A k \in Caps : Members(k) = {}
    BY DEF Init, Members
  <2> QED
    BY <2>1 DEF RingInv
<1> QED
  BY <1>1, <1>4, <1>5 DEF FairInv

\* Each action keeps the ring.
LEMMA FairStep == FairInv /\ [Next]_legionVars => FairInv'
<1> SUFFICES ASSUME FairInv, [Next]_legionVars PROVE FairInv'
  OBVIOUS
<1> USE DEF registryVars, workerVars, callVars
<1>0. TypeInv'
  BY TypeStep DEF FairInv
<1>1. CASE PraetorDown
  <2>1. Ranked' = {}
    BY <1>1 DEF PraetorDown, Ranked
  <2>2. Cardinality(Ranked)' = 0
    BY <2>1, FS_EmptySet
  <2>3. RankInv'
    BY <1>1, <2>1, <2>2 DEF PraetorDown, RankInv
  <2>4. RingInv'
    BY <1>0, <1>1, <2>3, RingRebuilt DEF PraetorDown
  <2> QED
    BY <1>0, <2>3, <2>4 DEF FairInv
<1>2. CASE Register
  <2>1. RankInv'
    BY <1>0, <1>2, RegisterRanks
  <2>2. RingInv'
    BY <1>0, <1>2, <2>1, RingRebuilt DEF Register
  <2> QED
    BY <1>0, <2>1, <2>2 DEF FairInv
<1>3. ASSUME NEW c \in Callers, NEW cap \in Caps, Dispatch(c, cap) PROVE FairInv'
  BY <1>0, <1>3, DispatchRing DEF FairInv
<1>4. CASE UNCHANGED RingVars
  BY <1>0, <1>4, RingUnchanged DEF FairInv
<1>5. CASE StartPraetor \/ UNCHANGED legionVars
  BY <1>4, <1>5 DEF StartPraetor, legionVars, RingVars
<1>6. CASE \E p \in Procs : Subscribe(p) \/ Announce(p) \/ WorkerDown(p) \/ Take(p)
  BY <1>4, <1>6 DEF Subscribe, Announce, WorkerDown, Take, RingVars
<1>7. CASE \E p \in Procs, v \in {"ok", "failed"} : Finish(p, v)
  BY <1>4, <1>7 DEF Finish, RingVars
<1>8. CASE \E c \in Callers : Await(c) \/ Record(c)
  BY <1>4, <1>8 DEF Await, Timeout, Receive, RecordFails, Record, RingVars
<1>9. CASE \E c \in Callers, cap \in Caps : DispatchNoWorker(c, cap)
  BY <1>4, <1>9 DEF DispatchNoWorker, RingVars
<1> QED
  BY <1>1, <1>2, <1>3, <1>5, <1>6, <1>7, <1>8, <1>9 DEF Next, Background, Call

\* Between two registrations no worker that advertises a capability is ever more than
\* one pick ahead of another, for any number of workers and calls.
THEOREM FairSelection == Spec => []RoundRobinFair
<1>1. FairInv => RoundRobinFair
  <2> SUFFICES ASSUME FairInv, NEW k \in Caps, NEW i \in Members(k), NEW j \in Members(k)
               PROVE  picks[k][i] <= picks[k][j] + 1
    BY DEF RoundRobinFair
  <2>1. PICK n \in Nat : \A m \in Members(k) : picks[k][m] = n + Ahead(k, m)
    BY DEF FairInv, RingInv
  <2>2. Ahead(k, i) \in {0, 1} /\ Ahead(k, j) \in {0, 1}
    BY DEF Ahead
  <2> QED
    BY <2>1, <2>2
<1> QED
  BY <1>1, FairInit, FairStep, PTL DEF Spec

-----------------------------------------------------------------------------
(***************************************************************************)
(* Most steps of a decision leave the Legion, what was done and what was   *)
(* asked of the workers alone, and no decision newly calls Home Assistant. *)
(***************************************************************************)
Shape == /\ at = [c \in Callers |-> at[c]]
         /\ uses = [c \in Callers |-> uses[c]]
         /\ answers = [c \in Callers |-> answers[c]]

Calm == /\ UNCHANGED <<legionVars, acted, asked>>
        /\ Shape'
        /\ \A c \in Callers : at'[c] = "ha" =>
              at[c] = "ha" /\ uses'[c] = uses[c] /\ answers'[c] = answers[c]

\* The steps of one decision but for those that act or ask.
LEMMA CalmSteps ==
    ASSUME Shape, NEW c \in Callers,
           \/ Think(c) \/ UnknownTool(c) \/ Begin(c) \/ Finishing(c)
           \/ InvalidService(c) \/ ServiceWithoutHA(c) \/ ServiceDenied(c) \/ ServiceResponds(c)
           \/ WorkerUseWithoutRegistry(c) \/ ToolDenied(c) \/ GatedReturns(c)
           \/ RecallReturns(c) \/ DispatchRaises(c)
    PROVE  Calm
<1> USE DEF Shape, Calm, Goto, Fail, Answer, WriteRow
<1>1. CASE Think(c)
  BY <1>1 DEF Think, LLMFails, LLMReturns
<1>2. CASE UnknownTool(c)
  BY <1>2 DEF UnknownTool
<1>3. CASE Begin(c)
  BY <1>3 DEF Begin, Start, PostService
<1>4. CASE AuditReturns(c) \/ AuditFails(c)
  BY <1>4 DEF AuditReturns, AuditFails
<1>5. CASE EndTurn(c) \/ Close(c) \/ CloseFails(c)
  BY <1>5 DEF EndTurn, Close, CloseFails
<1>6. CASE InvalidService(c) \/ ServiceWithoutHA(c) \/ ServiceDenied(c) \/ ServiceResponds(c)
  BY <1>6 DEF InvalidService, ServiceWithoutHA, ServiceDenied, ServiceResponds
<1>7. CASE WorkerUseWithoutRegistry(c) \/ ToolDenied(c) \/ GatedReturns(c)
  BY <1>7 DEF WorkerUseWithoutRegistry, ToolDenied, GatedReturns
<1>8. CASE RecallReturns(c) \/ DispatchRaises(c)
  BY <1>8 DEF RecallReturns, DispatchRaises
<1> QED
  BY <1>1, <1>2, <1>3, <1>4, <1>5, <1>6, <1>7, <1>8 DEF Finishing

\* A step of the brain is a calm step of one decision, one of the steps that act or ask,
\* or a step of the Legion beside it.
LEMMA BrainSteps ==
    ASSUME Shape, BrainNext
    PROVE  \/ Calm /\ UNCHANGED wiring
           \/ \E c \in Callers :
                 /\ ServiceAllowed(c) \/ HAReturns(c) \/ HAFails(c) \/ DispatchTool(c)
                       \/ RecordTool(c)
                 /\ UNCHANGED wiring
           \/ ((\E c \in Callers : Await(c)) \/ Background) /\ UNCHANGED brainVars
           \/ Shutdown /\ UNCHANGED wiring
<1>1. ASSUME NEW c \in Callers, Step(c)
      PROVE  \/ Calm
             \/ ServiceAllowed(c) \/ HAReturns(c) \/ HAFails(c) \/ DispatchTool(c)
  BY <1>1, CalmSteps DEF Step, Service, Worker
<1>2. ASSUME NEW c \in Callers, Begin(c)
      PROVE  Calm
  BY <1>2, CalmSteps
<1>3. ASSUME StartPraetor
      PROVE  Background
  BY <1>3 DEF Background
<1> QED
  BY <1>1, <1>2, <1>3 DEF BrainNext, Step

-----------------------------------------------------------------------------
(***************************************************************************)
(* The brain implements the Legion.                                        *)
(***************************************************************************)
LEMMA ShapeHolds == BrainSpec => []Shape
<1>1. BrainInit => Shape
  BY DEF BrainInit, Shape
<1>2. Shape /\ [BrainNext]_vars => Shape'
  <2> SUFFICES ASSUME Shape, [BrainNext]_vars
               PROVE  Shape'
    OBVIOUS
  <2>1. CASE Calm
    BY <2>1 DEF Calm
  <2>2. ASSUME NEW c \in Callers,
               ServiceAllowed(c) \/ HAReturns(c) \/ HAFails(c) \/ DispatchTool(c)
                  \/ RecordTool(c)
        PROVE  Shape'
    BY <2>2 DEF Shape, ServiceAllowed, HAReturns, HAFails, DispatchTool, RecordTool, Goto,
                Fail, WriteRow
  <2>3. CASE UNCHANGED brainVars
    BY <2>3 DEF Shape, brainVars
  <2>4. CASE Shutdown
    BY <2>4 DEF Shutdown, Shape
  <2>5. CASE UNCHANGED vars
    BY <2>5 DEF vars, brainVars, Shape
  <2> QED
    BY <2>1, <2>2, <2>3, <2>4, <2>5, BrainSteps
<1> QED
  BY <1>1, <1>2, PTL DEF BrainSpec

\* Whatever the brain does with the registry is a behaviour of the Legion: its guards
\* only narrow the Legion's own.
THEOREM BrainImplementsLegion == BrainSpec => Spec
<1>1. BrainInit => Init
  BY DEF BrainInit
<1>2. Shape /\ [BrainNext]_vars => [Next]_legionVars
  <2> SUFFICES ASSUME Shape, [BrainNext]_vars
               PROVE  [Next]_legionVars
    OBVIOUS
  <2>1. CASE Calm
    BY <2>1 DEF Calm
  <2>2. ASSUME NEW c \in Callers, ServiceAllowed(c) \/ HAReturns(c) \/ HAFails(c)
        PROVE  UNCHANGED legionVars
    BY <2>2 DEF ServiceAllowed, HAReturns, HAFails
  <2>3. ASSUME NEW c \in Callers, DispatchTool(c)
        PROVE  Next
    <3>1. ThisUse(c).name \in WorkerTools
      BY <2>3 DEF DispatchTool, WorkerUse
    <3>2. CapOf[ThisUse(c).name] \in Caps
      BY <3>1, BrainAssumption
    <3> QED
      BY <2>3, <3>2 DEF DispatchTool, Next
  <2>4. ASSUME NEW c \in Callers, RecordTool(c)
        PROVE  Next
    BY <2>4 DEF RecordTool, Next
  <2>5. ASSUME (\E c \in Callers : Await(c)) \/ Background
        PROVE  Next
    BY <2>5 DEF Next
  <2>6. CASE Shutdown
    BY <2>6 DEF Shutdown, Next
  <2>7. CASE UNCHANGED vars
    BY <2>7 DEF vars
  <2> QED
    BY <2>1, <2>2, <2>3, <2>4, <2>5, <2>6, <2>7, BrainSteps
<1> QED
  BY <1>1, <1>2, ShapeHolds, PTL DEF BrainSpec, Spec

\* So the Legion's guarantees hold of the tasks the brain asks for; the first of them is
\* that no process enters handle() twice for one tool use.
THEOREM BrainTasksAtMostOnce == BrainSpec => []HandledOnce
BY BrainImplementsLegion, AtMostOnce, PTL

LEMMA BrainTypes == BrainSpec => []TypeOK
BY BrainImplementsLegion, TypeCorrect, PTL

-----------------------------------------------------------------------------
(***************************************************************************)
(* What the policy engine's verdicts are, for any services, entities,      *)
(* tools and rules.                                                        *)
(***************************************************************************)
\* Rules do not combine (allowlist.py, _evaluate_service): a service call is allowed just
\* when one of the rules allows it alone, whatever the others say and in whatever order.
THEOREM ServiceRulesDoNotCombine ==
    ASSUME NEW rules \in SUBSET ServiceRule, NEW ask \in ServiceCall
    PROVE  EvaluateService(rules, ask) <=> \E r \in rules : EvaluateService({r}, ask)
<1>1. ASSUME EvaluateService(rules, ask)
      PROVE  \E r \in rules : EvaluateService({r}, ask)
  <2>1. CASE \E r \in rules : r.service = ask.service /\ IsPermissive(r)
    BY <2>1 DEF EvaluateService
  <2>2. CASE NamesEntities(ask) /\ \E r \in rules :
                /\ r.service = ask.service /\ ~IsPermissive(r)
                /\ Covers(r, CallEntityIds(ask))
    BY <2>2 DEF EvaluateService
  <2> QED
    BY <1>1, <2>1, <2>2 DEF EvaluateService
<1>2. ASSUME NEW r \in rules, EvaluateService({r}, ask)
      PROVE  EvaluateService(rules, ask)
  BY <1>2 DEF EvaluateService
<1> QED
  BY <1>1, <1>2

\* The same of tool calls (allowlist.py, _evaluate_tool).
THEOREM ToolRulesDoNotCombine ==
    ASSUME NEW rules \in SUBSET ToolRule, NEW ask \in ToolCall
    PROVE  EvaluateTool(rules, ask) <=> \E r \in rules : EvaluateTool({r}, ask)
BY DEF EvaluateTool

\* An operator who adds rules takes nothing away: what was allowed stays allowed.
THEOREM RulesOnlyGrant ==
    ASSUME NEW srules \in SUBSET ServiceRule, NEW more \in SUBSET ServiceRule,
           NEW trules \in SUBSET ToolRule, NEW tmore \in SUBSET ToolRule,
           NEW ask \in Calls, Allowed(srules, trules, ask)
    PROVE  Allowed(srules \cup more, trules \cup tmore, ask)
<1>1. CASE IsServiceCall(ask)
  <2>1. EvaluateService(srules, ask)
    BY <1>1 DEF Allowed
  <2>2. EvaluateService(srules \cup more, ask)
    BY <2>1 DEF EvaluateService
  <2> QED
    BY <1>1, <2>2 DEF Allowed
<1>2. CASE ~IsServiceCall(ask)
  BY <1>2 DEF Allowed, EvaluateTool
<1> QED
  BY <1>1, <1>2

\* The default policy allows nothing (engine.py, DenyAllPolicy).
THEOREM NoRulesDenyAll ==
    ASSUME NEW ask \in Calls
    PROVE  ~Allowed({}, {}, ask)
BY DEF Allowed, EvaluateService, EvaluateTool

\* A rule pinned to entities never lets a call through that names another entity or has no
\* entity_id, unless the operator also left the service free.  (An empty list passes.)
THEOREM PinnedStaysPinned ==
    ASSUME NEW rules \in SUBSET ServiceRule, NEW ask \in ServiceCall,
           \A r \in rules : r.service = ask.service => r.pinned,
           EvaluateService(rules, ask)
    PROVE  /\ ask.target.shape \in {"string", "list"}
           /\ \E r \in rules : ask.target.ids \ {NotAString} \subseteq r.entities
BY DEF EvaluateService, IsPermissive, Covers, NamesEntities, CallEntityIds

-----------------------------------------------------------------------------
(***************************************************************************)
(* OnlyGranted.  What makes it inductive: a decision that awaits Home      *)
(* Assistant does so for a permitted use, and every task that is queued at *)
(* a process or was begun by one was asked for with the policy's consent.  *)
(***************************************************************************)
Consented(t) == asked[t].use.name \in Gated => Permitted(asked[t].use)

AwaitsPermitted == \A c \in Callers : at[c] = "ha" => Permitted(ThisUse(c))
ActedPermitted  == \A a \in acted : Permitted(a.use)
QueuedConsented == \A p \in Procs : \A n \in 1 .. Len(inbox[p]) : Consented(inbox[p][n])
BegunConsented  == \A p \in Procs, t \in Tasks : begun[p][t] > 0 => Consented(t)

GrantInv ==
    /\ Shape /\ asked = [t \in Tasks |-> asked[t]]
    /\ AwaitsPermitted /\ ActedPermitted /\ QueuedConsented /\ BegunConsented

\* The policy's consent comes from one rule.
LEMMA AllowsIsPermitted ==
    ASSUME NEW use, use.name = CallService \/ use.name \in Gated, Allows(use)
    PROVE  Permitted(use)
<1>1. CASE use.name = CallService
  BY <1>1 DEF Allows, EvaluateService, Permitted, PermitsService, IsPermissive, NamesEntities,
              CallEntityIds, Covers
<1>2. CASE use.name # CallService
  <2>1. PICK r \in wiring.tools : r.tool = use.name /\ InputMatches(r, AsToolCall(use))
    BY <1>2 DEF Allows, EvaluateTool, AsToolCall
  <2>2. r.domains = {} \/ use.input = Absent \/ use.input \in r.domains
    BY <2>1 DEF InputMatches, AsToolCall
  <2>3. Absent \notin Domains
    BY PolicyAssumption
  <2> QED
    BY <1>2, <2>1, <2>2, <2>3 DEF Permitted, PermitsTool
<1> QED
  BY <1>1, <1>2

LEMMA GrantInit == BrainInit => GrantInv
<1> SUFFICES ASSUME BrainInit
             PROVE  GrantInv
  OBVIOUS
<1>1. \A p \in Procs : inbox[p] = <<>> /\ \A t \in Tasks : begun[p][t] = 0
  BY DEF BrainInit, Init
<1>2. QueuedConsented /\ BegunConsented
  BY <1>1 DEF QueuedConsented, BegunConsented
<1> QED
  BY <1>2 DEF BrainInit, GrantInv, Shape, AwaitsPermitted, ActedPermitted

\* No step of the Legion but a dispatch puts a task into a queue, and none begins a task
\* that was not in one.
NothingNew ==
    /\ \A p \in Procs : \A n \in 1 .. Len(inbox'[p]) :
          \E k \in 1 .. Len(inbox[p]) : inbox'[p][n] = inbox[p][k]
    /\ \A p \in Procs, t \in Tasks : begun'[p][t] > 0 =>
          begun[p][t] > 0 \/ \E k \in 1 .. Len(inbox[p]) : inbox[p][k] = t

LEMMA LegionMoves ==
    ASSUME TypeOK, Background \/ (\E c \in Callers : Await(c) \/ Record(c)) \/ PraetorDown
    PROVE  NothingNew
<1>1. CASE UNCHANGED <<inbox, begun>>
  BY <1>1 DEF NothingNew
<1>2. CASE PraetorDown
  <2>1. begun' = begun /\ \A p \in Procs : inbox'[p] = <<>> \/ inbox'[p] = inbox[p]
    BY <1>2 DEF PraetorDown
  <2> QED
    BY <2>1 DEF NothingNew
<1>3. ASSUME NEW p \in Procs, WorkerDown(p)
      PROVE  NothingNew
  <2>1. begun' = begun /\ \A q \in Procs : inbox'[q] = <<>> \/ inbox'[q] = inbox[q]
    BY <1>3 DEF WorkerDown, TypeOK
  <2> QED
    BY <2>1 DEF NothingNew
<1>4. ASSUME NEW p \in Procs, Take(p)
      PROVE  NothingNew
  <2>1. inbox[p] \in Seq(Tasks) /\ inbox[p] # <<>>
    BY <1>4 DEF Take, TypeOK
  <2>2. \A q \in Procs : inbox'[q] = IF q = p THEN Tail(inbox[p]) ELSE inbox[q]
    BY <1>4 DEF Take, TypeOK
  <2>3. \A n \in 1 .. Len(Tail(inbox[p])) :
           n + 1 \in 1 .. Len(inbox[p]) /\ Tail(inbox[p])[n] = inbox[p][n + 1]
    BY <2>1
  <2>4. \A q \in Procs, t \in Tasks : begun'[q][t] > 0 =>
           begun[q][t] > 0 \/ (q = p /\ t = Head(inbox[p]))
    BY <1>4, <2>1 DEF Take, TypeOK
  <2>5. 1 \in 1 .. Len(inbox[p]) /\ Head(inbox[p]) = inbox[p][1]
    BY <2>1
  <2> QED
    BY <2>2, <2>3, <2>4, <2>5 DEF NothingNew
<1>5. CASE StartPraetor \/ Register
  BY <1>1, <1>5 DEF StartPraetor, Register, workerVars
<1>6. ASSUME NEW p \in Procs, Subscribe(p) \/ Announce(p) \/ \E v \in {"ok", "failed"} : Finish(p, v)
      PROVE  NothingNew
  BY <1>1, <1>6 DEF Subscribe, Announce, Finish
<1>7. ASSUME NEW c \in Callers, Await(c) \/ Record(c)
      PROVE  NothingNew
  BY <1>1, <1>7 DEF Await, Timeout, GiveUp, Receive, RecordFails, Record, workerVars
<1> QED
  BY <1>2, <1>3, <1>4, <1>5, <1>6, <1>7 DEF Background

\* Where nothing new is queued and asked and wiring stay, the consents stay.
LEMMA ConsentsStay ==
    ASSUME GrantInv, TypeOK, NothingNew, UNCHANGED <<asked, wiring>>
    PROVE  QueuedConsented' /\ BegunConsented' /\ (asked = [t \in Tasks |-> asked[t]])'
<1>1. \A t : Consented(t) => Consented(t)'
  BY DEF Consented, Permitted
<1>2. QueuedConsented'
  BY <1>1 DEF GrantInv, QueuedConsented, NothingNew
<1>3. \A p \in Procs : \A k \in 1 .. Len(inbox[p]) : Consented(inbox[p][k])
  BY DEF GrantInv, QueuedConsented
<1>4. BegunConsented'
  BY <1>1, <1>3 DEF GrantInv, BegunConsented, NothingNew
<1> QED
  BY <1>2, <1>4 DEF GrantInv

\* A dispatch is preceded by the policy's consent and hands it to the fresh task.
LEMMA DispatchConsents ==
    ASSUME GrantInv, TypeOK, NEW c \in Callers, DispatchTool(c), UNCHANGED wiring
    PROVE  QueuedConsented' /\ BegunConsented' /\ (asked = [t \in Tasks |-> asked[t]])'
<1>1. praetor /\ seq[c] < MaxCalls /\ Call(c, CapOf[ThisUse(c).name])
  BY DEF DispatchTool, Call, Dispatch, DispatchNoWorker
<1>2. PICK f \in Tasks : f = Fresh(c)
  BY <1>1, FreshIsTask
<1>3. PICK use : use = ThisUse(c)
  OBVIOUS
<1>4. Consented(f)'
  <2>1. use.name \in Gated => Permitted(use)
    BY <1>3, AllowsIsPermitted DEF DispatchTool, Granted
  <2>2. asked'[f].use = use
    BY <1>2, <1>3 DEF GrantInv, DispatchTool, AskFor
  <2>3. use.name \in Gated => Permitted(use)'
    BY <2>1 DEF Permitted
  <2> QED
    BY <2>2, <2>3 DEF Consented, Permitted
<1>5. ASSUME NEW t \in Tasks, Consented(t)
      PROVE  Consented(t)'
  <2>1. CASE t = f
    BY <1>4, <2>1
  <2>2. CASE t # f
    <3>1. asked'[t] = asked[t]
      BY <1>2, <2>2 DEF GrantInv, DispatchTool
    <3> QED
      BY <1>5, <3>1 DEF Consented, Permitted
  <2> QED
    BY <2>1, <2>2
<1>6. \A p \in Procs : inbox'[p] = inbox[p] \/ inbox'[p] = Append(inbox[p], f)
  BY <1>1, <1>2 DEF Call, Dispatch, DispatchNoWorker, Deliver, workerVars
<1>7. begun' = begun
  BY <1>1 DEF Call, Dispatch, DispatchNoWorker, workerVars
<1>8. QueuedConsented'
  <2> SUFFICES ASSUME NEW p \in Procs, NEW n \in (1 .. Len(inbox[p]))'
               PROVE  Consented(inbox[p][n])'
    BY DEF QueuedConsented
  <2>1. inbox[p] \in Seq(Tasks)
    BY DEF TypeOK
  <2>2. (n \in 1 .. Len(inbox[p]) /\ inbox'[p][n] = inbox[p][n]) \/ inbox'[p][n] = f
    BY <1>2, <1>6, <2>1
  <2>3. PICK t \in Tasks : t = inbox'[p][n] /\ (t = f \/ Consented(t))
    <3>1. ASSUME n \in 1 .. Len(inbox[p])
          PROVE  inbox[p][n] \in Tasks /\ Consented(inbox[p][n])
      BY <2>1, <3>1 DEF GrantInv, QueuedConsented
    <3> QED
      BY <1>2, <2>2, <3>1
  <2>4. Consented(t)'
    BY <1>4, <1>5, <2>3
  <2> QED
    BY <2>3, <2>4 DEF Consented
<1>9. BegunConsented'
  BY <1>5, <1>7 DEF GrantInv, BegunConsented
<1>10. asked' = [t \in Tasks |-> asked'[t]]
  BY DEF GrantInv, DispatchTool
<1> QED
  BY <1>8, <1>9, <1>10

\* The steps toward Home Assistant and back.
LEMMA ServiceKeeps ==
    ASSUME GrantInv, NEW c \in Callers, ServiceAllowed(c) \/ HAReturns(c) \/ HAFails(c),
           UNCHANGED wiring
    PROVE  Shape' /\ AwaitsPermitted' /\ ActedPermitted' /\ NothingNew /\ asked' = asked
<1>1. Shape'
  BY DEF GrantInv, Shape, ServiceAllowed, HAReturns, HAFails, Goto, Fail, WriteRow
<1>2. NothingNew /\ asked' = asked /\ UNCHANGED <<uses, answers>>
  BY DEF ServiceAllowed, HAReturns, HAFails, Fail, WriteRow, legionVars, workerVars, NothingNew
<1>3. ASSUME NEW d \in Callers, at'[d] = "ha"
      PROVE  Permitted(ThisUse(d))'
  <2>1. Permitted(ThisUse(d))
    <3>1. CASE at[d] = "ha"
      BY <3>1 DEF GrantInv, AwaitsPermitted
    <3>2. CASE at[d] # "ha"
      <4>1. d = c /\ ServiceAllowed(c)
        BY <1>3, <3>2 DEF GrantInv, Shape, ServiceAllowed, HAReturns, HAFails, Goto, Fail,
                          WriteRow
      <4> QED
        BY <4>1, AllowsIsPermitted DEF ServiceAllowed, ValidService, Granted
    <3> QED
      BY <3>1, <3>2
  <2> QED
    BY <1>2, <2>1 DEF ThisUse, Idx, Permitted
<1>4. ASSUME NEW a \in acted'
      PROVE  Permitted(a.use)'
  <2>1. a \in acted \/ (a = Act(c) /\ at[c] = "ha")
    BY <1>4 DEF ServiceAllowed, HAReturns, HAFails
  <2>2. Permitted(a.use)
    BY <2>1 DEF GrantInv, ActedPermitted, AwaitsPermitted, Act
  <2> QED
    BY <2>2 DEF Permitted
<1> QED
  BY <1>1, <1>2, <1>3, <1>4 DEF AwaitsPermitted, ActedPermitted

LEMMA GrantStep == GrantInv /\ TypeOK /\ [BrainNext]_vars => GrantInv'
<1> SUFFICES ASSUME GrantInv, TypeOK, [BrainNext]_vars
             PROVE  GrantInv'
  OBVIOUS
<1> DEFINE Rest == Shape /\ AwaitsPermitted /\ ActedPermitted
<1>1. Shape
  BY DEF GrantInv
<1>2. ASSUME NothingNew, UNCHANGED <<asked, wiring>>, Rest'
      PROVE  GrantInv'
  BY <1>2, ConsentsStay DEF GrantInv
<1>3. CASE Calm /\ UNCHANGED wiring
  <2>1. NothingNew /\ asked' = asked /\ acted' = acted
    BY <1>3 DEF Calm, NothingNew, legionVars, workerVars
  <2>2. ASSUME NEW d \in Callers, at'[d] = "ha"
        PROVE  Permitted(ThisUse(d))'
    BY <1>3, <2>2 DEF Calm, GrantInv, AwaitsPermitted, ThisUse, Idx, Permitted
  <2>3. ActedPermitted'
    BY <1>3, <2>1 DEF GrantInv, ActedPermitted, Permitted
  <2> QED
    BY <1>2, <1>3, <2>1, <2>2, <2>3 DEF Calm, AwaitsPermitted
<1>4. ASSUME NEW c \in Callers, ServiceAllowed(c) \/ HAReturns(c) \/ HAFails(c),
             UNCHANGED wiring
      PROVE  GrantInv'
  BY <1>2, <1>4, ServiceKeeps
<1>5. ASSUME NEW c \in Callers, DispatchTool(c), UNCHANGED wiring
      PROVE  GrantInv'
  <2>1. QueuedConsented' /\ BegunConsented' /\ (asked = [t \in Tasks |-> asked[t]])'
    BY <1>5, DispatchConsents
  <2>2. Shape' /\ acted' = acted /\ uses' = uses /\ answers' = answers
    BY <1>1, <1>5 DEF DispatchTool, Shape, Goto
  <2>3. \A d \in Callers : at'[d] = "ha" => at[d] = "ha"
    BY <1>1, <1>5 DEF DispatchTool, Shape, Goto
  <2>4. AwaitsPermitted'
    BY <1>5, <2>2, <2>3 DEF GrantInv, AwaitsPermitted, ThisUse, Idx, Permitted
  <2>5. ActedPermitted'
    BY <1>5, <2>2 DEF GrantInv, ActedPermitted, Permitted
  <2> QED
    BY <2>1, <2>2, <2>4, <2>5 DEF GrantInv
<1>6. ASSUME NEW c \in Callers, RecordTool(c), UNCHANGED wiring
      PROVE  GrantInv'
  <2>1. NothingNew
    BY <1>6, LegionMoves DEF RecordTool
  <2>2. UNCHANGED <<at, uses, answers, acted, asked>>
    BY <1>6 DEF RecordTool
  <2>3. Rest'
    BY <1>6, <2>2 DEF GrantInv, Shape, AwaitsPermitted, ActedPermitted, ThisUse, Idx, Permitted
  <2> QED
    BY <1>2, <1>6, <2>1, <2>2, <2>3
<1>7. CASE ((\E c \in Callers : Await(c)) \/ Background) /\ UNCHANGED brainVars
  <2>1. NothingNew
    BY <1>7, LegionMoves
  <2>2. UNCHANGED <<wiring, at, uses, answers, acted, asked>>
    BY <1>7 DEF brainVars
  <2>3. Rest'
    BY <2>2 DEF GrantInv, Shape, AwaitsPermitted, ActedPermitted, ThisUse, Idx, Permitted
  <2> QED
    BY <1>2, <2>1, <2>2, <2>3
<1>8. CASE Shutdown /\ UNCHANGED wiring
  <2>1. NothingNew
    BY <1>8, LegionMoves DEF Shutdown
  <2>2. UNCHANGED <<uses, answers, asked>> /\ Shape'
    BY <1>1, <1>8 DEF Shutdown, Shape
  <2>3. \A d \in Callers : at'[d] # "ha"
    BY <1>8 DEF Shutdown, Live, Ended
  <2>4. ASSUME NEW a \in acted'
        PROVE  Permitted(a.use)'
    <3>1. a \in acted \/ \E d \in Callers : at[d] = "ha" /\ a = Act(d)
      BY <1>8, <2>4 DEF Shutdown
    <3>2. Permitted(a.use)
      BY <3>1 DEF GrantInv, ActedPermitted, AwaitsPermitted, Act
    <3> QED
      BY <1>8, <3>2 DEF Permitted
  <2> QED
    BY <1>2, <1>8, <2>1, <2>2, <2>3, <2>4 DEF AwaitsPermitted, ActedPermitted
<1>9. CASE UNCHANGED vars
  <2>1. UNCHANGED <<wiring, at, uses, answers, acted, asked, inbox, begun>>
    BY <1>9 DEF vars, brainVars, legionVars, workerVars
  <2>2. NothingNew
    BY <2>1 DEF NothingNew
  <2>3. Rest'
    BY <2>1 DEF GrantInv, Shape, AwaitsPermitted, ActedPermitted, ThisUse, Idx, Permitted
  <2> QED
    BY <1>2, <2>1, <2>2, <2>3
<1> QED
  BY <1>1, <1>3, <1>4, <1>5, <1>6, <1>7, <1>8, <1>9, BrainSteps

\* Nothing takes effect that no single rule of the policy permits, for any policy, tools,
\* decisions and bounds (graph.py:332-348, dispatch.py:37-50).
THEOREM NothingBeyondTheRules == BrainSpec => []OnlyGranted
<1>1. GrantInv => OnlyGranted
  BY DEF GrantInv, ActedPermitted, BegunConsented, Consented, OnlyGranted, Ran
<1> QED
  BY <1>1, GrantInit, GrantStep, BrainTypes, PTL DEF BrainSpec
-----------------------------------------------------------------------------
(***************************************************************************)
(* The loop.  What a decision is about to do it does below the cap and for *)
(* a use in hand; a dispatch of the Legion belongs to that use; and a row  *)
(* waits to be written exactly for it.                                     *)
(***************************************************************************)
Busy == {"ha", "legion", "audit"}

Room(c) ==
    /\ at[c] = "idle" => iteration[c] = 0 /\ answers[c] = <<>>
    /\ at[c] \in Busy \cup {"llm", "tools"} => iteration[c] < MaxIterations

InHand(c) ==
    /\ Len(uses[c]) <= MaxUses
    /\ at[c] \in Busy => Len(answers[c]) < Len(uses[c])
    /\ at[c] = "ha" => ThisUse(c).name = CallService
    /\ at[c] = "legion" => ThisUse(c).name \in WorkerTools

Linked(c) == pc[c] # "idle" => at[c] = "legion" /\ asked[Current(c)] = AskFor(c)

Writing(c) == at[c] = "audit" =>
    pending[c] \in TrailRow /\ pending[c].turn = iteration[c] /\ pending[c].idx = Idx(c)

Local(c) == Room(c) /\ InHand(c) /\ Linked(c) /\ Writing(c)

LoopInv == BrainTypeOK /\ LoopCap /\ \A c \in Callers : Local(c)

-----------------------------------------------------------------------------
(***************************************************************************)
(* The trail.  A row is backed when what it claims happened, and what      *)
(* backs it stays: Home Assistant's calls are history, a verdict is        *)
(* settled, and a dispatch only ever marks a task nobody began.            *)
(***************************************************************************)
Proven(t, turn, idx) == /\ Sent(t) /\ asked[t].turn = turn /\ asked[t].idx = idx
                        /\ \E p \in Procs : verdict[p][t] = "ok"

Backed(c, r) ==
    /\ r.event = "service.called" =>
          \E a \in acted : a.decision = c /\ a.turn = r.turn /\ a.idx = r.idx
    /\ r.event \in {"tool.called", "legion.dispatched"} /\ r.ok =>
          \E t \in TasksOf(c) : Proven(t, r.turn, r.idx)

DispatchRow(r) == [r EXCEPT !.event = "legion.dispatched"]

\* What a row of the worker tools says is that the dispatch's own row stands before it.
Follows(c, r, n) == r.event = "tool.called" /\ r.ok =>
    \E j \in 1 .. n : trail[c][j] = DispatchRow(r)

TrailBacked(c) == \A i \in 1 .. Len(trail[c]) :
    Backed(c, trail[c][i]) /\ Follows(c, trail[c][i], i - 1)

PendingBacked(c) == at[c] = "audit" =>
    /\ Backed(c, pending[c]) /\ Follows(c, pending[c], Len(trail[c]))
    /\ pending[c].ok => pending[c].event = RowOfUse(ThisUse(c))

ReturnRecorded(c) == at[c] = "legion" /\ pc[c] = "idle" /\ res[c] = "ok" =>
    RowFor(c, "legion.dispatched", TRUE) \in Rows(c)

AnswersRecorded(c) == \A i \in 1 .. Len(answers[c]) : answers[c][i] = "ok" =>
    [event |-> RowOfUse(uses[c][i]), turn |-> iteration[c], idx |-> i, ok |-> TRUE] \in Rows(c)

AnswersBounded(c) == Len(answers[c]) <= Len(uses[c])

\* What holds of one decision's trail.
TrailOf(c) == TrailBacked(c) /\ PendingBacked(c) /\ ReturnRecorded(c) /\ AnswersRecorded(c)
                  /\ AnswersBounded(c)

TrailInv == \A c \in Callers : TrailOf(c)

BrainInv == LoopInv /\ TrailInv

-----------------------------------------------------------------------------
(***************************************************************************)
(* Types and the loop.                                                     *)
(***************************************************************************)
LEMMA ResponsesAreShort ==
    ASSUME NEW us \in Responses
    PROVE  us \in Seq(Use) /\ Len(us) \in 0 .. MaxUses
<1>1. PICK n \in 0 .. MaxUses : us \in [1 .. n -> Use]
  BY DEF Responses
<1>2. n \in Nat
  BY <1>1, BrainAssumption
<1> QED
  BY <1>1, <1>2

\* The use at hand, and the numbers a row or a dispatch takes from it.
LEMMA UseAtHand ==
    ASSUME BrainTypeOK, NEW c \in Callers, Local(c), HasUse(c) \/ at[c] \in Busy
    PROVE  /\ ThisUse(c) \in Use /\ Idx(c) \in 1 .. Len(uses[c]) /\ Idx(c) \in 0 .. MaxUses
           /\ iteration[c] \in 0 .. MaxIterations /\ iteration[c] < MaxIterations
<1>1. uses[c] \in Seq(Use) /\ answers[c] \in Seq(Answers)
      /\ iteration[c] \in 0 .. MaxIterations
  BY DEF BrainTypeOK
<1>2. Len(uses[c]) \in Nat /\ Len(answers[c]) \in Nat /\ Len(uses[c]) <= MaxUses
  BY <1>1 DEF Local, InHand
<1>3. Len(answers[c]) < Len(uses[c])
  BY DEF HasUse, Local, InHand
<1>4. Idx(c) \in 1 .. Len(uses[c]) /\ Idx(c) \in 0 .. MaxUses
  BY <1>2, <1>3, BrainAssumption DEF Idx
<1>5. ThisUse(c) \in Use
  BY <1>1, <1>4 DEF ThisUse
<1>6. iteration[c] < MaxIterations
  BY DEF HasUse, Busy, Local, Room
<1> QED
  BY <1>1, <1>4, <1>5, <1>6

\* A step of a decision that leaves the Legion and the askings alone.
Quiet(c) ==
    \/ Think(c) \/ UnknownTool(c) \/ Service(c) \/ Begin(c) \/ Finishing(c)
    \/ WorkerUseWithoutRegistry(c) \/ ToolDenied(c) \/ GatedReturns(c)
    \/ RecallReturns(c) \/ DispatchRaises(c)

LEMMA RowIsRow ==
    ASSUME BrainTypeOK, NEW c \in Callers, Local(c), HasUse(c) \/ at[c] \in Busy,
           NEW event \in Events, NEW ok \in BOOLEAN
    PROVE  /\ RowFor(c, event, ok) \in TrailRow
           /\ RowFor(c, event, ok).turn = iteration[c] /\ RowFor(c, event, ok).idx = Idx(c)
           /\ RowFor(c, event, ok).event = event /\ RowFor(c, event, ok).ok = ok
<1>1. Idx(c) \in 0 .. MaxUses /\ iteration[c] \in 0 .. MaxIterations
  BY UseAtHand
<1> QED
  BY <1>1 DEF RowFor, TrailRow

LEMMA QuietTypes ==
    ASSUME LoopInv, NEW c \in Callers, Quiet(c), UNCHANGED wiring
    PROVE  BrainTypeOK'
<1>0. BrainTypeOK /\ Local(c)
  BY DEF LoopInv
<1> USE <1>0 DEF BrainTypeOK, Goto, Fail, Answer, WriteRow, Ended
<1>1. CASE LLMFails(c)
  BY <1>1 DEF LLMFails
<1>2. ASSUME NEW us \in Responses, LLMReturns(c, us)
      PROVE  BrainTypeOK'
  <2>1. us \in Seq(Use)
    BY ResponsesAreShort
  <2>2. iteration[c] + 1 \in 0 .. MaxIterations
    BY <1>2, BrainAssumption DEF LLMReturns, Local, Room
  <2> QED
    BY <1>2, <2>1, <2>2 DEF LLMReturns
<1>3. CASE UnknownTool(c) \/ InvalidService(c)
  <2>1. Append(answers[c], "error") \in Seq(Answers)
    BY DEF Answers
  <2> QED
    BY <1>3, <2>1 DEF UnknownTool, InvalidService
<1>4. CASE ServiceWithoutHA(c) \/ ServiceAllowed(c) \/ ServiceResponds(c)
  BY <1>4 DEF ServiceWithoutHA, ServiceAllowed, ServiceResponds
<1>5. CASE ServiceDenied(c)
  <2>1. RowFor(c, "policy.denied", FALSE) \in TrailRow
    BY <1>5, RowIsRow DEF ServiceDenied, ValidService, Events
  <2> QED
    BY <1>5, <2>1 DEF ServiceDenied
<1>6. ASSUME at[c] = "ha"
      PROVE  Act(c) \in [decision : Callers, use : Use, turn : 0 .. MaxIterations,
                         idx : 0 .. MaxUses]
  BY <1>6, UseAtHand DEF Act, Busy
<1>7. CASE HAReturns(c)
  <2>1. RowFor(c, "service.called", TRUE) \in TrailRow
    BY <1>7, RowIsRow DEF HAReturns, Busy, Events
  <2> QED
    BY <1>6, <1>7, <2>1 DEF HAReturns
<1>8. CASE HAFails(c)
  BY <1>6, <1>8 DEF HAFails
<1>9. CASE Start(c)
  BY <1>9 DEF Start, Tools
<1>10. ASSUME NEW input \in ServiceInputs, PostService(c, input)
       PROVE  BrainTypeOK'
  <2>1. <<[name |-> CallService, input |-> input]>> \in Seq(Use)
    BY DEF Use
  <2> QED
    BY <1>10, <2>1 DEF PostService
<1>11. CASE AuditReturns(c)
  <2>1. pending[c] \in TrailRow
    BY <1>11 DEF AuditReturns, Local, Writing
  <2> QED
    BY <1>11, <2>1 DEF AuditReturns, TrailAfter, Answers
<1>12. CASE AuditFails(c) \/ EndTurn(c) \/ CloseFails(c)
  BY <1>12 DEF AuditFails, EndTurn, CloseFails, Raised
<1>13. CASE Close(c)
  <2>1. [event |-> "chat.completed", turn |-> iteration[c], idx |-> 0, ok |-> TRUE]
           \in TrailRow
    BY BrainAssumption DEF TrailRow, Events
  <2> QED
    BY <1>13, <2>1 DEF Close
<1>14. CASE WorkerUseWithoutRegistry(c) \/ DispatchRaises(c)
  BY <1>14 DEF WorkerUseWithoutRegistry, DispatchRaises, Returned
<1>15. CASE ToolDenied(c)
  <2>1. RowFor(c, "tool.denied", FALSE) \in TrailRow
    BY <1>15, RowIsRow DEF ToolDenied, WorkerUse, Events
  <2> QED
    BY <1>15, <2>1 DEF ToolDenied
<1>16. CASE GatedReturns(c)
  <2>1. RowFor(c, "tool.called", ToolSucceeded(c)) \in TrailRow
    BY <1>16, RowIsRow DEF GatedReturns, Returned, Busy, Events, ToolSucceeded
  <2> QED
    BY <1>16, <2>1 DEF GatedReturns
<1>17. CASE RecallReturns(c)
  BY <1>17 DEF RecallReturns, Answers
<1> QED
  BY <1>1, <1>2, <1>3, <1>4, <1>5, <1>7, <1>8, <1>9, <1>10, <1>11, <1>12, <1>13, <1>14,
     <1>15, <1>16, <1>17 DEF Quiet, Think, Service, Begin, Finishing

\* Nothing that is said of decision d changed.
Stays(d) ==
    /\ at'[d] = at[d] /\ iteration'[d] = iteration[d] /\ uses'[d] = uses[d]
    /\ answers'[d] = answers[d] /\ pending'[d] = pending[d] /\ trail'[d] = trail[d]
    /\ pc'[d] = pc[d] /\ seq'[d] = seq[d] /\ res'[d] = res[d]
    /\ pc[d] # "idle" => asked'[Current(d)] = asked[Current(d)]

LEMMA StaysLocal ==
    ASSUME NEW d \in Callers, Local(d), Stays(d)
    PROVE  Local(d)'
<1>1. Room(d)'
  BY DEF Local, Room, Stays
<1>2. InHand(d)'
  BY DEF Local, InHand, ThisUse, Idx, Stays
<1>3. Linked(d)'
  BY DEF Local, Linked, Current, AskFor, ThisUse, Idx, Stays
<1>4. Writing(d)'
  BY DEF Local, Writing, Idx, Stays
<1> QED
  BY <1>1, <1>2, <1>3, <1>4 DEF Local

LEMMA QuietOthers ==
    ASSUME BrainTypeOK, NEW c \in Callers, Quiet(c), NEW d \in Callers, d # c
    PROVE  Stays(d)
<1> USE DEF BrainTypeOK, Goto, Fail, Answer, WriteRow, Stays, Current, legionVars, callVars
<1>1. CASE Think(c)
  BY <1>1 DEF Think, LLMFails, LLMReturns
<1>2. CASE UnknownTool(c) \/ Begin(c)
  BY <1>2 DEF UnknownTool, Begin, Start, PostService
<1>3. CASE InvalidService(c) \/ ServiceWithoutHA(c) \/ ServiceDenied(c)
  BY <1>3 DEF InvalidService, ServiceWithoutHA, ServiceDenied
<1>4. CASE ServiceAllowed(c) \/ HAReturns(c) \/ HAFails(c) \/ ServiceResponds(c)
  BY <1>4 DEF ServiceAllowed, HAReturns, HAFails, ServiceResponds
<1>5. CASE Finishing(c)
  BY <1>5 DEF Finishing, AuditReturns, AuditFails, EndTurn, Close, CloseFails
<1>6. CASE WorkerUseWithoutRegistry(c) \/ ToolDenied(c) \/ GatedReturns(c)
  BY <1>6 DEF WorkerUseWithoutRegistry, ToolDenied, GatedReturns
<1>7. CASE RecallReturns(c) \/ DispatchRaises(c)
  BY <1>7 DEF RecallReturns, DispatchRaises
<1> QED
  BY <1>1, <1>2, <1>3, <1>4, <1>5, <1>6, <1>7 DEF Quiet, Service

\* Where a decision may be after a quiet step of its own, and with what in hand.
LEMMA QuietLocal ==
    ASSUME LoopInv, NEW c \in Callers, Quiet(c)
    PROVE  Local(c)'
<1>0. BrainTypeOK /\ Local(c)
  BY DEF LoopInv
<1>a. /\ uses[c] \in Seq(Use) /\ answers[c] \in Seq(Answers)
      /\ iteration[c] \in 0 .. MaxIterations
  BY <1>0 DEF BrainTypeOK
<1>b. Len(uses[c]) \in Nat /\ Len(answers[c]) \in Nat /\ Len(uses[c]) <= MaxUses
  BY <1>0, <1>a DEF Local, InHand
<1>c. at[c] # "legion" => pc[c] = "idle"
  BY <1>0 DEF Local, Linked
<1>d. pc' = pc /\ seq' = seq /\ asked' = asked
  BY DEF Quiet, Think, LLMFails, LLMReturns, UnknownTool, Service, InvalidService,
         ServiceWithoutHA, ServiceDenied, ServiceAllowed, HAReturns, HAFails, ServiceResponds,
         Begin, Start, PostService, Finishing, AuditReturns, AuditFails, EndTurn, Close,
         CloseFails, WorkerUseWithoutRegistry, ToolDenied, GatedReturns, RecallReturns,
         DispatchRaises, legionVars, callVars
<1>e. ASSUME at'[c] \in Ended \cup {"closing"}, uses'[c] = uses[c], pc[c] = "idle"
      PROVE  Local(c)'
  BY <1>b, <1>d, <1>e DEF Ended, Busy, Local, Room, InHand, Linked, Writing
<1>f. ASSUME at'[c] = "tools", uses'[c] = uses[c], iteration'[c] = iteration[c],
             pc[c] = "idle", iteration[c] < MaxIterations
      PROVE  Local(c)'
  BY <1>b, <1>d, <1>f DEF Busy, Local, Room, InHand, Linked, Writing
<1>g. ASSUME at'[c] = "audit", uses'[c] = uses[c], iteration'[c] = iteration[c],
             answers'[c] = answers[c], pc[c] = "idle", HasUse(c) \/ at[c] \in Busy,
             NEW event \in Events, NEW ok \in BOOLEAN, pending'[c] = RowFor(c, event, ok)
      PROVE  Local(c)'
  <2>1. /\ RowFor(c, event, ok) \in TrailRow
        /\ RowFor(c, event, ok).turn = iteration[c] /\ RowFor(c, event, ok).idx = Idx(c)
    BY <1>0, <1>g, RowIsRow
  <2>2. Len(answers[c]) < Len(uses[c]) /\ iteration[c] < MaxIterations
    BY <1>0, <1>g DEF HasUse, Busy, Local, InHand, Room
  <2> QED
    BY <1>b, <1>d, <1>g, <2>1, <2>2 DEF Busy, Local, Room, InHand, Linked, Writing, Idx
<1> USE <1>0 DEF Goto, Fail, Answer, WriteRow
<1>1. CASE LLMFails(c) \/ ServiceWithoutHA(c) \/ HAFails(c) \/ WorkerUseWithoutRegistry(c)
             \/ AuditFails(c) \/ CloseFails(c)
  BY <1>c, <1>e, <1>1 DEF BrainTypeOK, LLMFails, ServiceWithoutHA, ValidService, HAFails,
     WorkerUseWithoutRegistry, WorkerUse, AuditFails, CloseFails, HasUse, Ended
<1>2. CASE ServiceResponds(c) \/ Close(c) \/ DispatchRaises(c)
  BY <1>c, <1>e, <1>2 DEF BrainTypeOK, ServiceResponds, Close, DispatchRaises, Returned, Ended
<1>3. CASE UnknownTool(c) \/ InvalidService(c) \/ RecallReturns(c) \/ AuditReturns(c)
  BY <1>c, <1>f, <1>3 DEF BrainTypeOK, UnknownTool, InvalidService, RecallReturns,
     AuditReturns, Returned, HasUse, Local, Room, Busy
<1>4. CASE ServiceDenied(c)
  BY <1>c, <1>g, <1>4 DEF BrainTypeOK, ServiceDenied, ValidService, HasUse, Events
<1>5. CASE HAReturns(c)
  BY <1>c, <1>g, <1>5 DEF BrainTypeOK, HAReturns, Busy, Events
<1>6. CASE ToolDenied(c)
  BY <1>c, <1>g, <1>6 DEF BrainTypeOK, ToolDenied, WorkerUse, HasUse, Events
<1>7. CASE GatedReturns(c)
  BY <1>c, <1>g, <1>7 DEF BrainTypeOK, GatedReturns, Returned, Busy, Events, ToolSucceeded
<1>8. CASE ServiceAllowed(c)
  <2>1. /\ at'[c] = "ha" /\ at[c] = "tools" /\ Len(answers[c]) < Len(uses[c])
        /\ ThisUse(c).name = CallService
        /\ UNCHANGED <<uses, answers, iteration>>
    BY <1>8 DEF BrainTypeOK, ServiceAllowed, ValidService, HasUse
  <2> QED
    BY <1>b, <1>c, <1>d, <2>1 DEF Busy, Local, Room, InHand, Linked, Writing, ThisUse, Idx
<1>9. CASE EndTurn(c)
  <2>1. at'[c] = "llm" /\ at[c] = "tools" /\ UNCHANGED <<uses, iteration>>
    BY <1>9 DEF BrainTypeOK, EndTurn
  <2> QED
    BY <1>b, <1>c, <1>d, <2>1 DEF Busy, Local, Room, InHand, Linked, Writing
<1>10. ASSUME NEW us \in Responses, LLMReturns(c, us)
       PROVE  Local(c)'
  <2>1. Len(us) <= MaxUses
    BY ResponsesAreShort
  <2>2. /\ at[c] = "llm" /\ uses'[c] = us /\ iteration'[c] = iteration[c] + 1
        /\ at'[c] \in {"tools", "closing"}
        /\ at'[c] = "tools" => iteration[c] + 1 < MaxIterations
    BY <1>10 DEF BrainTypeOK, LLMReturns, RouteToTools
  <2> QED
    BY <1>c, <1>d, <2>1, <2>2 DEF Busy, Local, Room, InHand, Linked, Writing
<1>11. CASE Start(c)
  <2>1. at'[c] = "llm" /\ at[c] = "idle" /\ UNCHANGED <<uses, iteration>>
    BY <1>11 DEF BrainTypeOK, Start
  <2> QED
    BY <1>b, <1>c, <1>d, <2>1, BrainAssumption
       DEF Busy, Local, Room, InHand, Linked, Writing
<1>12. ASSUME NEW input \in ServiceInputs, PostService(c, input)
       PROVE  Local(c)'
  <2>1. at'[c] = "tools" /\ at[c] = "idle" /\ UNCHANGED iteration
        /\ uses'[c] = <<[name |-> CallService, input |-> input]>>
    BY <1>12 DEF BrainTypeOK, PostService
  <2>2. Len(uses'[c]) <= MaxUses
    BY <2>1, BrainAssumption
  <2> QED
    BY <1>c, <1>d, <2>1, <2>2, BrainAssumption
       DEF Busy, Local, Room, InHand, Linked, Writing
<1> QED
  BY <1>1, <1>2, <1>3, <1>4, <1>5, <1>6, <1>7, <1>8, <1>9, <1>10, <1>11, <1>12
     DEF Quiet, Think, Service, Begin, Finishing

\* A dispatch: the decision waits for the fresh task, asked for its use at hand.
LEMMA DispatchLoop ==
    ASSUME LoopInv, TypeOK, NEW c \in Callers, DispatchTool(c), UNCHANGED wiring
    PROVE  /\ BrainTypeOK' /\ Local(c)' /\ LoopCap'
           /\ \A d \in Callers : d # c => Stays(d)
           /\ Fresh(c) \in Tasks /\ asked' = [asked EXCEPT ![Fresh(c)] = AskFor(c)]
           /\ \A t \in Tasks : t # Fresh(c) => to'[t] = to[t]
           /\ res'[c] # "ok" /\ Current(c)' = Fresh(c)
<1>1. praetor /\ seq[c] < MaxCalls /\ Call(c, CapOf[ThisUse(c).name])
  BY DEF DispatchTool, Call, Dispatch, DispatchNoWorker
<1>2. Fresh(c) \in Tasks
  BY <1>1, FreshIsTask
<1>3. BrainTypeOK /\ Local(c)
  BY DEF LoopInv
<1>4. /\ at' = [at EXCEPT ![c] = "legion"]
      /\ asked' = [asked EXCEPT ![Fresh(c)] = AskFor(c)]
      /\ UNCHANGED <<offered, iteration, uses, answers, pending, trail, why, acted>>
  BY DEF DispatchTool, Goto
<1>5. HasUse(c) /\ ThisUse(c).name \in WorkerTools
  BY DEF DispatchTool, WorkerUse
<1>6. /\ ThisUse(c) \in Use /\ Idx(c) \in 0 .. MaxUses
      /\ iteration[c] \in 0 .. MaxIterations /\ iteration[c] < MaxIterations
  BY <1>3, <1>5, UseAtHand
<1>7. AskFor(c) \in [use : Use, turn : 0 .. MaxIterations, idx : 0 .. MaxUses]
  BY <1>6 DEF AskFor
<1>8. BrainTypeOK'
  BY <1>2, <1>3, <1>4, <1>7 DEF BrainTypeOK
<1>9. /\ seq' = [seq EXCEPT ![c] = @ + 1]
      /\ \A d \in Callers : d # c => pc'[d] = pc[d] /\ res'[d] = res[d]
      /\ res'[c] # "ok"
      /\ \A t \in Tasks : t # Fresh(c) => to'[t] = to[t]
  BY <1>1, <1>2 DEF Call, Dispatch, DispatchNoWorker, TypeOK
<1>10. Current(c)' = Fresh(c)
  BY <1>9 DEF Current, Fresh, TypeOK
<1>11. Local(c)'
  <2>1. at'[c] = "legion" /\ asked'[Fresh(c)] = AskFor(c)
    BY <1>2, <1>3, <1>4 DEF BrainTypeOK
  <2>2. Room(c)' /\ Writing(c)'
    BY <1>4, <1>6, <2>1 DEF Room, Writing, Busy
  <2>3. InHand(c)'
    BY <1>3, <1>4, <1>5, <2>1 DEF Local, InHand, HasUse, ThisUse, Idx
  <2>4. Linked(c)'
    BY <1>4, <1>10, <2>1 DEF Linked, AskFor, ThisUse, Idx
  <2> QED
    BY <2>2, <2>3, <2>4 DEF Local
<1>12. ASSUME NEW d \in Callers, d # c
       PROVE  Stays(d)
  <2>1. Current(d) # Fresh(c)
    BY <1>12 DEF Current, Fresh
  <2>2. asked'[Current(d)] = asked[Current(d)]
    BY <1>4, <2>1, <1>3 DEF BrainTypeOK
  <2>3. seq'[d] = seq[d] /\ at'[d] = at[d]
    BY <1>3, <1>4, <1>9, <1>12 DEF BrainTypeOK, TypeOK
  <2> QED
    BY <1>4, <1>9, <1>12, <2>2, <2>3 DEF Stays
<1>13. LoopCap'
  <2>1. \A d \in Callers : iteration'[d] <= MaxIterations
    BY <1>4 DEF LoopInv, LoopCap
  <2>2. \A a \in acted' : a.turn < MaxIterations
    BY <1>4 DEF LoopInv, LoopCap
  <2>3. ASSUME NEW t \in Tasks, Sent(t)'
        PROVE  asked'[t].turn < MaxIterations
    <3>1. CASE t = Fresh(c)
      BY <1>2, <1>3, <1>4, <1>6, <3>1 DEF BrainTypeOK, AskFor
    <3>2. CASE t # Fresh(c)
      BY <1>3, <1>4, <1>9, <2>3, <3>2 DEF BrainTypeOK, Sent, LoopInv, LoopCap
    <3> QED
      BY <3>1, <3>2
  <2> QED
    BY <2>1, <2>2, <2>3 DEF LoopCap
<1> QED
  BY <1>2, <1>4, <1>8, <1>9, <1>10, <1>11, <1>12, <1>13

\* The Legion's own row.
LEMMA RecordLoop ==
    ASSUME LoopInv, TypeOK, NEW c \in Callers, RecordTool(c), UNCHANGED wiring
    PROVE  /\ BrainTypeOK' /\ Local(c)' /\ LoopCap'
           /\ \A d \in Callers : d # c => Stays(d)
<1>1. BrainTypeOK /\ Local(c)
  BY DEF LoopInv
<1>2. /\ trail' = [trail EXCEPT ![c] =
                      Append(@, RowFor(c, "legion.dispatched", reply[Current(c)] = "ok"))]
      /\ UNCHANGED <<wiring, at, offered, iteration, uses, answers, pending, why, acted, asked,
                     seq, to>>
      /\ pc[c] = "recording" /\ pc' = [pc EXCEPT ![c] = "idle"]
      /\ res' = [res EXCEPT ![c] = reply[Current(c)]]
  BY DEF RecordTool, Record
<1>3. at[c] = "legion"
  BY <1>1, <1>2 DEF Local, Linked
<1>4. RowFor(c, "legion.dispatched", reply[Current(c)] = "ok") \in TrailRow
  BY <1>1, <1>3, RowIsRow DEF Busy, Events
<1>5. BrainTypeOK'
  BY <1>1, <1>2, <1>4 DEF BrainTypeOK
<1>6. pc'[c] = "idle"
  BY <1>2 DEF TypeOK
<1>7. Local(c)'
  BY <1>1, <1>2, <1>6 DEF Local, Room, InHand, Linked, Writing, ThisUse, Idx
<1>8. ASSUME NEW d \in Callers, d # c
      PROVE  Stays(d)
  BY <1>1, <1>2, <1>8 DEF Stays, TypeOK, BrainTypeOK
<1>9. LoopCap'
  BY <1>2 DEF LoopInv, LoopCap, Sent
<1> QED
  BY <1>5, <1>7, <1>8, <1>9

\* The Legion beside the decisions.
LEMMA BesideLoop ==
    ASSUME TypeOK,
           (\E c \in Callers : Await(c)) \/ Background \/ UNCHANGED legionVars
    PROVE  /\ UNCHANGED <<to, seq>>
           /\ \A d \in Callers : \/ pc'[d] = pc[d] /\ res'[d] = res[d]
                                 \/ pc[d] # "idle" /\ (pc'[d] # "idle" \/ res'[d] # "ok")
<1> USE DEF legionVars, registryVars, workerVars, callVars
<1>1. ASSUME NEW c \in Callers, Timeout(c) \/ RecordFails(c)
      PROVE  /\ UNCHANGED <<to, seq>> /\ pc[c] # "idle" /\ res'[c] # "ok"
             /\ \A d \in Callers : d # c => pc'[d] = pc[d] /\ res'[d] = res[d]
  BY <1>1 DEF Timeout, MayTimeout, RecordFails, TypeOK
<1>2. ASSUME NEW c \in Callers, Receive(c)
      PROVE  /\ UNCHANGED <<to, seq>> /\ pc[c] # "idle" /\ pc'[c] # "idle"
             /\ \A d \in Callers : d # c => pc'[d] = pc[d] /\ res'[d] = res[d]
  BY <1>2 DEF Receive, TypeOK
<1>3. CASE Background \/ UNCHANGED legionVars
  BY <1>3 DEF Background, StartPraetor, Register, Subscribe, Announce, WorkerDown, Take, Finish
<1> QED
  BY <1>1, <1>2, <1>3 DEF Await

LEMMA BesideKeeps ==
    ASSUME LoopInv, TypeOK, UNCHANGED <<brainVars, to, seq>>,
           \A d \in Callers : pc'[d] # "idle" => pc[d] # "idle"
    PROVE  LoopInv'
<1>1. BrainTypeOK'
  BY DEF LoopInv, BrainTypeOK, brainVars
<1>2. LoopCap'
  BY DEF LoopInv, LoopCap, Sent, brainVars
<1>3. ASSUME NEW d \in Callers
      PROVE  Local(d)'
  BY <1>3 DEF LoopInv, Local, Room, InHand, Linked, Writing, ThisUse, Idx, AskFor, Current,
              brainVars
<1> QED
  BY <1>1, <1>2, <1>3 DEF LoopInv

LEMMA ShutdownLoop ==
    ASSUME LoopInv, Shutdown, UNCHANGED wiring
    PROVE  /\ LoopInv' /\ to' = to /\ acted \subseteq acted'
           /\ \A d \in Callers : at'[d] \in Ended \cup {"idle"}
<1>1. BrainTypeOK
  BY DEF LoopInv
<1>2. /\ at' = [c \in Callers |-> IF Live(c) THEN "failed" ELSE at[c]]
      /\ why' = [c \in Callers |-> IF Live(c) THEN "aborted" ELSE why[c]]
      /\ pending' = [c \in Callers |-> NoRow]
      /\ pc' = [c \in Callers |-> "idle"]
      /\ UNCHANGED <<wiring, offered, iteration, uses, answers, trail, asked, to>>
  BY DEF Shutdown, PraetorDown
<1>3. \A a \in acted' : a \in acted \/ \E d \in Callers : at[d] = "ha" /\ a = Act(d)
  BY DEF Shutdown
<1>4. ASSUME NEW d \in Callers, at[d] = "ha"
      PROVE  /\ Act(d) \in [decision : Callers, use : Use, turn : 0 .. MaxIterations,
                            idx : 0 .. MaxUses]
             /\ Act(d).turn < MaxIterations
  BY <1>1, <1>4, UseAtHand DEF LoopInv, Act, Busy
<1>5. \A d \in Callers : at'[d] \in Ended \cup {"idle"}
  BY <1>2 DEF Live, Ended
<1>6. BrainTypeOK'
  <2>1. acted' \subseteq [decision : Callers, use : Use, turn : 0 .. MaxIterations,
                          idx : 0 .. MaxUses]
    BY <1>1, <1>3, <1>4 DEF BrainTypeOK
  <2>2. at' \in [Callers -> {"idle", "llm", "tools", "ha", "legion", "audit", "closing"}
                               \cup Ended]
    BY <1>2, <1>5
  <2>3. why' \in [Callers -> {"none", "llm", "ha", "assert"} \cup Raised]
    BY <1>1, <1>2 DEF BrainTypeOK, Raised
  <2>4. pending' \in [Callers -> TrailRow \cup {NoRow}]
    BY <1>2
  <2> QED
    BY <1>1, <1>2, <2>1, <2>2, <2>3, <2>4 DEF BrainTypeOK
<1>7. LoopCap'
  BY <1>2, <1>3, <1>4 DEF LoopInv, LoopCap, Sent
<1>8. ASSUME NEW d \in Callers
      PROVE  Local(d)'
  <2>1. Room(d)'
    <3>1. at'[d] = "idle" => at[d] = "idle"
      BY <1>2
    <3> QED
      BY <1>2, <1>5, <3>1 DEF LoopInv, Local, Room, Busy, Ended
  <2> QED
    BY <1>2, <1>5, <2>1 DEF LoopInv, Local, InHand, Linked, Writing, Busy, Ended
<1>9. acted \subseteq acted'
  BY DEF Shutdown
<1> QED
  BY <1>2, <1>5, <1>6, <1>7, <1>8, <1>9 DEF LoopInv

\* The cap, step by step: only a call Home Assistant answers or loses acts.
LEMMA QuietCap ==
    ASSUME LoopInv, NEW c \in Callers, Quiet(c), UNCHANGED wiring
    PROVE  LoopCap' /\ acted \subseteq acted' /\ UNCHANGED <<legionVars, asked>>
<1>1. BrainTypeOK /\ BrainTypeOK' /\ Local(c)
  BY QuietTypes DEF LoopInv
<1>2. UNCHANGED <<legionVars, asked>>
  BY DEF Quiet, Think, LLMFails, LLMReturns, UnknownTool, Service, InvalidService,
         ServiceWithoutHA, ServiceDenied, ServiceAllowed, HAReturns, HAFails, ServiceResponds,
         Begin, Start, PostService, Finishing, AuditReturns, AuditFails, EndTurn, Close,
         CloseFails, WorkerUseWithoutRegistry, ToolDenied, GatedReturns, RecallReturns,
         DispatchRaises
<1>3. acted' = acted \/ (at[c] = "ha" /\ acted' = acted \cup {Act(c)})
  BY DEF Quiet, Think, LLMFails, LLMReturns, UnknownTool, Service, InvalidService,
         ServiceWithoutHA, ServiceDenied, ServiceAllowed, HAReturns, HAFails, ServiceResponds,
         Begin, Start, PostService, Finishing, AuditReturns, AuditFails, EndTurn, Close,
         CloseFails, WorkerUseWithoutRegistry, ToolDenied, GatedReturns, RecallReturns,
         DispatchRaises
<1>4. at[c] = "ha" => Act(c).turn < MaxIterations
  BY <1>1, UseAtHand DEF Act, Busy
<1>5. \A d \in Callers : iteration'[d] <= MaxIterations
  <2> SUFFICES ASSUME NEW d \in Callers
               PROVE  iteration'[d] <= MaxIterations
    OBVIOUS
  <2>1. iteration'[d] \in 0 .. MaxIterations
    BY <1>1 DEF BrainTypeOK
  <2> QED
    BY <2>1
<1>6. to' = to
  BY <1>2 DEF legionVars, callVars
<1> QED
  BY <1>2, <1>3, <1>4, <1>5, <1>6 DEF LoopInv, LoopCap, Sent

\* The steps of the brain, sorted by what they touch.
LEMMA BrainMoves ==
    ASSUME BrainNext
    PROVE  \/ \E c \in Callers : Quiet(c) /\ UNCHANGED wiring
           \/ \E c \in Callers : DispatchTool(c) /\ UNCHANGED wiring
           \/ \E c \in Callers : RecordTool(c) /\ UNCHANGED wiring
           \/ ((\E c \in Callers : Await(c)) \/ Background) /\ UNCHANGED brainVars
           \/ Shutdown /\ UNCHANGED wiring
  BY DEF BrainNext, Step, Worker, Quiet, Background

LEMMA LoopInit == BrainInit => LoopInv
<1> SUFFICES ASSUME BrainInit
             PROVE  LoopInv
  OBVIOUS
<1>1. /\ wiring \in Wirings /\ at = [c \in Callers |-> "idle"]
      /\ offered = [c \in Callers |-> {}] /\ iteration = [c \in Callers |-> 0]
      /\ uses = [c \in Callers |-> <<>>] /\ answers = [c \in Callers |-> <<>>]
      /\ pending = [c \in Callers |-> NoRow] /\ trail = [c \in Callers |-> <<>>]
      /\ why = [c \in Callers |-> "none"] /\ acted = {} /\ asked = [t \in Tasks |-> NoUse]
      /\ pc = [c \in Callers |-> "idle"] /\ to = [t \in Tasks |-> NoId]
  BY DEF BrainInit, Init
<1>2. MaxIterations \in Nat \ {0} /\ MaxUses \in Nat \ {0} /\ 0 \in 0 .. MaxIterations
  BY BrainAssumption
<1>3. \A S : <<>> \in Seq(S)
  OBVIOUS
<1>4. BrainTypeOK
  <2>1. at \in [Callers -> {"idle", "llm", "tools", "ha", "legion", "audit", "closing"}
                               \cup Ended]
    BY <1>1
  <2>2. uses \in [Callers -> Seq(Use)] /\ answers \in [Callers -> Seq(Answers)]
        /\ trail \in [Callers -> Seq(TrailRow)]
    BY <1>1, <1>3
  <2> QED
    BY <1>1, <1>2, <2>1, <2>2 DEF BrainTypeOK
<1>5. LoopCap
  BY <1>1, <1>2 DEF LoopCap, Sent
<1>6. Len(<<>>) = 0
  OBVIOUS
<1>7. ASSUME NEW c \in Callers
      PROVE  Local(c)
  BY <1>1, <1>2, <1>6 DEF Local, Room, InHand, Linked, Writing, Busy
<1> QED
  BY <1>4, <1>5, <1>7 DEF LoopInv

LEMMA LoopStep == LoopInv /\ TypeOK /\ [BrainNext]_vars => LoopInv'
<1> SUFFICES ASSUME LoopInv, TypeOK, [BrainNext]_vars
             PROVE  LoopInv'
  OBVIOUS
<1>0. BrainTypeOK
  BY DEF LoopInv
<1>1. ASSUME NEW c \in Callers, Quiet(c), UNCHANGED wiring
      PROVE  LoopInv'
  <2>1. \A d \in Callers : d # c => Local(d)'
    BY <1>0, <1>1, QuietOthers, StaysLocal DEF LoopInv
  <2> QED
    BY <1>1, <2>1, QuietTypes, QuietLocal, QuietCap DEF LoopInv
<1>2. ASSUME NEW c \in Callers, DispatchTool(c) \/ RecordTool(c), UNCHANGED wiring
      PROVE  LoopInv'
  <2>1. BrainTypeOK' /\ Local(c)' /\ LoopCap' /\ \A d \in Callers : d # c => Stays(d)
    BY <1>2, DispatchLoop, RecordLoop
  <2>2. \A d \in Callers : d # c => Local(d)'
    BY <2>1, StaysLocal DEF LoopInv
  <2> QED
    BY <2>1, <2>2 DEF LoopInv
<1>3. ASSUME (\E c \in Callers : Await(c)) \/ Background \/ UNCHANGED legionVars,
             UNCHANGED brainVars
      PROVE  LoopInv'
  BY <1>3, BesideLoop, BesideKeeps
<1>4. CASE Shutdown /\ UNCHANGED wiring
  BY <1>4, ShutdownLoop
<1>5. CASE UNCHANGED vars
  BY <1>3, <1>5 DEF vars
<1> QED
  BY <1>1, <1>2, <1>3, <1>4, <1>5, BrainMoves

\* Every variable of the brain keeps to its values: no index or counter of the loop
\* outruns its bound.
THEOREM BrainTypeCorrect == BrainSpec => []BrainTypeOK
<1>1. LoopInv => BrainTypeOK
  BY DEF LoopInv
<1> QED
  BY <1>1, LoopInit, LoopStep, BrainTypes, PTL DEF BrainSpec

\* graph.py:10-12: a decision gets at most MaxIterations responses, and what the last one
\* asks for is not carried out.
THEOREM LoopIsCapped == BrainSpec => []LoopCap
<1>1. LoopInv => LoopCap
  BY DEF LoopInv
<1> QED
  BY <1>1, LoopInit, LoopStep, BrainTypes, PTL DEF BrainSpec

-----------------------------------------------------------------------------
(***************************************************************************)
(* The trail, row by row.                                                  *)
(***************************************************************************)
\* What backs a row is not taken back.
Steady == /\ acted \subseteq acted'
          /\ \A t \in Tasks : \A turn, idx : Proven(t, turn, idx) => Proven(t, turn, idx)'

LEMMA SteadyIfAskedStays ==
    ASSUME OnceInv, [Next]_legionVars, acted \subseteq acted', UNCHANGED <<asked, to>>
    PROVE  Steady
<1>1. Settled
  BY VerdictsSettle
<1> QED
  BY <1>1 DEF Steady, Proven, Sent, Settled

LEMMA SteadyIfDispatched ==
    ASSUME LoopInv, OnceInv, [Next]_legionVars, NEW c \in Callers, DispatchTool(c),
           UNCHANGED wiring
    PROVE  Steady
<1>0. TypeOK /\ BrainTypeOK
  BY DEF OnceInv, TypeInv, LoopInv
<1>1. Settled
  BY VerdictsSettle
<1>2. /\ Fresh(c) \in Tasks /\ asked' = [asked EXCEPT ![Fresh(c)] = AskFor(c)]
      /\ \A t \in Tasks : t # Fresh(c) => to'[t] = to[t]
  BY <1>0, DispatchLoop
<1>3. \A p \in Procs : verdict[p][Fresh(c)] # "ok"
  <2>1. ~Issued(Fresh(c))
    BY <1>0 DEF Issued, Fresh, TypeOK
  <2> QED
    BY <1>2, <2>1 DEF OnceInv, BegunInv
<1>4. ASSUME NEW t \in Tasks, NEW turn, NEW idx, Proven(t, turn, idx)
      PROVE  Proven(t, turn, idx)'
  <2>1. t # Fresh(c)
    BY <1>3, <1>4 DEF Proven
  <2>2. asked'[t] = asked[t] /\ to'[t] = to[t]
    BY <1>0, <1>2, <2>1 DEF BrainTypeOK
  <2> QED
    BY <1>1, <1>4, <2>2 DEF Proven, Sent, Settled
<1>5. acted' = acted
  BY DEF DispatchTool
<1> QED
  BY <1>4, <1>5 DEF Steady

LEMMA BackedStays ==
    ASSUME Steady, NEW c \in Callers, NEW r, Backed(c, r)
    PROVE  Backed(c, r)'
<1>1. ASSUME r.event = "service.called"
      PROVE  \E a \in acted' : a.decision = c /\ a.turn = r.turn /\ a.idx = r.idx
  BY <1>1 DEF Backed, Steady
<1>2. ASSUME r.event \in {"tool.called", "legion.dispatched"}, r.ok
      PROVE  \E t \in TasksOf(c) : Proven(t, r.turn, r.idx)'
  <2>1. PICK t \in TasksOf(c) : Proven(t, r.turn, r.idx)
    BY <1>2 DEF Backed
  <2>2. t \in Tasks
    BY DEF TasksOf
  <2> QED
    BY <2>1, <2>2 DEF Steady
<1> QED
  BY <1>1, <1>2 DEF Backed

LEMMA RowsStand ==
    ASSUME NEW c \in Callers, TrailBacked(c), Steady, trail'[c] = trail[c]
    PROVE  TrailBacked(c)' /\ Rows(c)' = Rows(c)
<1>1. ASSUME NEW i \in 1 .. Len(trail[c])
      PROVE  Backed(c, trail[c][i])' /\ Follows(c, trail[c][i], i - 1)'
  <2>1. Backed(c, trail[c][i]) /\ Follows(c, trail[c][i], i - 1)
    BY DEF TrailBacked
  <2>2. PICK r : r = trail[c][i]
    OBVIOUS
  <2>3. Backed(c, r)'
    BY <2>1, <2>2, BackedStays
  <2> QED
    BY <2>1, <2>2, <2>3 DEF Follows, Backed
<1> QED
  BY <1>1 DEF TrailBacked, Rows

LEMMA RowAdded ==
    ASSUME NEW c \in Callers, TrailBacked(c), Steady, trail[c] \in Seq(TrailRow),
           NEW r \in TrailRow, trail'[c] = Append(trail[c], r),
           Backed(c, r)', Follows(c, r, Len(trail[c]))
    PROVE  TrailBacked(c)' /\ Rows(c)' = Rows(c) \cup {r}
<1>1. /\ Len(trail'[c]) = Len(trail[c]) + 1 /\ trail'[c][Len(trail[c]) + 1] = r
      /\ \A i \in 1 .. Len(trail[c]) : trail'[c][i] = trail[c][i]
      /\ Len(trail[c]) \in Nat
  OBVIOUS
<1>2. ASSUME NEW i \in 1 .. Len(trail'[c])
      PROVE  Backed(c, trail[c][i])' /\ Follows(c, trail[c][i], i - 1)'
  <2>1. CASE i = Len(trail[c]) + 1
    <3>1. Follows(c, r, i - 1)'
      BY <1>1, <2>1 DEF Follows
    <3> QED
      BY <1>1, <2>1, <3>1 DEF Follows, Backed
  <2>2. CASE i # Len(trail[c]) + 1
    <3>1. i \in 1 .. Len(trail[c])
      BY <1>1, <2>2
    <3>2. PICK q : q = trail[c][i]
      OBVIOUS
    <3>3. Backed(c, q)' /\ Follows(c, q, i - 1)
      BY <3>1, <3>2, BackedStays DEF TrailBacked
    <3>4. Follows(c, q, i - 1)'
      <4>1. \A j \in 1 .. i - 1 : trail'[c][j] = trail[c][j]
        BY <1>1, <3>1
      <4> QED
        BY <3>3, <4>1 DEF Follows
    <3>5. trail'[c][i] = q
      BY <1>1, <3>1, <3>2
    <3> QED
      BY <3>3, <3>4, <3>5 DEF Follows, Backed
  <2> QED
    BY <2>1, <2>2
<1>3. Rows(c)' = Rows(c) \cup {r}
  <2>1. 1 .. Len(trail'[c]) = 1 .. Len(trail[c]) \cup {Len(trail[c]) + 1}
    BY <1>1
  <2> QED
    BY <1>1, <2>1 DEF Rows
<1> QED
  BY <1>2, <1>3 DEF TrailBacked

LEMMA StaysTrail ==
    ASSUME Steady, NEW d \in Callers, TrailOf(d), Stays(d)
    PROVE  TrailOf(d)'
<1>1. TrailBacked(d)' /\ Rows(d)' = Rows(d)
  BY RowsStand DEF TrailOf, Stays
<1>2. PendingBacked(d)'
  <2>1. ASSUME at[d] = "audit"
        PROVE  Backed(d, pending[d])'
    <3>1. PICK r : r = pending[d]
      OBVIOUS
    <3>2. Backed(d, r)'
      BY <2>1, <3>1, BackedStays DEF TrailOf, PendingBacked
    <3> QED
      BY <3>1, <3>2 DEF Backed, Stays
  <2> QED
    BY <2>1 DEF TrailOf, PendingBacked, Follows, ThisUse, Idx, Stays
<1>3. ReturnRecorded(d)'
  BY <1>1 DEF TrailOf, ReturnRecorded, RowFor, Idx, Stays
<1>4. AnswersRecorded(d)' /\ AnswersBounded(d)'
  BY <1>1 DEF TrailOf, AnswersRecorded, AnswersBounded, Stays
<1> QED
  BY <1>1, <1>2, <1>3, <1>4 DEF TrailOf

\* One more answer, recorded if it says success.
LEMMA AnswerAdded ==
    ASSUME NEW c \in Callers, BrainTypeOK, AnswersRecorded(c),
           Len(answers[c]) < Len(uses[c]), NEW a \in Answers,
           answers'[c] = Append(answers[c], a), uses'[c] = uses[c], iteration'[c] = iteration[c],
           Rows(c) \subseteq Rows(c)',
           a = "ok" => [event |-> RowOfUse(ThisUse(c)), turn |-> iteration[c], idx |-> Idx(c),
                        ok |-> TRUE] \in Rows(c)'
    PROVE  AnswersRecorded(c)' /\ AnswersBounded(c)'
<1>1. answers[c] \in Seq(Answers) /\ uses[c] \in Seq(Use)
  BY DEF BrainTypeOK
<1>2. /\ Len(answers'[c]) = Len(answers[c]) + 1 /\ answers'[c][Len(answers[c]) + 1] = a
      /\ \A i \in 1 .. Len(answers[c]) : answers'[c][i] = answers[c][i]
      /\ Len(answers[c]) \in Nat /\ Len(uses[c]) \in Nat
  BY <1>1
<1>3. ASSUME NEW i \in 1 .. Len(answers'[c]), answers'[c][i] = "ok"
      PROVE  [event |-> RowOfUse(uses[c][i]), turn |-> iteration[c], idx |-> i, ok |-> TRUE]
                \in Rows(c)'
  <2>1. CASE i = Len(answers[c]) + 1
    BY <1>2, <1>3, <2>1 DEF ThisUse, Idx
  <2>2. CASE i # Len(answers[c]) + 1
    <3>1. i \in 1 .. Len(answers[c])
      BY <1>2, <2>2
    <3> QED
      BY <1>2, <1>3, <3>1 DEF AnswersRecorded
  <2> QED
    BY <2>1, <2>2
<1>4. AnswersRecorded(c)'
  BY <1>3 DEF AnswersRecorded
<1>5. AnswersBounded(c)'
  BY <1>2 DEF AnswersBounded
<1> QED
  BY <1>4, <1>5

\* A quiet step that leaves the trail and awaits nothing.
LEMMA IdleTrail ==
    ASSUME NEW c \in Callers, TrailOf(c), Steady, trail'[c] = trail[c],
           at'[c] \notin {"audit", "legion"},
           \/ answers'[c] = <<>>
           \/ answers'[c] = answers[c] /\ uses'[c] = uses[c] /\ iteration'[c] = iteration[c],
           Len(uses'[c]) \in Nat
    PROVE  TrailOf(c)'
<1>1. TrailBacked(c)' /\ Rows(c)' = Rows(c)
  BY RowsStand DEF TrailOf
<1>2. PendingBacked(c)' /\ ReturnRecorded(c)'
  BY DEF PendingBacked, ReturnRecorded
<1>3. AnswersRecorded(c)' /\ AnswersBounded(c)'
  <2>1. CASE answers'[c] = <<>>
    <3>1. Len(<<>>) = 0
      OBVIOUS
    <3> QED
      BY <2>1, <3>1 DEF AnswersRecorded, AnswersBounded
  <2>2. CASE answers'[c] = answers[c] /\ uses'[c] = uses[c] /\ iteration'[c] = iteration[c]
    BY <1>1, <2>2 DEF TrailOf, AnswersRecorded, AnswersBounded
  <2> QED
    BY <2>1, <2>2
<1> QED
  BY <1>1, <1>2, <1>3 DEF TrailOf

\* What the registry's answer "ok" stands on, when the handler of a worker tool sees it.
LEMMA ReturnStands ==
    ASSUME BrainTypeOK, NEW c \in Callers, TrailOf(c), at[c] = "legion", pc[c] = "idle",
           res[c] = "ok"
    PROVE  /\ \E j \in 1 .. Len(trail[c]) : trail[c][j] = RowFor(c, "legion.dispatched", TRUE)
           /\ \E t \in TasksOf(c) : Proven(t, iteration[c], Idx(c))
<1>1. PICK j \in 1 .. Len(trail[c]) : trail[c][j] = RowFor(c, "legion.dispatched", TRUE)
  BY DEF TrailOf, ReturnRecorded, Rows
<1>2. Backed(c, RowFor(c, "legion.dispatched", TRUE))
  <2>1. Backed(c, trail[c][j])
    BY DEF TrailOf, TrailBacked
  <2> QED
    BY <1>1, <2>1
<1>3. \E t \in TasksOf(c) : Proven(t, iteration[c], Idx(c))
  BY <1>2 DEF Backed, RowFor
<1> QED
  BY <1>1, <1>3

\* A row about to be written is backed already.
LEMMA WriteTrail ==
    ASSUME LoopInv, NEW c \in Callers, TrailOf(c), Steady,
           ServiceDenied(c) \/ ToolDenied(c) \/ HAReturns(c) \/ GatedReturns(c)
    PROVE  TrailOf(c)'
<1>0. BrainTypeOK /\ Local(c)
  BY DEF LoopInv
<1>1. /\ at'[c] = "audit" /\ UNCHANGED <<uses, answers, iteration, trail>>
      /\ HasUse(c) \/ at[c] \in Busy
  BY <1>0 DEF BrainTypeOK, ServiceDenied, ValidService, ToolDenied, WorkerUse, HAReturns,
              GatedReturns, Returned, WriteRow, Goto, Busy
<1>2. TrailBacked(c)' /\ Rows(c)' = Rows(c)
  BY <1>1, RowsStand DEF TrailOf
<1>3. ReturnRecorded(c)'
  BY <1>1 DEF ReturnRecorded
<1>4. AnswersRecorded(c)' /\ AnswersBounded(c)'
  BY <1>1, <1>2 DEF TrailOf, AnswersRecorded, AnswersBounded
<1>5. ASSUME NEW event \in Events, NEW ok \in BOOLEAN, pending'[c] = RowFor(c, event, ok),
             Backed(c, RowFor(c, event, ok)),
             event = "tool.called" /\ ok =>
                \E j \in 1 .. Len(trail[c]) : trail[c][j] = RowFor(c, "legion.dispatched", TRUE),
             ok => event = RowOfUse(ThisUse(c))
      PROVE  TrailOf(c)'
  <2> DEFINE r == RowFor(c, event, ok)
  <2>1. r.event = event /\ r.ok = ok
    BY <1>5 DEF RowFor
  <2>2. ok => DispatchRow(r) = RowFor(c, "legion.dispatched", TRUE)
    <3>1. [r EXCEPT !.event = "legion.dispatched"] = RowFor(c, "legion.dispatched", ok)
      BY DEF RowFor
    <3>2. ok => ok = TRUE
      OBVIOUS
    <3> QED
      BY <3>1, <3>2 DEF DispatchRow
  <2>3. PICK q : q = r
    OBVIOUS
  <2>4. Backed(c, q)'
    BY <1>5, <2>3, BackedStays
  <2>5. Backed(c, pending[c])'
    BY <1>5, <2>3, <2>4 DEF Backed
  <2>6. Follows(c, pending[c], Len(trail[c]))'
    BY <1>1, <1>5, <2>1, <2>2 DEF Follows
  <2>7. (pending[c].ok => pending[c].event = RowOfUse(ThisUse(c)))'
    BY <1>1, <1>5, <2>1 DEF ThisUse, Idx
  <2> QED
    BY <1>2, <1>3, <1>4, <2>5, <2>6, <2>7 DEF TrailOf, PendingBacked
<1> USE DEF WriteRow
<1>6. ASSUME NEW event \in {"policy.denied", "tool.denied"}, pending'[c] = RowFor(c, event, FALSE)
      PROVE  TrailOf(c)'
  <2>1. Backed(c, RowFor(c, event, FALSE))
    BY <1>6 DEF Backed, RowFor
  <2> QED
    BY <1>5, <1>6, <2>1 DEF Events
<1>7. CASE ServiceDenied(c)
  BY <1>0, <1>6, <1>7 DEF BrainTypeOK, ServiceDenied
<1>8. CASE ToolDenied(c)
  BY <1>0, <1>6, <1>8 DEF BrainTypeOK, ToolDenied
<1>9. CASE HAReturns(c)
  <2>1. pending'[c] = RowFor(c, "service.called", TRUE) /\ acted' = acted \cup {Act(c)}
        /\ at[c] = "ha"
    BY <1>0, <1>9 DEF BrainTypeOK, HAReturns
  <2>2. RowOfUse(ThisUse(c)) = "service.called"
    BY <1>0, <2>1 DEF Local, InHand, RowOfUse
  <2> DEFINE r == RowFor(c, "service.called", TRUE)
  <2>3. PICK q : q = r
    OBVIOUS
  <2>4. q.event = "service.called" /\ q.turn = iteration[c] /\ q.idx = Idx(c) /\ q.ok = TRUE
    BY <2>3 DEF RowFor
  <2>5. Backed(c, q)'
    <3>1. /\ Act(c) \in acted' /\ Act(c).decision = c
          /\ Act(c).turn = q.turn /\ Act(c).idx = q.idx
      BY <2>1, <2>4 DEF Act
    <3> QED
      BY <2>4, <3>1 DEF Backed
  <2>6. Backed(c, pending[c])' /\ Follows(c, pending[c], Len(trail[c]))'
    BY <2>1, <2>3, <2>4, <2>5 DEF Backed, Follows
  <2>7. (pending[c].ok => pending[c].event = RowOfUse(ThisUse(c)))'
    BY <1>1, <2>1, <2>2, <2>3, <2>4 DEF ThisUse, Idx
  <2> QED
    BY <1>2, <1>3, <1>4, <2>6, <2>7 DEF TrailOf, PendingBacked
<1>10. CASE GatedReturns(c)
  <2>1. /\ pending'[c] = RowFor(c, "tool.called", ToolSucceeded(c))
        /\ at[c] = "legion" /\ pc[c] = "idle" /\ ThisUse(c).name \in Gated
    BY <1>0, <1>10 DEF BrainTypeOK, GatedReturns, Returned
  <2>2. RowOfUse(ThisUse(c)) = "tool.called"
    BY <2>1, BrainAssumption DEF RowOfUse, WorkerTools
  <2>3. ToolSucceeded(c) =>
           /\ \E j \in 1 .. Len(trail[c]) : trail[c][j] = RowFor(c, "legion.dispatched", TRUE)
           /\ \E t \in TasksOf(c) : Proven(t, iteration[c], Idx(c))
    BY <1>0, <2>1, ReturnStands DEF ToolSucceeded
  <2>4. Backed(c, RowFor(c, "tool.called", ToolSucceeded(c)))
    BY <2>3 DEF Backed, RowFor
  <2>5. ToolSucceeded(c) \in BOOLEAN /\ "tool.called" \in Events
    BY DEF ToolSucceeded, Events
  <2> QED
    BY <1>5, <2>1, <2>2, <2>3, <2>4, <2>5
<1> QED
  BY <1>7, <1>8, <1>9, <1>10

\* An answer to the model: a success has its row.
LEMMA AnswerTrail ==
    ASSUME LoopInv, NEW c \in Callers, TrailOf(c), Steady,
           UnknownTool(c) \/ InvalidService(c) \/ RecallReturns(c) \/ AuditReturns(c)
    PROVE  TrailOf(c)'
<1>0. BrainTypeOK /\ Local(c)
  BY DEF LoopInv
<1>1. /\ at'[c] = "tools" /\ UNCHANGED <<uses, iteration>>
      /\ HasUse(c) \/ at[c] \in Busy
  BY <1>0 DEF BrainTypeOK, UnknownTool, InvalidService, RecallReturns, Returned, AuditReturns,
              Answer, Goto, Busy
<1>2. Len(answers[c]) < Len(uses[c])
  BY <1>0, <1>1 DEF HasUse, Local, InHand
<1>3. PendingBacked(c)' /\ ReturnRecorded(c)'
  BY <1>1 DEF PendingBacked, ReturnRecorded
<1>4. ASSUME NEW a \in Answers, answers'[c] = Append(answers[c], a),
             TrailBacked(c)', Rows(c) \subseteq Rows(c)',
             a = "ok" => [event |-> RowOfUse(ThisUse(c)), turn |-> iteration[c],
                          idx |-> Idx(c), ok |-> TRUE] \in Rows(c)'
      PROVE  TrailOf(c)'
  BY <1>0, <1>1, <1>2, <1>3, <1>4, AnswerAdded DEF TrailOf
<1>5. CASE UnknownTool(c) \/ InvalidService(c)
  <2>1. answers'[c] = Append(answers[c], "error") /\ trail'[c] = trail[c]
    BY <1>0, <1>5 DEF BrainTypeOK, UnknownTool, InvalidService, Answer
  <2>2. TrailBacked(c)' /\ Rows(c)' = Rows(c)
    BY <2>1, RowsStand DEF TrailOf
  <2> QED
    BY <1>4, <2>1, <2>2 DEF Answers
<1>6. CASE RecallReturns(c)
  <2> DEFINE a == IF ToolSucceeded(c) THEN "ok" ELSE "error"
  <2>1. /\ answers'[c] = Append(answers[c], a) /\ trail'[c] = trail[c]
        /\ at[c] = "legion" /\ pc[c] = "idle" /\ ThisUse(c).name \in Recall
    BY <1>0, <1>6 DEF BrainTypeOK, RecallReturns, Returned, Answer
  <2>2. TrailBacked(c)' /\ Rows(c)' = Rows(c)
    BY <2>1, RowsStand DEF TrailOf
  <2>3. RowOfUse(ThisUse(c)) = "legion.dispatched"
    BY <2>1, BrainAssumption DEF RowOfUse, WorkerTools
  <2>4. a = "ok" => RowFor(c, "legion.dispatched", TRUE) \in Rows(c)
    BY <2>1 DEF ToolSucceeded, TrailOf, ReturnRecorded
  <2>5. a \in Answers
    BY DEF Answers
  <2> QED
    BY <1>4, <2>1, <2>2, <2>3, <2>4, <2>5 DEF RowFor
<1>7. CASE AuditReturns(c)
  <2> DEFINE a == IF pending[c].ok THEN "ok" ELSE "error"
  <2>1. /\ answers'[c] = Append(answers[c], a) /\ trail'[c] = Append(trail[c], pending[c])
        /\ at[c] = "audit"
    BY <1>0, <1>7 DEF BrainTypeOK, AuditReturns, Answer, TrailAfter
  <2>2. pending[c] \in TrailRow /\ pending[c].turn = iteration[c] /\ pending[c].idx = Idx(c)
    BY <1>0, <2>1 DEF Local, Writing
  <2>3. PICK r \in TrailRow : r = pending[c]
    BY <2>2
  <2>4. Backed(c, r) /\ Follows(c, r, Len(trail[c]))
    BY <2>1, <2>3 DEF TrailOf, PendingBacked
  <2>5. Backed(c, r)'
    BY <2>4, BackedStays
  <2>6. trail[c] \in Seq(TrailRow)
    BY <1>0 DEF BrainTypeOK
  <2>7. TrailBacked(c)' /\ Rows(c)' = Rows(c) \cup {r}
    BY <2>1, <2>3, <2>4, <2>5, <2>6, RowAdded DEF TrailOf
  <2>8. ASSUME a = "ok"
        PROVE  r = [event |-> RowOfUse(ThisUse(c)), turn |-> iteration[c], idx |-> Idx(c),
                    ok |-> TRUE]
    <3>1. r.ok = TRUE
      BY <2>3, <2>8 DEF TrailRow
    <3>2. r.event = RowOfUse(ThisUse(c))
      BY <2>1, <2>3, <3>1 DEF TrailOf, PendingBacked
    <3> QED
      BY <2>2, <2>3, <3>1, <3>2 DEF TrailRow
  <2>9. a \in Answers
    BY DEF Answers
  <2> QED
    BY <1>4, <2>1, <2>7, <2>8, <2>9
<1> QED
  BY <1>5, <1>6, <1>7

LEMMA QuietTrail ==
    ASSUME LoopInv, LoopInv', NEW c \in Callers, TrailOf(c), Steady, Quiet(c)
    PROVE  TrailOf(c)'
<1>0. BrainTypeOK /\ BrainTypeOK' /\ Local(c)
  BY DEF LoopInv
<1>1. Len(uses'[c]) \in Nat
  <2>1. uses'[c] \in Seq(Use)
    BY <1>0 DEF BrainTypeOK
  <2> QED
    BY <2>1
<1> USE <1>0, <1>1, IdleTrail DEF BrainTypeOK, Goto, Fail, Ended
<1>2. CASE LLMFails(c) \/ ServiceWithoutHA(c) \/ ServiceAllowed(c) \/ HAFails(c)
             \/ ServiceResponds(c)
  BY <1>2 DEF LLMFails, ServiceWithoutHA, ServiceAllowed, HAFails, ServiceResponds
<1>3. CASE EndTurn(c) \/ CloseFails(c) \/ AuditFails(c) \/ WorkerUseWithoutRegistry(c)
             \/ DispatchRaises(c)
  BY <1>3 DEF EndTurn, CloseFails, AuditFails, WorkerUseWithoutRegistry, DispatchRaises
<1>4. ASSUME NEW us \in Responses, LLMReturns(c, us)
      PROVE  TrailOf(c)'
  BY <1>4 DEF LLMReturns
<1>5. CASE Begin(c)
  <2>1. answers[c] = <<>> /\ answers' = answers /\ trail' = trail
        /\ at'[c] \in {"llm", "tools"}
    BY <1>5 DEF Begin, Start, PostService, Local, Room
  <2> QED
    BY <2>1
<1>6. CASE Close(c)
  <2> DEFINE r == [event |-> "chat.completed", turn |-> iteration[c], idx |-> 0, ok |-> TRUE]
  <2>1. /\ trail'[c] = Append(trail[c], r) /\ UNCHANGED <<uses, answers, iteration>>
        /\ at'[c] = "answered"
    BY <1>6 DEF Close
  <2>2. PICK q : q = r
    OBVIOUS
  <2>3. q \in TrailRow /\ q.event = "chat.completed"
    BY <2>2, BrainAssumption DEF TrailRow, Events
  <2>4. Backed(c, q)' /\ Follows(c, q, Len(trail[c]))
    BY <2>3 DEF Backed, Follows
  <2>5. TrailBacked(c)' /\ Rows(c)' = Rows(c) \cup {q}
    BY <2>1, <2>2, <2>3, <2>4, RowAdded DEF TrailOf
  <2>6. PendingBacked(c)' /\ ReturnRecorded(c)'
    BY <2>1 DEF PendingBacked, ReturnRecorded
  <2>7. AnswersRecorded(c)' /\ AnswersBounded(c)'
    BY <2>1, <2>5 DEF TrailOf, AnswersRecorded, AnswersBounded
  <2> QED
    BY <2>5, <2>6, <2>7 DEF TrailOf
<1> QED
  BY <1>2, <1>3, <1>4, <1>5, <1>6, WriteTrail, AnswerTrail
     DEF Quiet, Think, Service, Finishing

\* A dispatch is no news for the trail: its task has no result yet.
LEMMA DispatchTrail ==
    ASSUME LoopInv, TypeOK, NEW c \in Callers, DispatchTool(c), UNCHANGED wiring, TrailOf(c),
           Steady
    PROVE  TrailOf(c)'
<1>0. BrainTypeOK
  BY DEF LoopInv
<1>1. at'[c] = "legion" /\ UNCHANGED <<uses, answers, iteration, trail>>
  BY <1>0 DEF BrainTypeOK, DispatchTool, Goto
<1>2. res'[c] # "ok"
  BY DispatchLoop
<1>3. TrailBacked(c)' /\ Rows(c)' = Rows(c)
  BY <1>1, RowsStand DEF TrailOf
<1>4. AnswersRecorded(c)' /\ AnswersBounded(c)'
  BY <1>1, <1>3 DEF TrailOf, AnswersRecorded, AnswersBounded
<1>5. PendingBacked(c)' /\ ReturnRecorded(c)'
  BY <1>1, <1>2 DEF PendingBacked, ReturnRecorded
<1> QED
  BY <1>3, <1>4, <1>5 DEF TrailOf

\* The Legion's own row is backed by the reply it records.
LEMMA RecordTrail ==
    ASSUME LoopInv, TruthInv, NEW c \in Callers, RecordTool(c), TrailOf(c), Steady
    PROVE  TrailOf(c)'
<1>0. BrainTypeOK /\ Local(c) /\ TypeOK /\ CurrentIsTask
  BY DEF LoopInv, TruthInv, OnceInv, TypeInv
<1>1. /\ pc[c] = "recording" /\ res'[c] = reply[Current(c)] /\ UNCHANGED <<asked, to, verdict>>
      /\ UNCHANGED <<at, uses, answers, iteration>>
  BY <1>0 DEF RecordTool, Record, TypeOK, workerVars
<1>2. at[c] = "legion" /\ asked[Current(c)] = AskFor(c)
  BY <1>0, <1>1 DEF Local, Linked
<1> DEFINE ok == reply[Current(c)] = "ok"
           r  == RowFor(c, "legion.dispatched", ok)
<1>3. trail'[c] = Append(trail[c], r)
  BY <1>0 DEF RecordTool, BrainTypeOK
<1>4. r \in TrailRow
  BY <1>0, <1>2, RowIsRow DEF Busy, Events
<1>5. PICK q \in TrailRow : q = r
  BY <1>4
<1>6. q.event = "legion.dispatched" /\ q.turn = iteration[c] /\ q.idx = Idx(c) /\ q.ok = ok
  BY <1>5 DEF RowFor
<1>7. ASSUME ok
      PROVE  \E t \in TasksOf(c) : Proven(t, iteration[c], Idx(c))
  <2>1. Current(c) \in Tasks /\ to[Current(c)] \in Ids
    BY <1>0, <1>1 DEF CurrentIsTask
  <2>2. \E p \in Procs : verdict[p][Current(c)] = "ok"
    BY <1>7, <2>1 DEF TruthInv, AnswerInv
  <2>3. Proven(Current(c), iteration[c], Idx(c))
    BY <1>2, <2>1, <2>2, LegionAssumption DEF Proven, Sent, AskFor
  <2>4. Current(c) \in TasksOf(c)
    BY <2>1 DEF TasksOf, Current
  <2> QED
    BY <2>3, <2>4
<1>8. Backed(c, q)
  BY <1>6, <1>7 DEF Backed
<1>9. Backed(c, q)' /\ Follows(c, q, Len(trail[c]))
  BY <1>6, <1>8, BackedStays DEF Follows
<1>10. TrailBacked(c)' /\ Rows(c)' = Rows(c) \cup {q}
  <2>1. trail[c] \in Seq(TrailRow)
    BY <1>0 DEF BrainTypeOK
  <2> QED
    BY <1>3, <1>5, <1>9, <2>1, RowAdded DEF TrailOf
<1>11. PendingBacked(c)'
  BY <1>1, <1>2 DEF PendingBacked
<1>12. ReturnRecorded(c)'
  <2>1. ASSUME ok
        PROVE  RowFor(c, "legion.dispatched", TRUE) \in Rows(c)'
    <3>1. ok = TRUE
      BY <2>1
    <3> QED
      BY <1>5, <1>10, <3>1
  <2> QED
    BY <1>1, <2>1 DEF ReturnRecorded, RowFor, Idx
<1>13. AnswersRecorded(c)' /\ AnswersBounded(c)'
  BY <1>1, <1>10 DEF TrailOf, AnswersRecorded, AnswersBounded
<1> QED
  BY <1>10, <1>11, <1>12, <1>13 DEF TrailOf

LEMMA BesideTrail ==
    ASSUME TypeOK, Steady, UNCHANGED brainVars,
           (\E c \in Callers : Await(c)) \/ Background \/ UNCHANGED legionVars,
           NEW d \in Callers, TrailOf(d)
    PROVE  TrailOf(d)'
<1>1. /\ \/ pc'[d] = pc[d] /\ res'[d] = res[d]
         \/ pc[d] # "idle" /\ (pc'[d] # "idle" \/ res'[d] # "ok")
      /\ UNCHANGED <<at, iteration, uses, answers, pending, trail>>
  BY BesideLoop DEF brainVars
<1>2. TrailBacked(d)' /\ Rows(d)' = Rows(d)
  BY <1>1, RowsStand DEF TrailOf
<1>3. PendingBacked(d)'
  <2>1. PICK q : q = pending[d]
    OBVIOUS
  <2>2. at[d] = "audit" => Backed(d, q)'
    BY <2>1, BackedStays DEF TrailOf, PendingBacked
  <2> QED
    BY <1>1, <2>1, <2>2 DEF TrailOf, PendingBacked, Backed, Follows, ThisUse, Idx
<1>4. ReturnRecorded(d)'
  BY <1>1, <1>2 DEF TrailOf, ReturnRecorded, RowFor, Idx
<1>5. AnswersRecorded(d)' /\ AnswersBounded(d)'
  BY <1>1, <1>2 DEF TrailOf, AnswersRecorded, AnswersBounded
<1> QED
  BY <1>2, <1>3, <1>4, <1>5 DEF TrailOf

LEMMA ShutdownTrail ==
    ASSUME LoopInv, Steady, Shutdown, UNCHANGED wiring, NEW d \in Callers, TrailOf(d)
    PROVE  TrailOf(d)'
<1>1. at'[d] \in Ended \cup {"idle"} /\ UNCHANGED <<uses, answers, iteration, trail>>
  BY ShutdownLoop DEF Shutdown
<1>2. TrailBacked(d)' /\ Rows(d)' = Rows(d)
  BY <1>1, RowsStand DEF TrailOf
<1>3. PendingBacked(d)' /\ ReturnRecorded(d)'
  BY <1>1 DEF PendingBacked, ReturnRecorded, Ended
<1>4. AnswersRecorded(d)' /\ AnswersBounded(d)'
  BY <1>1, <1>2 DEF TrailOf, AnswersRecorded, AnswersBounded
<1> QED
  BY <1>2, <1>3, <1>4 DEF TrailOf

LEMMA TrailInit == BrainInit => TrailInv
<1> SUFFICES ASSUME BrainInit, NEW c \in Callers
             PROVE  TrailOf(c)
  BY DEF TrailInv
<1>1. at[c] = "idle" /\ trail[c] = <<>> /\ answers[c] = <<>> /\ uses[c] = <<>>
  BY DEF BrainInit
<1>2. Len(<<>>) = 0
  OBVIOUS
<1> QED
  BY <1>1, <1>2 DEF TrailOf, TrailBacked, PendingBacked, ReturnRecorded, AnswersRecorded,
                    AnswersBounded

LEMMA TrailStep ==
    ASSUME BrainInv, TruthInv, [BrainNext]_vars, [Next]_legionVars
    PROVE  TrailInv'
<1>0. LoopInv /\ LoopInv' /\ OnceInv /\ TypeOK /\ BrainTypeOK /\ \A d \in Callers : TrailOf(d)
  BY LoopStep DEF BrainInv, TruthInv, OnceInv, TypeInv, LoopInv, TrailInv
<1>1. ASSUME NEW c \in Callers, Quiet(c), UNCHANGED wiring
      PROVE  TrailInv'
  <2>1. acted \subseteq acted' /\ UNCHANGED <<asked, to>>
    BY <1>0, <1>1, QuietCap DEF legionVars, callVars
  <2>2. Steady
    BY <1>0, <2>1, SteadyIfAskedStays
  <2>3. TrailOf(c)'
    BY <1>0, <1>1, <2>2, QuietTrail
  <2>4. ASSUME NEW d \in Callers, d # c
        PROVE  TrailOf(d)'
    BY <1>0, <1>1, <2>2, <2>4, QuietOthers, StaysTrail
  <2> QED
    BY <2>3, <2>4 DEF TrailInv
<1>2. ASSUME NEW c \in Callers, DispatchTool(c), UNCHANGED wiring
      PROVE  TrailInv'
  <2>1. Steady
    BY <1>0, <1>2, SteadyIfDispatched
  <2>2. TrailOf(c)'
    BY <1>0, <1>2, <2>1, DispatchTrail
  <2>3. ASSUME NEW d \in Callers, d # c
        PROVE  TrailOf(d)'
    BY <1>0, <1>2, <2>1, <2>3, DispatchLoop, StaysTrail
  <2> QED
    BY <2>2, <2>3 DEF TrailInv
<1>3. ASSUME NEW c \in Callers, RecordTool(c), UNCHANGED wiring
      PROVE  TrailInv'
  <2>1. acted' = acted /\ UNCHANGED <<asked, to>>
    BY <1>3 DEF RecordTool, Record
  <2>2. Steady
    BY <1>0, <2>1, SteadyIfAskedStays
  <2>3. TrailOf(c)'
    BY <1>0, <1>3, <2>2, RecordTrail
  <2>4. ASSUME NEW d \in Callers, d # c
        PROVE  TrailOf(d)'
    BY <1>0, <1>3, <2>2, <2>4, RecordLoop, StaysTrail
  <2> QED
    BY <2>3, <2>4 DEF TrailInv
<1>4. ASSUME (\E c \in Callers : Await(c)) \/ Background \/ UNCHANGED legionVars,
             UNCHANGED brainVars
      PROVE  TrailInv'
  <2>1. acted' = acted /\ UNCHANGED <<asked, to>>
    BY <1>0, <1>4, BesideLoop DEF brainVars
  <2>2. Steady
    BY <1>0, <2>1, SteadyIfAskedStays
  <2> QED
    BY <1>0, <1>4, <2>2, BesideTrail DEF TrailInv
<1>5. CASE Shutdown /\ UNCHANGED wiring
  <2>1. acted \subseteq acted' /\ UNCHANGED <<asked, to>>
    BY <1>0, <1>5, ShutdownLoop DEF Shutdown
  <2>2. Steady
    BY <1>0, <2>1, SteadyIfAskedStays
  <2> QED
    BY <1>0, <1>5, <2>2, ShutdownTrail DEF TrailInv
<1>6. CASE UNCHANGED vars
  BY <1>4, <1>6 DEF vars
<1> QED
  BY <1>1, <1>2, <1>3, <1>4, <1>5, <1>6, BrainMoves

LEMMA BrainInvHolds == BrainSpec => []BrainInv
<1>1. BrainInit => BrainInv
  BY LoopInit, TrailInit DEF BrainInv
<1>2. BrainInv /\ TruthInv /\ [BrainNext]_vars /\ [Next]_legionVars => BrainInv'
  <2> SUFFICES ASSUME BrainInv, TruthInv, [BrainNext]_vars, [Next]_legionVars
               PROVE  BrainInv'
    OBVIOUS
  <2>1. LoopInv'
    BY LoopStep DEF BrainInv, TruthInv, OnceInv, TypeInv
  <2> QED
    BY <2>1, TrailStep DEF BrainInv
<1>3. Spec => []TruthInv
  BY TruthInit, TruthStep, PTL DEF Spec
<1>4. Spec => [][Next]_legionVars
  BY PTL DEF Spec
<1> QED
  BY <1>1, <1>2, <1>3, <1>4, BrainImplementsLegion, PTL DEF BrainSpec

\* What the model is told has succeeded is in the audit log by then, for any tools, policy,
\* workers and bounds (graph.py dispatch_tools, dispatch.py:52-75).
THEOREM ToldIsInTheLog == BrainSpec => []ToldIsAudited
<1>1. BrainInv => ToldIsAudited
  <2> SUFFICES ASSUME BrainInv, NEW c \in Callers
               PROVE  AnswersRecorded(c)
    BY DEF ToldIsAudited, AnswersRecorded
  <2> QED
    BY DEF BrainInv, TrailInv, TrailOf
<1> QED
  BY <1>1, BrainInvHolds, PTL

\* The audit log of a decision does not lie: the call it records was carried out, the task
\* it records was finished with success and its own row stands before.
THEOREM TrailIsTruthful == BrainSpec => []TrailTruthful
<1>1. BrainInv => TrailTruthful
  <2> SUFFICES ASSUME BrainInv, NEW c \in Callers, NEW i \in 1 .. Len(trail[c])
               PROVE  LET r == trail[c][i] IN
                      /\ r.event = "service.called" =>
                           \E a \in acted : a.decision = c /\ a.turn = r.turn /\ a.idx = r.idx
                      /\ r.event = "tool.called" /\ r.ok =>
                           /\ \E j \in 1 .. i - 1 :
                                 trail[c][j] = [r EXCEPT !.event = "legion.dispatched"]
                           /\ \E t \in TasksOf(c), p \in Procs :
                                 /\ Sent(t) /\ asked[t].turn = r.turn /\ asked[t].idx = r.idx
                                 /\ verdict[p][t] = "ok"
    BY DEF TrailTruthful
  <2>1. Backed(c, trail[c][i]) /\ Follows(c, trail[c][i], i - 1)
    BY DEF BrainInv, TrailInv, TrailOf, TrailBacked
  <2> QED
    BY <2>1 DEF Backed, Follows, DispatchRow, Proven
<1> QED
  BY <1>1, BrainInvHolds, PTL

=============================================================================
