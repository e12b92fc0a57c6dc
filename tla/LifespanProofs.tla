---------------------------- MODULE LifespanProofs ----------------------------
(***************************************************************************)
(* Theorems about Lifespan for any settings and any number of faults.      *)
(***************************************************************************)
EXTENDS Lifespan, SequenceTheorems, TLAPS

-----------------------------------------------------------------------------
(***************************************************************************)
(* The two orders.  A rank per part, by which an order is sorted, says of  *)
(* two parts which comes first; workers share theirs.                      *)
(***************************************************************************)
StartRank ==
    [part \in Parts |->
        IF part = "bus" THEN 1 ELSE IF part = "registry" THEN 2
        ELSE IF part = "sweeper" THEN 4 ELSE IF part = "indexer" THEN 5
        ELSE IF part = "scheduler" THEN 6 ELSE IF part = "ha_driver" THEN 7
        ELSE IF part = "webhook" THEN 8 ELSE IF part = "metrics" THEN 9
        ELSE IF part = "tracing" THEN 10 ELSE 3]

StopRank ==
    [part \in Parts |->
        IF part = "webhook" THEN 1 ELSE IF part = "ha_driver" THEN 2
        ELSE IF part = "scheduler" THEN 3 ELSE IF part = "indexer" THEN 4
        ELSE IF part = "sweeper" THEN 5 ELSE IF part = "registry" THEN 7
        ELSE IF part = "bus" THEN 8 ELSE IF part = "ha" THEN 9
        ELSE IF part = "tracing" THEN 10 ELSE IF part = "engine" THEN 11
        ELSE IF part = "metrics" THEN 12 ELSE 6]

Elements(s) == {s[i] : i \in 1 .. Len(s)}

\* A sequence sorted by rank, all of it between two ranks.
Sorted(D, rank, s, lo, hi) ==
    /\ s \in Seq(D)
    /\ \A i \in 1 .. Len(s) : lo <= rank[s[i]] /\ rank[s[i]] <= hi
    /\ \A i, j \in 1 .. Len(s) : i < j => rank[s[i]] <= rank[s[j]]

LEMMA SortedConcat ==
    ASSUME NEW D, NEW rank \in [D -> Nat], NEW s, NEW t,
           NEW a \in Nat, NEW b \in Nat, NEW c \in Nat, NEW d \in Nat,
           Sorted(D, rank, s, a, b), Sorted(D, rank, t, c, d), b <= c, a <= c, b <= d
    PROVE  /\ Sorted(D, rank, s \o t, a, d)
           /\ Elements(s \o t) = Elements(s) \cup Elements(t)
<1>1. s \in Seq(D) /\ t \in Seq(D)
  BY DEF Sorted
<1>2. /\ s \o t \in Seq(D) /\ Len(s \o t) = Len(s) + Len(t)
      /\ Len(s) \in Nat /\ Len(t) \in Nat
      /\ \A i \in 1 .. Len(s) : (s \o t)[i] = s[i]
      /\ \A i \in 1 .. Len(t) : (s \o t)[Len(s) + i] = t[i]
  BY <1>1
<1>3. ASSUME NEW i \in 1 .. Len(s \o t)
      PROVE  \/ i \in 1 .. Len(s) /\ (s \o t)[i] = s[i]
             \/ /\ i > Len(s) /\ i - Len(s) \in 1 .. Len(t)
                /\ (s \o t)[i] = t[i - Len(s)]
  <2>1. CASE i \in 1 .. Len(s)
    BY <1>2, <2>1
  <2>2. CASE i \notin 1 .. Len(s)
    <3>1. i - Len(s) \in 1 .. Len(t) /\ i = Len(s) + (i - Len(s)) /\ i > Len(s)
      BY <1>2, <2>2
    <3>2. (s \o t)[Len(s) + (i - Len(s))] = t[i - Len(s)]
      BY <1>2, <3>1
    <3> QED
      BY <3>1, <3>2
  <2> QED
    BY <2>1, <2>2
<1>4. ASSUME NEW i \in 1 .. Len(s)
      PROVE  s[i] \in D /\ rank[s[i]] \in Nat
  <2>1. s[i] \in D
    BY <1>1, ElementOfSeq
  <2> QED
    BY <2>1
<1>5. ASSUME NEW i \in 1 .. Len(t)
      PROVE  t[i] \in D /\ rank[t[i]] \in Nat
  <2>1. t[i] \in D
    BY <1>1, ElementOfSeq
  <2> QED
    BY <2>1
<1>6. ASSUME NEW i \in 1 .. Len(s \o t)
      PROVE  a <= rank[(s \o t)[i]] /\ rank[(s \o t)[i]] <= d
  <2>1. CASE i \in 1 .. Len(s) /\ (s \o t)[i] = s[i]
    <3>1. a <= rank[s[i]] /\ rank[s[i]] <= b /\ rank[s[i]] \in Nat
      BY <1>4, <2>1 DEF Sorted
    <3> QED
      BY <2>1, <3>1
  <2>2. CASE i - Len(s) \in 1 .. Len(t) /\ (s \o t)[i] = t[i - Len(s)]
    <3>1. PICK j \in 1 .. Len(t) : (s \o t)[i] = t[j]
      BY <2>2
    <3>2. c <= rank[t[j]] /\ rank[t[j]] <= d /\ rank[t[j]] \in Nat
      BY <1>5 DEF Sorted
    <3> QED
      BY <3>1, <3>2
  <2> QED
    BY <1>3, <2>1, <2>2
<1>7. ASSUME NEW i \in 1 .. Len(s \o t), NEW j \in 1 .. Len(s \o t), i < j
      PROVE  rank[(s \o t)[i]] <= rank[(s \o t)[j]]
  <2>1. CASE i \in 1 .. Len(s) /\ j \in 1 .. Len(s)
    <3>1. (s \o t)[i] = s[i] /\ (s \o t)[j] = s[j]
      BY <1>2, <2>1
    <3>2. rank[s[i]] <= rank[s[j]]
      BY <1>7, <2>1 DEF Sorted
    <3> QED
      BY <3>1, <3>2
  <2>2. CASE i \in 1 .. Len(s) /\ j \notin 1 .. Len(s)
    <3>1. /\ (s \o t)[i] = s[i] /\ j - Len(s) \in 1 .. Len(t)
          /\ (s \o t)[j] = t[j - Len(s)]
      BY <1>2, <1>3, <2>2
    <3>2. rank[s[i]] <= b /\ c <= rank[t[j - Len(s)]]
      BY <2>2, <3>1 DEF Sorted
    <3> QED
      BY <1>4, <1>5, <2>2, <3>1, <3>2
  <2>3. CASE i \notin 1 .. Len(s)
    <3>1. /\ i - Len(s) \in 1 .. Len(t) /\ (s \o t)[i] = t[i - Len(s)]
      BY <1>3, <2>3
    <3>2. j \notin 1 .. Len(s)
      BY <1>2, <1>7, <3>1
    <3>3. /\ j - Len(s) \in 1 .. Len(t) /\ (s \o t)[j] = t[j - Len(s)]
          /\ i - Len(s) < j - Len(s)
      BY <1>2, <1>3, <1>7, <3>2
    <3> QED
      BY <3>1, <3>3 DEF Sorted
  <2> QED
    BY <2>1, <2>2, <2>3
<1>8. Elements(s \o t) = Elements(s) \cup Elements(t)
  <2>1. ASSUME NEW x \in Elements(s \o t)
        PROVE  x \in Elements(s) \cup Elements(t)
    BY <1>3 DEF Elements
  <2>2. ASSUME NEW x \in Elements(s)
        PROVE  x \in Elements(s \o t)
    <3>1. PICK i \in 1 .. Len(s) : x = s[i]
      BY DEF Elements
    <3>2. i \in 1 .. Len(s \o t) /\ (s \o t)[i] = x
      BY <1>2, <3>1
    <3> QED
      BY <3>2 DEF Elements
  <2>3. ASSUME NEW x \in Elements(t)
        PROVE  x \in Elements(s \o t)
    <3>1. PICK i \in 1 .. Len(t) : x = t[i]
      BY DEF Elements
    <3>2. Len(s) + i \in 1 .. Len(s \o t) /\ (s \o t)[Len(s) + i] = x
      BY <1>2, <3>1
    <3> QED
      BY <3>2 DEF Elements
  <2> QED
    BY <2>1, <2>2, <2>3
<1> QED
  BY <1>2, <1>6, <1>7, <1>8 DEF Sorted

LEMMA SortedOne ==
    ASSUME NEW D, NEW rank \in [D -> Nat], NEW part \in D, NEW n \in Nat, rank[part] = n
    PROVE  Sorted(D, rank, <<part>>, n, n) /\ Elements(<<part>>) = {part}
  BY DEF Sorted, Elements

LEMMA SortedWhen ==
    ASSUME NEW D, NEW rank, NEW s, NEW a, NEW b, NEW condition,
           Sorted(D, rank, s, a, b)
    PROVE  /\ Sorted(D, rank, When(condition, s), a, b)
           /\ Elements(When(condition, s)) = IF condition THEN Elements(s) ELSE {}
<1>1. CASE condition
  BY <1>1 DEF When
<1>2. CASE ~ condition
  <2>1. When(condition, s) = <<>> /\ Len(<<>>) = 0 /\ <<>> \in Seq(D)
    BY <1>2 DEF When
  <2>2. \A i : i \notin 1 .. 0
    OBVIOUS
  <2> QED
    BY <1>2, <2>1, <2>2 DEF Sorted, Elements
<1> QED
  BY <1>1, <1>2

\* The workers of the settings, in either order.
LEMMA WorkersSorted ==
    ASSUME settings \in AllSettings
    PROVE  LET s == settings.workers
               t == [i \in DOMAIN s |-> s[Len(s) + 1 - i]]
           IN  /\ Workers \cap (OwnParts \cup {"chat", "stream"}) = {}
               /\ Sorted(Parts, StartRank, s, 3, 3) /\ Elements(s) = Workers
               /\ Sorted(Parts, StopRank, t, 6, 6) /\ Elements(t) = Workers
<1> DEFINE s == settings.workers
           t == [i \in DOMAIN s |-> s[Len(s) + 1 - i]]
<1>1. s \in Seq(STRING) /\ \A i \in DOMAIN s : s[i] \notin OwnParts \cup {"chat", "stream"}
  BY LifespanAssumption
<1>2. Workers = {s[i] : i \in DOMAIN s}
  BY DEF Workers
<1> HIDE DEF s
<1>3. Len(s) \in Nat /\ DOMAIN s = 1 .. Len(s)
  BY <1>1
<1>4. ASSUME NEW i \in 1 .. Len(s)
      PROVE  /\ s[i] \in Parts /\ s[i] \notin OwnParts \cup {"chat", "stream"}
             /\ StartRank[s[i]] = 3 /\ StopRank[s[i]] = 6
  <2>1. s[i] \in Parts
    BY <1>2, <1>3 DEF Parts
  <2>2. s[i] \notin OwnParts \cup {"chat", "stream"}
    BY <1>1, <1>3
  <2> QED
    BY <2>1, <2>2 DEF StartRank, StopRank, OwnParts
<1>5. Workers \cap (OwnParts \cup {"chat", "stream"}) = {}
  BY <1>2, <1>3, <1>4
<1>6. Sorted(Parts, StartRank, s, 3, 3) /\ Elements(s) = Workers
  <2>1. s \in Seq(Parts)
    BY <1>1, <1>3, <1>4
  <2> QED
    BY <1>2, <1>3, <1>4, <2>1 DEF Sorted, Elements
<1>7. ASSUME NEW i \in 1 .. Len(s)
      PROVE  Len(s) + 1 - i \in 1 .. Len(s) /\ t[i] = s[Len(s) + 1 - i]
  BY <1>3
<1>8. t \in Seq(Parts) /\ Len(t) = Len(s)
  <2>1. t \in [1 .. Len(s) -> Parts]
    BY <1>3, <1>4, <1>7
  <2> HIDE DEF t
  <2> QED
    BY <1>3, <2>1
<1>9. Sorted(Parts, StopRank, t, 6, 6)
  <2> HIDE DEF t
  <2>1. ASSUME NEW i \in 1 .. Len(t)
        PROVE  StopRank[t[i]] = 6
    <3>1. i \in 1 .. Len(s)
      BY <1>8
    <3> QED
      BY <1>4, <1>7, <3>1
  <2> QED
    BY <1>8, <2>1 DEF Sorted
<1>10. Elements(t) = Workers
  <2>1. ASSUME NEW x \in Workers
        PROVE  x \in Elements(t)
    <3>1. PICK i \in 1 .. Len(s) : x = s[i]
      BY <1>2, <1>3
    <3>2. /\ Len(s) + 1 - i \in 1 .. Len(s)
          /\ Len(s) + 1 - (Len(s) + 1 - i) = i
      BY <1>3
    <3>3. t[Len(s) + 1 - i] = s[i]
      BY <1>7, <3>2
    <3> QED
      BY <1>8, <3>1, <3>2, <3>3 DEF Elements
  <2>2. ASSUME NEW x \in Elements(t)
        PROVE  x \in Workers
    <3>1. PICK i \in 1 .. Len(s) : x = t[i]
      BY <1>8 DEF Elements
    <3> QED
      BY <1>2, <1>3, <1>7, <3>1
  <2> QED
    BY <2>1, <2>2
<1> QED
  BY <1>5, <1>6, <1>9, <1>10 DEF s

\* One more part, always or on a condition.
LEMMA SortedThen ==
    ASSUME NEW D, NEW rank \in [D -> Nat], NEW s, NEW a \in Nat, NEW b \in Nat,
           Sorted(D, rank, s, a, b), NEW part \in D, NEW n \in Nat, rank[part] = n, b <= n,
           a <= n
    PROVE  /\ Sorted(D, rank, s \o <<part>>, a, n)
           /\ Elements(s \o <<part>>) = Elements(s) \cup {part}
<1>1. Sorted(D, rank, <<part>>, n, n) /\ Elements(<<part>>) = {part}
  BY SortedOne
<1>2. n <= n
  OBVIOUS
<1> QED
  BY <1>1, <1>2, SortedConcat

LEMMA SortedThenWhen ==
    ASSUME NEW D, NEW rank \in [D -> Nat], NEW s, NEW a \in Nat, NEW b \in Nat,
           Sorted(D, rank, s, a, b), NEW part \in D, NEW n \in Nat, rank[part] = n, b <= n,
           a <= n, NEW condition
    PROVE  /\ Sorted(D, rank, s \o When(condition, <<part>>), a, n)
           /\ Elements(s \o When(condition, <<part>>))
                  = Elements(s) \cup IF condition THEN {part} ELSE {}
<1>1. Sorted(D, rank, <<part>>, n, n) /\ Elements(<<part>>) = {part}
  BY SortedOne
<1>2. /\ Sorted(D, rank, When(condition, <<part>>), n, n)
      /\ Elements(When(condition, <<part>>)) = IF condition THEN Elements(<<part>>) ELSE {}
  BY <1>1, SortedWhen
<1>3. n <= n
  OBVIOUS
<1> QED
  BY <1>1, <1>2, <1>3, SortedConcat

LEMMA RanksAreNumbers == StartRank \in [Parts -> Nat] /\ StopRank \in [Parts -> Nat]
  BY DEF StartRank, StopRank

\* Starting: the bus, the registry, the workers, the loops, the observers; together with
\* the engine and the HA client they are what the settings ask for.
LEMMA StartSorted ==
    ASSUME settings \in AllSettings
    PROVE  /\ Sorted(Parts, StartRank, StartOrder, 1, 10)
           /\ Elements(StartOrder) \cup {"engine"} \cup (IF HasHA THEN {"ha"} ELSE {}) = Asked
<1>1. Sorted(Parts, StartRank, <<"bus", "registry">>, 1, 2)
      /\ Elements(<<"bus", "registry">>) = {"bus", "registry"}
  BY DEF Sorted, Elements, StartRank, Parts, OwnParts
<1>2. /\ Sorted(Parts, StartRank, <<"bus", "registry">> \o settings.workers, 1, 3)
      /\ Elements(<<"bus", "registry">> \o settings.workers) = {"bus", "registry"} \cup Workers
  <2>1. Sorted(Parts, StartRank, settings.workers, 3, 3) /\ Elements(settings.workers) = Workers
    BY WorkersSorted, Zenon
  <2> QED
    BY <1>1, <2>1, SortedConcat, RanksAreNumbers
<1> DEFINE s1 == When(HasBus, <<"bus", "registry">> \o settings.workers)
           s2 == s1 \o <<"sweeper">>
           s3 == s2 \o When(HasSemantic, <<"indexer">>)
           s4 == s3 \o When(Proactive, <<"scheduler">>)
           s5 == s4 \o When(ListensToHA, <<"ha_driver">>)
           s6 == s5 \o When(TakesHooks, <<"webhook">>)
           s7 == s6 \o <<"metrics">>
           s8 == s7 \o When(Traced, <<"tracing">>)
<1>4. /\ Sorted(Parts, StartRank, s1, 1, 3)
      /\ Elements(s1) = IF HasBus THEN {"bus", "registry"} \cup Workers ELSE {}
  BY <1>2, SortedWhen
<1> HIDE DEF s1
<1>5. Sorted(Parts, StartRank, s2, 1, 4) /\ Elements(s2) = Elements(s1) \cup {"sweeper"}
  <2>1. "sweeper" \in Parts /\ StartRank["sweeper"] = 4
    BY DEF StartRank, Parts, OwnParts
  <2> QED
    BY <1>4, <2>1, SortedThen, RanksAreNumbers
<1> HIDE DEF s2
<1>6. /\ Sorted(Parts, StartRank, s3, 1, 5)
      /\ Elements(s3) = Elements(s2) \cup IF HasSemantic THEN {"indexer"} ELSE {}
  <2>1. "indexer" \in Parts /\ StartRank["indexer"] = 5
    BY DEF StartRank, Parts, OwnParts
  <2> QED
    BY <1>5, <2>1, SortedThenWhen, RanksAreNumbers, SMTT(60)
<1> HIDE DEF s3
<1>7. /\ Sorted(Parts, StartRank, s4, 1, 6)
      /\ Elements(s4) = Elements(s3) \cup IF Proactive THEN {"scheduler"} ELSE {}
  <2>1. "scheduler" \in Parts /\ StartRank["scheduler"] = 6
    BY DEF StartRank, Parts, OwnParts
  <2> QED
    BY <1>6, <2>1, SortedThenWhen, RanksAreNumbers, SMTT(60)
<1> HIDE DEF s4
<1>8. /\ Sorted(Parts, StartRank, s5, 1, 7)
      /\ Elements(s5) = Elements(s4) \cup IF ListensToHA THEN {"ha_driver"} ELSE {}
  <2>1. "ha_driver" \in Parts /\ StartRank["ha_driver"] = 7
    BY DEF StartRank, Parts, OwnParts
  <2> QED
    BY <1>7, <2>1, SortedThenWhen, RanksAreNumbers, SMTT(60)
<1> HIDE DEF s5
<1>9. /\ Sorted(Parts, StartRank, s6, 1, 8)
      /\ Elements(s6) = Elements(s5) \cup IF TakesHooks THEN {"webhook"} ELSE {}
  <2>1. "webhook" \in Parts /\ StartRank["webhook"] = 8
    BY DEF StartRank, Parts, OwnParts
  <2> QED
    BY <1>8, <2>1, SortedThenWhen, RanksAreNumbers, SMTT(60)
<1> HIDE DEF s6
<1>10. Sorted(Parts, StartRank, s7, 1, 9) /\ Elements(s7) = Elements(s6) \cup {"metrics"}
  <2>1. "metrics" \in Parts /\ StartRank["metrics"] = 9
    BY DEF StartRank, Parts, OwnParts
  <2> QED
    BY <1>9, <2>1, SortedThen, RanksAreNumbers
<1> HIDE DEF s7
<1>11. /\ Sorted(Parts, StartRank, s8, 1, 10)
      /\ Elements(s8) = Elements(s7) \cup IF Traced THEN {"tracing"} ELSE {}
  <2>1. "tracing" \in Parts /\ StartRank["tracing"] = 10
    BY DEF StartRank, Parts, OwnParts
  <2> QED
    BY <1>10, <2>1, SortedThenWhen, RanksAreNumbers, SMTT(60)
<1> HIDE DEF s8
<1>12. StartOrder = s8
  BY DEF s1, s2, s3, s4, s5, s6, s7, s8, StartOrder
<1> QED
  BY <1>4, <1>5, <1>6, <1>7, <1>8, <1>9, <1>10, <1>11, <1>12
     DEF Asked, HasHA, HasBus, HasSemantic, Traced

\* Stopping: what begins decisions first, then the loops, the workers, the registry, the
\* bus, the HA client, the observers and the engine; they are what the settings ask for.
LEMMA StopSorted ==
    ASSUME settings \in AllSettings
    PROVE  Sorted(Parts, StopRank, StopOrder, 1, 12) /\ Elements(StopOrder) = Asked
<1> DEFINE backwards == [i \in DOMAIN settings.workers |->
                             settings.workers[Len(settings.workers) + 1 - i]]
           legion == backwards \o <<"registry", "bus">>
           s1 == When(TakesHooks, <<"webhook">>)
           s2 == s1 \o When(ListensToHA, <<"ha_driver">>)
           s3 == s2 \o When(Proactive, <<"scheduler">>)
           s4 == s3 \o When(HasSemantic, <<"indexer">>)
           s5 == s4 \o <<"sweeper">>
           s6 == s5 \o When(HasBus, legion)
           s7 == s6 \o When(HasHA, <<"ha">>)
           s8 == s7 \o When(Traced, <<"tracing">>)
           s9 == s8 \o <<"engine", "metrics">>
<1>1. /\ Sorted(Parts, StopRank, legion, 6, 8)
      /\ Elements(legion) = Workers \cup {"registry", "bus"}
  <2>1. /\ Sorted(Parts, StopRank, <<"registry", "bus">>, 7, 8)
        /\ Elements(<<"registry", "bus">>) = {"registry", "bus"}
    <3>1. /\ "registry" \in Parts /\ StopRank["registry"] = 7
          /\ "bus" \in Parts /\ StopRank["bus"] = 8
      BY DEF StopRank, Parts, OwnParts
    <3> QED
      BY <3>1 DEF Sorted, Elements
  <2>2. Sorted(Parts, StopRank, backwards, 6, 6) /\ Elements(backwards) = Workers
    BY WorkersSorted, Zenon
  <2> HIDE DEF backwards
  <2> QED
    BY <2>1, <2>2, SortedConcat, RanksAreNumbers, SMTT(60)
<1> HIDE DEF legion
<1>2. /\ Sorted(Parts, StopRank, s1, 1, 1)
      /\ Elements(s1) = IF TakesHooks THEN {"webhook"} ELSE {}
  <2>1. "webhook" \in Parts /\ StopRank["webhook"] = 1
    BY DEF StopRank, Parts, OwnParts
  <2>2. Sorted(Parts, StopRank, <<"webhook">>, 1, 1) /\ Elements(<<"webhook">>) = {"webhook"}
    BY <2>1, SortedOne, RanksAreNumbers
  <2> QED
    BY <2>2, SortedWhen
<1> HIDE DEF s1
<1>3. /\ Sorted(Parts, StopRank, s2, 1, 2)
      /\ Elements(s2) = Elements(s1) \cup IF ListensToHA THEN {"ha_driver"} ELSE {}
  <2>1. "ha_driver" \in Parts /\ StopRank["ha_driver"] = 2
    BY DEF StopRank, Parts, OwnParts
  <2> QED
    BY <1>2, <2>1, SortedThenWhen, RanksAreNumbers, SMTT(60)
<1> HIDE DEF s2
<1>4. /\ Sorted(Parts, StopRank, s3, 1, 3)
      /\ Elements(s3) = Elements(s2) \cup IF Proactive THEN {"scheduler"} ELSE {}
  <2>1. "scheduler" \in Parts /\ StopRank["scheduler"] = 3
    BY DEF StopRank, Parts, OwnParts
  <2> QED
    BY <1>3, <2>1, SortedThenWhen, RanksAreNumbers, SMTT(60)
<1> HIDE DEF s3
<1>5. /\ Sorted(Parts, StopRank, s4, 1, 4)
      /\ Elements(s4) = Elements(s3) \cup IF HasSemantic THEN {"indexer"} ELSE {}
  <2>1. "indexer" \in Parts /\ StopRank["indexer"] = 4
    BY DEF StopRank, Parts, OwnParts
  <2> QED
    BY <1>4, <2>1, SortedThenWhen, RanksAreNumbers, SMTT(60)
<1> HIDE DEF s4
<1>6. /\ Sorted(Parts, StopRank, s5, 1, 5)
      /\ Elements(s5) = Elements(s4) \cup {"sweeper"}
  <2>1. "sweeper" \in Parts /\ StopRank["sweeper"] = 5
    BY DEF StopRank, Parts, OwnParts
  <2> QED
    BY <1>5, <2>1, SortedThen, RanksAreNumbers, SMTT(60)
<1> HIDE DEF s5
<1>7. /\ Sorted(Parts, StopRank, s6, 1, 8)
      /\ Elements(s6) = Elements(s5) \cup IF HasBus THEN Workers \cup {"registry", "bus"} ELSE {}
  <2>1. /\ Sorted(Parts, StopRank, When(HasBus, legion), 6, 8)
        /\ Elements(When(HasBus, legion)) = IF HasBus THEN Elements(legion) ELSE {}
    BY <1>1, SortedWhen
  <2> QED
    BY <1>1, <1>6, <2>1, SortedConcat, RanksAreNumbers, SMTT(60)
<1> HIDE DEF s6
<1>8. /\ Sorted(Parts, StopRank, s7, 1, 9)
      /\ Elements(s7) = Elements(s6) \cup IF HasHA THEN {"ha"} ELSE {}
  <2>1. "ha" \in Parts /\ StopRank["ha"] = 9
    BY DEF StopRank, Parts, OwnParts
  <2> QED
    BY <1>7, <2>1, SortedThenWhen, RanksAreNumbers, SMTT(60)
<1> HIDE DEF s7
<1>9. /\ Sorted(Parts, StopRank, s8, 1, 10)
      /\ Elements(s8) = Elements(s7) \cup IF Traced THEN {"tracing"} ELSE {}
  <2>1. "tracing" \in Parts /\ StopRank["tracing"] = 10
    BY DEF StopRank, Parts, OwnParts
  <2> QED
    BY <1>8, <2>1, SortedThenWhen, RanksAreNumbers, SMTT(60)
<1> HIDE DEF s8
<1>10. /\ Sorted(Parts, StopRank, s9, 1, 12)
       /\ Elements(s9) = Elements(s8) \cup {"engine", "metrics"}
  <2>1. /\ Sorted(Parts, StopRank, <<"engine", "metrics">>, 11, 12)
        /\ Elements(<<"engine", "metrics">>) = {"engine", "metrics"}
    BY DEF Sorted, Elements, StopRank, Parts, OwnParts
  <2> QED
    BY <1>9, <2>1, SortedConcat, RanksAreNumbers, SMTT(60)
<1> HIDE DEF s9
<1>11. StopOrder = s9
  BY DEF legion, s1, s2, s3, s4, s5, s6, s7, s8, s9, StopOrder
<1> QED
  BY <1>1, <1>2, <1>3, <1>4, <1>5, <1>6, <1>7, <1>8, <1>9, <1>10, <1>11
     DEF Asked, HasHA, HasBus, HasSemantic, Traced

-----------------------------------------------------------------------------
(***************************************************************************)
(* The invariant.  It says what is up in every phase by the place in the   *)
(* order, and that what is at work is up.                                  *)
(***************************************************************************)
\* What was started, or stopped, before the present place.
Before(s, n) == {s[i] : i \in 1 .. n - 1}
Passed(s) == Before(s, step)

Base == {"engine"} \cup (IF HasHA THEN {"ha"} ELSE {})

StartingOK ==
    /\ step \in 1 .. Len(StartOrder) + 1
    /\ up = Base \cup Passed(StartOrder)
    /\ \A part \in Passed(StartOrder) : ~ CannotStart(part)

ServingOK == up = Asked /\ \A part \in Asked : ~ CannotStart(part)

StoppingOK ==
    /\ step \in 1 .. Len(StopOrder) + 1
    /\ up = Asked \ Passed(StopOrder)

Loops == {"scheduler", "ha_driver", "webhook", "sweeper", "indexer"}

LifeInv ==
    /\ settings \in AllSettings /\ phase \in Phases /\ faults \in 0 .. MaxFaults
    /\ jobs \subseteq Loops \cup Workers \cup {"chat", "stream"}
    /\ jobs \ {"chat", "stream"} \subseteq up
    /\ jobs \cap {"chat", "stream"} # {} => phase \in {"serving", "draining", "killed"}
    /\ phase \in {"new", "refused", "down"} => up = {}
    /\ phase = "new" => step = 1
    /\ step \in Nat
    /\ phase \in {"starting", "broken"} => StartingOK
    /\ phase \in {"serving", "draining", "killed"} => ServingOK
    /\ phase \in {"stopping", "halted"} => StoppingOK

\* Of two parts of an order the one with the lower rank comes first.
LEMMA LowerIsEarlier ==
    ASSUME NEW D, NEW rank \in [D -> Nat], NEW s, NEW a, NEW b, Sorted(D, rank, s, a, b),
           NEW n \in 1 .. Len(s) + 1, NEW i \in 1 .. Len(s), i < n,
           NEW p \in Elements(s), rank[p] < rank[s[i]]
    PROVE  p \in Before(s, n)
<1>1. PICK j \in 1 .. Len(s) : p = s[j]
  BY DEF Elements
<1>2. Len(s) \in Nat /\ s[i] \in D /\ s[j] \in D
  BY ElementOfSeq DEF Sorted
<1>3. rank[s[i]] \in Nat /\ rank[s[j]] \in Nat
  BY <1>2
<1>4. j < i
  <2>1. CASE i < j
    <3>1. rank[s[i]] <= rank[s[j]]
      BY <2>1 DEF Sorted
    <3> QED
      BY <1>1, <1>3, <3>1
  <2>2. CASE i = j
    BY <1>1, <1>3, <2>2
  <2> QED
    BY <2>1, <2>2
<1> QED
  BY <1>1, <1>2, <1>4 DEF Before

\* What a loop or a worker that is up uses is asked for, and is started before it and
\* stopped after it.
Needed(job) ==
    IF job \in Workers THEN {"bus", "engine"}
    ELSE IF job \in Decisions
    THEN {"engine"} \cup (IF HasHA THEN {"ha"} ELSE {})
             \cup (IF HasBus THEN {"bus", "registry"} \cup Workers ELSE {})
    ELSE {"engine"}

LEMMA UsesOrdered ==
    ASSUME settings \in AllSettings, NEW job \in (Loops \cup Workers) \cap Asked
    PROVE  /\ Uses(job) = Needed(job) \cup {job}
           /\ Needed(job) \subseteq Asked /\ job \in Parts
           /\ \A p \in Needed(job) : /\ StopRank[job] < StopRank[p]
                                     /\ p \notin Base => StartRank[p] < StartRank[job]
<1>1. Workers \cap (OwnParts \cup {"chat", "stream"}) = {}
  BY WorkersSorted, Zenon
<1>2. \A w \in Workers : w \in Parts /\ StartRank[w] = 3 /\ StopRank[w] = 6
  BY <1>1 DEF StartRank, StopRank, Parts, OwnParts
<1>3. job \in Workers => HasBus
  BY <1>1 DEF Asked, OwnParts
<1>4. CASE job \in Workers
  <2>1. Uses(job) = {"bus", "engine", job} /\ Needed(job) = {"bus", "engine"}
    BY <1>1, <1>4 DEF Uses, Needed, Decisions, OwnParts
  <2>2. /\ "bus" \in Parts /\ StartRank["bus"] = 1 /\ StopRank["bus"] = 8
        /\ "engine" \in Parts /\ "engine" \in Base /\ StopRank["engine"] = 11
    BY DEF StartRank, StopRank, Parts, OwnParts, Base
  <2>3. {"bus", "engine"} \subseteq Asked
    BY <1>3, <1>4 DEF Asked, HasBus
  <2>4. StartRank[job] = 3 /\ StopRank[job] = 6 /\ job \in Parts
    BY <1>2, <1>4
  <2> QED
    BY <2>1, <2>2, <2>3, <2>4
<1>5. CASE job \in {"scheduler", "ha_driver", "webhook"}
  <2>1. job \notin Workers
    BY <1>1, <1>5 DEF OwnParts
  <2>2. Needed(job) = {"engine"} \cup (IF HasHA THEN {"ha"} ELSE {})
                          \cup (IF HasBus THEN {"bus", "registry"} \cup Workers ELSE {})
    BY <1>5, <2>1 DEF Needed, Decisions
  <2>3. Uses(job) = Needed(job) \cup {job}
    BY <1>5, <2>1, <2>2 DEF Uses, Decisions, HasHA, HasBus
  <2>4. Needed(job) \subseteq Asked
    BY <2>2 DEF Asked, HasHA, HasBus
  <2>5. /\ "engine" \in Parts /\ "ha" \in Parts /\ "bus" \in Parts /\ "registry" \in Parts
        /\ job \in Parts
    BY <1>5 DEF Parts, OwnParts
  <2>6. /\ StartRank["bus"] = 1 /\ StartRank["registry"] = 2
        /\ StopRank["bus"] = 8 /\ StopRank["registry"] = 7
    BY <2>5 DEF StartRank, StopRank
  <2>7. /\ StopRank["ha"] = 9 /\ StopRank["engine"] = 11
        /\ "engine" \in Base /\ (HasHA => "ha" \in Base)
    BY <2>5 DEF StopRank, Base
  <2>8. StartRank[job] \in {6, 7, 8} /\ StopRank[job] \in {1, 2, 3}
    BY <1>5, <2>5 DEF StartRank, StopRank
  <2>9. ASSUME NEW p \in Needed(job)
        PROVE  /\ StopRank[job] < StopRank[p]
               /\ p \notin Base => StartRank[p] < StartRank[job]
    <3>1. \/ p = "engine"
          \/ HasHA /\ p = "ha"
          \/ p \in {"bus", "registry"} \/ p \in Workers
      BY <2>2
    <3> QED
      BY <1>2, <2>6, <2>7, <2>8, <3>1
  <2> QED
    BY <2>3, <2>4, <2>5, <2>9
<1>6. CASE job \in {"sweeper", "indexer"}
  <2>1. job \notin Workers /\ job \notin Decisions
    BY <1>1, <1>6 DEF OwnParts, Decisions
  <2>2. Needed(job) = {"engine"} /\ Uses(job) = {"engine", job}
    BY <1>6, <2>1 DEF Needed, Uses
  <2>3. "engine" \in Asked /\ "engine" \in Parts /\ job \in Parts /\ "engine" \in Base
    BY <1>6 DEF Asked, Parts, OwnParts, Base
  <2>4. StopRank["engine"] = 11 /\ StopRank[job] \in {4, 5}
    BY <1>6, <2>3 DEF StopRank
  <2> QED
    BY <2>2, <2>3, <2>4
<1> QED
  BY <1>4, <1>5, <1>6 DEF Loops

LEMMA UsesIsUp == LifeInv => \A job \in (Loops \cup Workers) \cap up : Uses(job) \subseteq up
<1> SUFFICES ASSUME LifeInv, NEW job \in (Loops \cup Workers) \cap up
             PROVE  Uses(job) \subseteq up
  OBVIOUS
<1>1. Workers \cap (OwnParts \cup {"chat", "stream"}) = {} /\ settings \in AllSettings
  BY WorkersSorted, Zenon DEF LifeInv
<1>2. CASE phase \in {"starting", "broken"}
  <2>1. StartingOK /\ step \in 1 .. Len(StartOrder) + 1 /\ up = Base \cup Passed(StartOrder)
    BY <1>2 DEF LifeInv, StartingOK
  <2>2. job \in Passed(StartOrder)
    BY <1>1, <2>1 DEF Base, Loops, OwnParts
  <2>3. PICK i \in 1 .. step - 1 : job = StartOrder[i]
    BY <2>2 DEF Passed, Before
  <2>4. Sorted(Parts, StartRank, StartOrder, 1, 10)
        /\ Elements(StartOrder) \cup Base = Asked
    BY <1>1, StartSorted DEF Base
  <2>5. Len(StartOrder) \in Nat /\ i \in 1 .. Len(StartOrder) /\ i < step
    BY <2>1, <2>4 DEF Sorted
  <2>6. job \in Asked
    BY <2>3, <2>4, <2>5 DEF Elements
  <2>7. ASSUME NEW p \in Needed(job), p \notin Base
        PROVE  p \in Passed(StartOrder)
    <3>1. p \in Elements(StartOrder) /\ StartRank[p] < StartRank[StartOrder[i]]
      BY <1>1, <2>3, <2>4, <2>6, <2>7, UsesOrdered
    <3>2. p \in Before(StartOrder, step)
      BY <2>1, <2>4, <2>5, <3>1, LowerIsEarlier, RanksAreNumbers, Zenon
    <3> QED
      BY <3>2 DEF Passed
  <2>8. Uses(job) = Needed(job) \cup {job}
    BY <1>1, <2>6, UsesOrdered
  <2> QED
    BY <2>1, <2>7, <2>8
<1>3. CASE phase \in {"serving", "draining", "killed"}
  <2>1. up = Asked
    BY <1>3 DEF LifeInv, ServingOK
  <2> QED
    BY <1>1, <2>1, UsesOrdered
<1>4. CASE phase \in {"stopping", "halted"}
  <2>1. step \in 1 .. Len(StopOrder) + 1 /\ up = Asked \ Passed(StopOrder)
    BY <1>4 DEF LifeInv, StoppingOK
  <2>2. Sorted(Parts, StopRank, StopOrder, 1, 12) /\ Elements(StopOrder) = Asked
    BY <1>1, StopSorted
  <2>3. Uses(job) = Needed(job) \cup {job} /\ Needed(job) \subseteq Asked
    BY <1>1, <2>1, UsesOrdered
  <2>4. ASSUME NEW p \in Needed(job), p \in Passed(StopOrder)
        PROVE  FALSE
    <3>1. PICK i \in 1 .. step - 1 : p = StopOrder[i]
      BY <2>4 DEF Passed, Before
    <3>2. Len(StopOrder) \in Nat /\ i \in 1 .. Len(StopOrder) /\ i < step
      BY <2>1, <2>2 DEF Sorted
    <3>3. job \in Elements(StopOrder) /\ StopRank[job] < StopRank[StopOrder[i]]
      BY <1>1, <2>1, <2>2, <3>1, UsesOrdered
    <3>4. job \in Before(StopOrder, step)
      BY <2>1, <2>2, <3>2, <3>3, LowerIsEarlier, RanksAreNumbers, Zenon
    <3> QED
      BY <2>1, <3>4 DEF Passed
  <2> QED
    BY <2>1, <2>3, <2>4
<1>5. CASE phase \in {"new", "refused", "down"}
  BY <1>5 DEF LifeInv
<1> QED
  BY <1>2, <1>3, <1>4, <1>5 DEF LifeInv, Phases

\* The settings decide the orders, and they never change.
LEMMA SameOrders ==
    ASSUME settings' = settings
    PROVE  /\ StartOrder' = StartOrder /\ StopOrder' = StopOrder /\ Asked' = Asked
           /\ Workers' = Workers /\ Base' = Base
           /\ \A part : CannotStart(part)' = CannotStart(part)
<1>1. /\ HasHA' = HasHA /\ HasBus' = HasBus /\ HasSemantic' = HasSemantic
      /\ Traced' = Traced /\ Proactive' = Proactive /\ Workers' = Workers
      /\ TriggersRaise' = TriggersRaise
  BY DEF HasHA, HasBus, HasSemantic, Traced, Proactive, Workers, TriggersRaise, Entries
<1>2. ListensToHA' = ListensToHA /\ TakesHooks' = TakesHooks
  <2>1. Armed' = Armed
    BY <1>1 DEF Armed, Entries
  <2> QED
    BY <1>1, <2>1 DEF ListensToHA, TakesHooks
<1>3. StartOrder' = StartOrder /\ StopOrder' = StopOrder
  BY <1>1, <1>2 DEF StartOrder, StopOrder
<1>4. Asked' = Asked /\ Base' = Base
  BY <1>1, <1>2 DEF Asked, Base
<1>5. \A part : CannotStart(part)' = CannotStart(part)
  BY <1>1 DEF CannotStart, CannotSign
<1> QED
  BY <1>1, <1>3, <1>4, <1>5

LEMMA LifeInit == Init => LifeInv
  BY LifespanAssumption DEF Init, LifeInv, Phases

\* Steps that only begin or end work.
LEMMA WorkStep ==
    ASSUME LifeInv, UNCHANGED <<settings, phase, step, up, faults>>,
           jobs' \subseteq Loops \cup Workers \cup {"chat", "stream"},
           jobs' \ {"chat", "stream"} \subseteq up,
           jobs' \cap {"chat", "stream"} # {} => phase \in {"serving", "draining", "killed"}
    PROVE  LifeInv'
<1>1. /\ StartOrder' = StartOrder /\ StopOrder' = StopOrder /\ Asked' = Asked
      /\ Workers' = Workers /\ Base' = Base
      /\ \A part : CannotStart(part)' = CannotStart(part)
  BY SameOrders
<1>2. StartingOK => StartingOK'
  BY <1>1 DEF StartingOK, Passed, Before
<1>3. ServingOK => ServingOK'
  BY <1>1 DEF ServingOK
<1>4. StoppingOK => StoppingOK'
  BY <1>1 DEF StoppingOK, Passed, Before
<1>5. Loops' = Loops
  BY DEF Loops
<1> QED
  BY <1>1, <1>2, <1>3, <1>4, <1>5 DEF LifeInv

\* Steps that change the phase or the place only.
LEMMA PhaseStep ==
    ASSUME LifeInv, UNCHANGED <<settings, up, jobs>>,
           \/ phase = "starting" /\ phase' \in {"broken", "starting"} /\ step' = step
           \/ phase = "serving" /\ phase' = "draining" /\ step' = step
           \/ phase = "draining" /\ phase' = "killed" /\ step' = step
           \/ phase = "stopping" /\ phase' = "halted" /\ step' = step,
           faults' \in 0 .. MaxFaults
    PROVE  LifeInv'
<1>1. /\ StartOrder' = StartOrder /\ StopOrder' = StopOrder /\ Asked' = Asked
      /\ Workers' = Workers /\ Base' = Base
      /\ \A part : CannotStart(part)' = CannotStart(part)
  BY SameOrders
<1>2. StartingOK /\ step' = step => StartingOK'
  BY <1>1 DEF StartingOK, Passed, Before
<1>3. ServingOK => ServingOK'
  BY <1>1 DEF ServingOK
<1>4. StoppingOK /\ step' = step => StoppingOK'
  BY <1>1 DEF StoppingOK, Passed, Before
<1>5. Loops' = Loops
  BY DEF Loops
<1> QED
  BY <1>1, <1>2, <1>3, <1>4, <1>5 DEF LifeInv, Phases

\* What has passed, one place further.
LEMMA BeforeNext ==
    ASSUME NEW s, NEW n \in Nat \ {0}
    PROVE  Before(s, n + 1) = Before(s, n) \cup {s[n]}
<1>1. 1 .. (n + 1) - 1 = (1 .. n - 1) \cup {n}
  OBVIOUS
<1> QED
  BY <1>1 DEF Before

LEMMA BeforeFirst == ASSUME NEW s PROVE Before(s, 1) = {}
  BY DEF Before

LEMMA BeforeEnd == ASSUME NEW s, Len(s) \in Nat PROVE Before(s, Len(s) + 1) = Elements(s)
<1>1. (Len(s) + 1) - 1 = Len(s)
  OBVIOUS
<1> QED
  BY <1>1 DEF Before, Elements

LEMMA OrdersAreSequences ==
    ASSUME LifeInv
    PROVE  /\ Len(StartOrder) \in Nat /\ DOMAIN StartOrder = 1 .. Len(StartOrder)
           /\ Len(StopOrder) \in Nat /\ DOMAIN StopOrder = 1 .. Len(StopOrder)
<1>1. StartOrder \in Seq(Parts) /\ StopOrder \in Seq(Parts)
  BY StartSorted, StopSorted DEF LifeInv, Sorted
<1> QED
  BY <1>1

LEMMA CreateStep == ASSUME LifeInv, CreateApp PROVE LifeInv'
<1>1. /\ StartOrder' = StartOrder /\ StopOrder' = StopOrder /\ Asked' = Asked
      /\ Workers' = Workers /\ Base' = Base
      /\ \A part : CannotStart(part)' = CannotStart(part)
  BY SameOrders DEF CreateApp
<1>2. Loops' = Loops
  BY DEF Loops
<1>3. up = {} /\ step = 1 /\ jobs = {}
  BY DEF LifeInv, CreateApp
<1>4. CASE phase' = "refused" /\ up' = up
  BY <1>1, <1>2, <1>3, <1>4 DEF CreateApp, LifeInv, Phases
<1>5. CASE phase' = "starting" /\ up' = {"engine"} \cup (IF HasHA THEN {"ha"} ELSE {})
  <2>1. Passed(StartOrder)' = {}
    <3>1. Passed(StartOrder)' = Before(StartOrder, 1)
      BY <1>1, <1>3 DEF Passed, Before, CreateApp
    <3> QED
      BY <3>1, BeforeFirst
  <2>2. StartingOK'
    BY <1>1, <1>3, <1>5, <2>1, OrdersAreSequences DEF StartingOK, Base, CreateApp
  <2> QED
    BY <1>1, <1>2, <1>3, <1>5, <2>2 DEF CreateApp, LifeInv, Phases
<1> QED
  BY <1>4, <1>5 DEF CreateApp

LEMMA StartStep == ASSUME LifeInv, StartPart PROVE LifeInv'
<1>1. /\ StartOrder' = StartOrder /\ StopOrder' = StopOrder /\ Asked' = Asked
      /\ Workers' = Workers /\ Base' = Base
      /\ \A part : CannotStart(part)' = CannotStart(part)
  BY SameOrders DEF StartPart
<1>2. Loops' = Loops
  BY DEF Loops
<1>3. /\ StartingOK /\ step \in 1 .. Len(StartOrder) /\ step \in Nat \ {0}
      /\ Len(StartOrder) \in Nat
  BY OrdersAreSequences DEF LifeInv, StartPart
<1>4. Passed(StartOrder)' = Passed(StartOrder) \cup {StartOrder[step]}
  <2>1. Passed(StartOrder)' = Before(StartOrder, step + 1)
    BY <1>1 DEF Passed, Before, StartPart
  <2> QED
    BY <1>3, <2>1, BeforeNext DEF Passed
<1>5. StartingOK'
  BY <1>1, <1>3, <1>4 DEF StartingOK, StartPart
<1> QED
  BY <1>1, <1>2, <1>3, <1>5 DEF StartPart, LifeInv, Phases

LEMMA ServeStep == ASSUME LifeInv, Serve PROVE LifeInv'
<1>1. /\ StartOrder' = StartOrder /\ StopOrder' = StopOrder /\ Asked' = Asked
      /\ Workers' = Workers /\ Base' = Base
      /\ \A part : CannotStart(part)' = CannotStart(part)
  BY SameOrders DEF Serve
<1>2. Loops' = Loops
  BY DEF Loops
<1>3. StartingOK /\ step = Len(StartOrder) + 1 /\ Len(StartOrder) \in Nat
  <2>1. StartingOK /\ step \notin 1 .. Len(StartOrder) /\ Len(StartOrder) \in Nat
    BY OrdersAreSequences DEF LifeInv, Serve
  <2> QED
    BY <2>1 DEF StartingOK
<1>4. Passed(StartOrder) = Elements(StartOrder)
  BY <1>3, BeforeEnd DEF Passed
<1>5. Elements(StartOrder) \cup Base = Asked
  BY StartSorted DEF LifeInv, Base
<1>6. \A part \in Base : ~ CannotStart(part)
  <2>1. Workers \cap OwnParts = {}
    BY WorkersSorted, Zenon DEF LifeInv
  <2> QED
    BY <2>1 DEF Base, CannotStart, OwnParts
<1>7. ServingOK
  BY <1>3, <1>4, <1>5, <1>6 DEF ServingOK, StartingOK
<1>8. ServingOK'
  BY <1>1, <1>7 DEF ServingOK, Serve
<1> QED
  BY <1>1, <1>2, <1>8 DEF Serve, LifeInv, Phases

LEMMA DrainedStep == ASSUME LifeInv, Drained PROVE LifeInv'
<1>1. /\ StartOrder' = StartOrder /\ StopOrder' = StopOrder /\ Asked' = Asked
      /\ Workers' = Workers /\ Base' = Base
      /\ \A part : CannotStart(part)' = CannotStart(part)
  BY SameOrders DEF Drained
<1>2. Loops' = Loops
  BY DEF Loops
<1>3. ServingOK
  BY DEF LifeInv, Drained
<1>4. Passed(StopOrder)' = {}
  <2>1. Passed(StopOrder)' = Before(StopOrder, 1)
    BY <1>1 DEF Passed, Before, Drained
  <2> QED
    BY <2>1, BeforeFirst
<1>5. StoppingOK'
  BY <1>1, <1>3, <1>4, OrdersAreSequences DEF StoppingOK, ServingOK, Drained
<1> QED
  BY <1>1, <1>2, <1>5 DEF Drained, LifeInv, Phases

LEMMA StopStep == ASSUME LifeInv, StopPart PROVE LifeInv'
<1>1. /\ StartOrder' = StartOrder /\ StopOrder' = StopOrder /\ Asked' = Asked
      /\ Workers' = Workers /\ Base' = Base
      /\ \A part : CannotStart(part)' = CannotStart(part)
  BY SameOrders DEF StopPart
<1>2. Loops' = Loops
  BY DEF Loops
<1>3. /\ StoppingOK /\ step \in 1 .. Len(StopOrder) /\ step \in Nat \ {0}
      /\ Len(StopOrder) \in Nat
  BY OrdersAreSequences DEF LifeInv, StopPart
<1>4. Passed(StopOrder)' = Passed(StopOrder) \cup {StopOrder[step]}
  <2>1. Passed(StopOrder)' = Before(StopOrder, step + 1)
    BY <1>1 DEF Passed, Before, StopPart
  <2> QED
    BY <1>3, <2>1, BeforeNext DEF Passed
<1>5. StoppingOK'
  BY <1>1, <1>3, <1>4 DEF StoppingOK, StopPart
<1> QED
  BY <1>1, <1>2, <1>3, <1>5 DEF StopPart, LifeInv, Phases

\* After the last stop nothing is up, so nothing is at work.
LEMMA StoppedStep == ASSUME LifeInv, Stopped PROVE LifeInv'
<1>1. /\ StartOrder' = StartOrder /\ StopOrder' = StopOrder /\ Asked' = Asked
      /\ Workers' = Workers /\ Base' = Base
      /\ \A part : CannotStart(part)' = CannotStart(part)
  BY SameOrders DEF Stopped
<1>2. Loops' = Loops
  BY DEF Loops
<1>3. StoppingOK /\ step = Len(StopOrder) + 1 /\ Len(StopOrder) \in Nat
  <2>1. StoppingOK /\ step \notin 1 .. Len(StopOrder) /\ Len(StopOrder) \in Nat
    BY OrdersAreSequences DEF LifeInv, Stopped
  <2> QED
    BY <2>1 DEF StoppingOK
<1>4. Passed(StopOrder) = Asked
  BY <1>3, BeforeEnd, StopSorted DEF Passed, LifeInv
<1>5. up = {}
  BY <1>3, <1>4 DEF StoppingOK
<1> QED
  BY <1>1, <1>2, <1>5 DEF Stopped, LifeInv, Phases

LEMMA LifeStep == LifeInv /\ [Next]_vars => LifeInv'
<1> SUFFICES ASSUME LifeInv, [Next]_vars PROVE LifeInv'
  OBVIOUS
<1>1. ASSUME NEW job \in {"chat", "stream", "webhook"}, Request(job)
      PROVE  LifeInv'
  <2>1. /\ phase = "serving" /\ jobs' = jobs \cup {job}
        /\ UNCHANGED <<settings, phase, step, up, faults>>
        /\ job = "webhook" => "webhook" \in up
    BY <1>1 DEF Request, Begin
  <2>2. /\ jobs' \subseteq Loops \cup Workers \cup {"chat", "stream"}
        /\ jobs' \ {"chat", "stream"} \subseteq up
    BY <2>1 DEF LifeInv, Loops
  <2> QED
    BY <2>1, <2>2, WorkStep
<1>2. ASSUME NEW part \in {"scheduler", "ha_driver", "sweeper", "indexer"}, Loop(part)
      PROVE  LifeInv'
  <2>1. /\ jobs' = jobs \cup {part} /\ part \in up
        /\ UNCHANGED <<settings, phase, step, up, faults>>
    BY <1>2 DEF Loop, Begin
  <2>2. /\ jobs' \subseteq Loops \cup Workers \cup {"chat", "stream"}
        /\ jobs' \ {"chat", "stream"} \subseteq up
        /\ jobs' \cap {"chat", "stream"} = jobs \cap {"chat", "stream"}
    BY <2>1 DEF LifeInv, Loops
  <2> QED
    BY <2>1, <2>2, WorkStep DEF LifeInv
<1>3. ASSUME NEW w \in Workers, Task(w)
      PROVE  LifeInv'
  <2>1. /\ jobs' = jobs \cup {w} /\ w \in up
        /\ UNCHANGED <<settings, phase, step, up, faults>>
    BY <1>3 DEF Task, Begin
  <2>2. w \notin {"chat", "stream"}
    BY WorkersSorted, Zenon DEF LifeInv
  <2>3. /\ jobs' \subseteq Loops \cup Workers \cup {"chat", "stream"}
        /\ jobs' \ {"chat", "stream"} \subseteq up
        /\ jobs' \cap {"chat", "stream"} = jobs \cap {"chat", "stream"}
    BY <2>1, <2>2 DEF LifeInv
  <2> QED
    BY <2>1, <2>3, WorkStep DEF LifeInv
<1>4. ASSUME NEW job \in jobs, End(job)
      PROVE  LifeInv'
  BY <1>4, WorkStep DEF End, LifeInv
<1>5. CASE UNCHANGED vars
  BY <1>5, WorkStep DEF vars, LifeInv
<1>6. CASE StartRaises
  BY <1>6, PhaseStep, LifespanAssumption DEF StartRaises, LifeInv
<1>7. CASE Signal
  BY <1>7, PhaseStep DEF Signal, LifeInv
<1>8. CASE SignalAgain
  BY <1>8, PhaseStep DEF SignalAgain, LifeInv
<1>9. CASE StopRaises
  BY <1>9, PhaseStep, LifespanAssumption DEF StopRaises, LifeInv
<1> QED
  BY <1>1, <1>2, <1>3, <1>4, <1>5, <1>6, <1>7, <1>8, <1>9, CreateStep, StartStep, ServeStep,
     DrainedStep, StopStep, StoppedStep DEF Next

\* Every variable keeps to its type.
THEOREM TypeCorrect == Spec => []TypeOK
<1>1. LifeInv => TypeOK
  <2> SUFFICES ASSUME LifeInv PROVE TypeOK
    OBVIOUS
  <2>1. Asked \subseteq Parts /\ Base \subseteq Parts
    BY DEF Asked, Base, Parts, OwnParts
  <2>2. Elements(StartOrder) \subseteq Asked
    BY StartSorted DEF LifeInv
  <2>3. StartingOK => Passed(StartOrder) \subseteq Elements(StartOrder)
    BY OrdersAreSequences DEF StartingOK, Passed, Before, Elements
  <2>4. up \subseteq Parts
    BY <2>1, <2>2, <2>3 DEF LifeInv, StartingOK, ServingOK, StoppingOK, Phases
  <2> QED
    BY <2>4 DEF LifeInv, TypeOK, Loops, Parts, OwnParts
<1> QED
  BY <1>1, LifeInit, LifeStep, PTL DEF Spec

(***************************************************************************)
(* For any settings, however the start or the stop fails and whenever work *)
(* begins: nothing is at work before a part it uses is started, or after   *)
(* one is stopped.                                                         *)
(***************************************************************************)
THEOREM NothingLacksItsParts == Spec => []UsesOnlyRunning
<1>1. LifeInv => UsesOnlyRunning
  <2> SUFFICES ASSUME LifeInv, NEW job \in jobs PROVE Uses(job) \subseteq up
    BY DEF UsesOnlyRunning
  <2>1. Workers \cap (OwnParts \cup {"chat", "stream"}) = {}
    BY WorkersSorted, Zenon DEF LifeInv
  <2>2. CASE job = "stream"
    BY <2>1, <2>2 DEF Uses, Decisions
  <2>3. CASE job = "chat"
    <3>1. up = Asked
      BY <2>3 DEF LifeInv, ServingOK
    <3>2. Uses(job) = {"engine"} \cup (settings.on \cap {"bus", "ha"})
                          \cup (IF HasBus THEN {"registry"} \cup Workers ELSE {})
      BY <2>1, <2>3 DEF Uses, Decisions
    <3> QED
      BY <3>1, <3>2 DEF Asked
  <2>4. CASE job \notin {"chat", "stream"}
    BY <2>4, UsesIsUp DEF LifeInv
  <2> QED
    BY <2>2, <2>3, <2>4
<1> QED
  BY <1>1, LifeInit, LifeStep, PTL DEF Spec

(***************************************************************************)
(* For any settings: a Praetor that serves has every part they ask for and *)
(* no other, and no part that cannot start was asked for; a stop that does *)
(* not raise leaves nothing.                                               *)
(***************************************************************************)
THEOREM ServesWithAllOrNot == Spec => []AllOrNothing
<1>1. LifeInv => AllOrNothing
  BY DEF LifeInv, ServingOK, AllOrNothing
<1> QED
  BY <1>1, LifeInit, LifeStep, PTL DEF Spec

=============================================================================
