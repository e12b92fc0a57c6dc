---------------------------- MODULE PraetorProofs ----------------------------
(***************************************************************************)
(* Theorems about two sides of Praetor.  Login and Dashboard, for every    *)
(* set of addresses, tabs, writers and prompts, every window, limit and    *)
(* bound; and, from "Sequences put one behind the other" on, Conversation, *)
(* for every configuration, history, server and bound.                     *)
(***************************************************************************)
EXTENDS Dashboard, Conversation, SequenceTheorems, WellFoundedInduction, TLAPS

-----------------------------------------------------------------------------
(***************************************************************************)
(* What _prune() leaves of a bucket.                                       *)
(***************************************************************************)
\* A non-empty set of numbers has a least element, and a greatest if it is bounded.
LEMMA LeastNumber ==
    ASSUME NEW T \in SUBSET Nat, T # {}
    PROVE  \E x \in T : \A y \in T : x <= y
<1>1. PICK x \in T : \A y \in T : ~ (<<y, x>> \in OpToRel(<, Nat))
  BY WFMin, NatLessThanWellFounded, Zenon
<1>2. \A y \in T : ~ (y < x)
  BY <1>1 DEF OpToRel
<1> QED
  BY <1>2

LEMMA GreatestNumber ==
    ASSUME NEW n \in Nat, NEW T \in SUBSET (0 .. n), T # {}
    PROVE  \E x \in T : \A y \in T : y <= x
<1> DEFINE Bounds == {b \in Nat : \A i \in T : i <= b}
<1>1. n \in Bounds
  OBVIOUS
<1>2. PICK b \in Bounds : \A c \in Bounds : b <= c
  BY <1>1, LeastNumber
<1>3. b \in T
  <2>1. CASE b = 0
    <3>1. PICK x \in T : TRUE
      OBVIOUS
    <3>2. x \in Nat /\ x <= 0
      BY <2>1, <1>2
    <3> QED
      BY <2>1, <3>1, <3>2
  <2>2. CASE b # 0 /\ b \notin T
    <3>1. b - 1 \in Nat /\ \A i \in T : i <= b - 1
      BY <2>2
    <3> QED
      BY <3>1, <1>2
  <2> QED
    BY <2>1, <2>2
<1> QED
  BY <1>3

\* _prune() pops as many as it may.
LEMMA PoppedIsMost ==
    ASSUME NEW bucket \in Seq(Nat), NEW t \in Nat
    PROVE  /\ Popped(bucket, t) \in Leading(bucket, t)
           /\ Popped(bucket, t) \in 0 .. Len(bucket)
           /\ \A n \in Leading(bucket, t) : n <= Popped(bucket, t)
<1>1. Len(bucket) \in Nat
  BY LenProperties
<1>2. 0 \in Leading(bucket, t) /\ Leading(bucket, t) \in SUBSET (0 .. Len(bucket))
  BY <1>1 DEF Leading
<1>3. \E n \in Leading(bucket, t) : \A m \in Leading(bucket, t) : m <= n
  BY <1>1, <1>2, GreatestNumber
<1>4. /\ Popped(bucket, t) \in Leading(bucket, t)
      /\ \A m \in Leading(bucket, t) : m <= Popped(bucket, t)
  BY <1>3 DEF Popped
<1> QED
  BY <1>2, <1>4

\* What is left is the end of the bucket; what is popped was older than the window, and
\* the first of what is left is not.
LEMMA PruneLeaves ==
    ASSUME NEW bucket \in Seq(Nat), NEW t \in Nat
    PROVE  LET p == Popped(bucket, t)
               left == Prune(bucket, t)
           IN  /\ p \in 0 .. Len(bucket) /\ left \in Seq(Nat)
               /\ Len(left) = Len(bucket) - p
               /\ \A i \in 1 .. Len(left) : left[i] = bucket[p + i]
               /\ \A i \in 1 .. p : t - bucket[i] > Window
               /\ Len(left) > 0 => t - left[1] <= Window
<1> DEFINE p == Popped(bucket, t)
           left == Prune(bucket, t)
<1>1. Len(bucket) \in Nat /\ \A i \in 1 .. Len(bucket) : bucket[i] \in Nat
  BY LenProperties, ElementOfSeq
<1>2. p \in 0 .. Len(bucket) /\ \A i \in 1 .. p : t - bucket[i] > Window
  BY PoppedIsMost DEF Leading
<1>3. \A i \in (p + 1) .. Len(bucket) : bucket[i] \in Nat
  BY <1>1, <1>2
<1>4. /\ left \in Seq(Nat) /\ Len(left) = Len(bucket) - p
      /\ \A i \in 1 .. Len(left) : left[i] = bucket[p + i]
  <2> HIDE DEF p
  <2>1. left = SubSeq(bucket, p + 1, Len(bucket))
    BY DEF Prune, p
  <2>2. /\ left \in Seq(Nat) /\ Len(left) = Len(bucket) - p
        /\ \A i \in 1 .. Len(left) : left[i] = bucket[p + i]
    BY <1>1, <1>2, <2>1
  <2> QED
    BY <2>2
<1>5. ASSUME Len(left) > 0, ~ (t - left[1] <= Window)
      PROVE  FALSE
  <2>1. p + 1 \in 0 .. Len(bucket) /\ left[1] = bucket[p + 1] /\ bucket[p + 1] \in Nat
    BY <1>1, <1>2, <1>4, <1>5
  <2>2. \A i \in 1 .. (p + 1) : t - bucket[i] > Window
    BY <1>1, <1>2, <1>5, <2>1, LoginAssumption
  <2>3. p + 1 \in Leading(bucket, t)
    BY <2>1, <2>2 DEF Leading
  <2> QED
    BY <1>2, <2>3, PoppedIsMost
<1> QED
  BY <1>2, <1>4, <1>5

\* A later prune leaves no more.
LEMMA PruneLess ==
    ASSUME NEW bucket \in Seq(Nat), NEW s \in Nat, NEW t \in Nat, s <= t
    PROVE  Len(Prune(bucket, t)) <= Len(Prune(bucket, s))
<1>1. Len(bucket) \in Nat /\ \A i \in 1 .. Len(bucket) : bucket[i] \in Nat
  BY LenProperties, ElementOfSeq
<1>2. Popped(bucket, s) \in Leading(bucket, s) /\ Popped(bucket, s) \in 0 .. Len(bucket)
  BY PoppedIsMost
<1>3. Popped(bucket, s) \in Leading(bucket, t)
  BY <1>1, <1>2, LoginAssumption DEF Leading
<1>4. Popped(bucket, s) <= Popped(bucket, t) /\ Popped(bucket, t) \in 0 .. Len(bucket)
  BY <1>3, PoppedIsMost
<1> QED
  BY <1>1, <1>2, <1>4, PruneLeaves

\* A sequence whose elements lie in a smaller set is one of that set.
LEMMA SeqOfSmaller ==
    ASSUME NEW S, NEW T, NEW s \in Seq(S), \A i \in 1 .. Len(s) : s[i] \in T
    PROVE  s \in Seq(T)
<1>1. Len(s) \in Nat /\ s \in [1 .. Len(s) -> S]
  BY LenProperties
<1>2. s \in [1 .. Len(s) -> T]
  BY <1>1
<1> QED
  BY <1>1, <1>2, SeqDef

\* Whole seconds, rounded up past the rest.
LEMMA RetryAfterExceeds ==
    ASSUME NEW rest \in Nat
    PROVE  RetryAfter(rest) \in Nat /\ RetryAfter(rest) > rest
<1>1. Second \in Nat \ {0}
  BY LoginAssumption
<1>2. rest \div Second \in Nat /\ rest % Second \in Nat /\ rest % Second < Second
      /\ rest = Second * (rest \div Second) + (rest % Second)
  BY <1>1
<1> DEFINE q == rest \div Second
<1> HIDE DEF q
<1>3. (q + 1) * Second = Second * q + Second /\ Second * q \in Nat /\ q \in Nat
  BY <1>1, <1>2 DEF q
<1> QED
  BY <1>1, <1>2, <1>3 DEF RetryAfter, q

-----------------------------------------------------------------------------
(***************************************************************************)
(* The login.                                                              *)
(***************************************************************************)
Dropped(a) == Len(recorded[a]) - Len(failures[a])

\* The deque is the end of what was recorded, in the order of time; what _prune() has
\* dropped is older than the window.
IsTail(a) ==
    /\ Dropped(a) >= 0
    /\ \A i \in 1 .. Len(failures[a]) : failures[a][i] = recorded[a][Dropped(a) + i]
    /\ \A i \in 1 .. Dropped(a) : now - recorded[a][i] > Window
    /\ \A i \in 1 .. Len(recorded[a]) : recorded[a][i] <= now

DequeIsTail == \A a \in Addresses : IsTail(a)

DequeIsShort == \A a \in Addresses : Len(failures[a]) <= MaxFailures

\* What was told outlasts the oldest failure of a full deque.
ToldOutlasts ==
    \A a \in Addresses :
        told[a] # Never /\ Len(failures[a]) = MaxFailures => told[a] > failures[a][1] + Window

LoginInv == LoginTypeOK /\ DequeIsTail /\ DequeIsShort /\ ToldOutlasts /\ AtMostInWindow

LEMMA LoginInvInit == LoginInit => LoginInv
<1> SUFFICES ASSUME LoginInit PROVE LoginInv
  OBVIOUS
<1>1. \A a \in Addresses : failures[a] = <<>> /\ recorded[a] = <<>> /\ told[a] = Never
  BY DEF LoginInit
<1>2. LoginTypeOK
  BY LoginAssumption DEF LoginInit, LoginTypeOK
<1>3. Len(<<>>) = 0 /\ DOMAIN <<>> = {}
  OBVIOUS
<1>4. \A a \in Addresses : Len(failures[a]) = 0 /\ Len(recorded[a]) = 0 /\ DOMAIN recorded[a] = {}
  BY <1>1, <1>3
<1>5. \A a \in Addresses : Dropped(a) = 0
  <2> TAKE a \in Addresses
  <2>1. Len(failures[a]) = 0 /\ Len(recorded[a]) = 0
    BY <1>4
  <2> QED
    BY <2>1 DEF Dropped
<1>6. DequeIsTail
  <2> SUFFICES ASSUME NEW a \in Addresses PROVE IsTail(a)
    BY DEF DequeIsTail
  <2>1. Len(failures[a]) = 0 /\ Len(recorded[a]) = 0 /\ Dropped(a) = 0
    BY <1>4, <1>5
  <2> QED
    BY <2>1 DEF IsTail
<1>7. DequeIsShort /\ ToldOutlasts
  BY <1>1, <1>4, LoginAssumption DEF DequeIsShort, ToldOutlasts
<1>8. AtMostInWindow
  BY <1>4 DEF AtMostInWindow
<1> QED
  BY <1>2, <1>6, <1>7, <1>8 DEF LoginInv

LEMMA LoginTypes ==
    ASSUME LoginTypeOK, NEW a \in Addresses
    PROVE  /\ now \in Nat /\ now \in 0 .. MaxTime
           /\ failures[a] \in Seq(0 .. MaxTime) /\ failures[a] \in Seq(Nat)
           /\ recorded[a] \in Seq(0 .. MaxTime)
           /\ Len(failures[a]) \in Nat /\ Len(recorded[a]) \in Nat
           /\ \A i \in 1 .. Len(failures[a]) : failures[a][i] \in 0 .. MaxTime
           /\ \A i \in 1 .. Len(recorded[a]) : recorded[a][i] \in Nat
           /\ told[a] \in Nat \cup {Never}
           /\ Dropped(a) \in Int
<1>1. failures[a] \in Seq(0 .. MaxTime) /\ recorded[a] \in Seq(0 .. MaxTime)
  BY DEF LoginTypeOK
<1>2. \A i \in 1 .. Len(failures[a]) : failures[a][i] \in 0 .. MaxTime
  BY <1>1, ElementOfSeq
<1>3. \A i \in 1 .. Len(recorded[a]) : recorded[a][i] \in 0 .. MaxTime
  BY <1>1, ElementOfSeq
<1>4. Len(failures[a]) \in Nat /\ Len(recorded[a]) \in Nat
  BY <1>1, LenProperties
<1> QED
  BY <1>1, <1>2, <1>3, <1>4, LoginAssumption DEF LoginTypeOK, Dropped

\* The bucket after _prune() in place of the one before it: still the end of the record.
LEMMA PrunedIsTail ==
    ASSUME LoginInv, NEW a \in Addresses, NEW t \in Nat, now <= t
    PROVE  LET left == Prune(failures[a], t)
               dropped == Len(recorded[a]) - Len(left)
           IN  /\ left \in Seq(0 .. MaxTime) /\ Len(left) \in Nat
               /\ Len(left) <= Len(failures[a]) /\ dropped \in Nat
               /\ \A i \in 1 .. Len(left) : left[i] = recorded[a][dropped + i]
               /\ \A i \in 1 .. dropped : t - recorded[a][i] > Window
               /\ Len(left) = MaxFailures => left = failures[a]
<1> DEFINE bucket == failures[a]
           p == Popped(bucket, t)
           left == Prune(bucket, t)
           dropped == Len(recorded[a]) - Len(left)
<1>1. /\ bucket \in Seq(Nat) /\ bucket \in Seq(0 .. MaxTime) /\ now \in Nat
      /\ Len(bucket) \in Nat /\ Len(recorded[a]) \in Nat
      /\ \A i \in 1 .. Len(bucket) : bucket[i] \in 0 .. MaxTime
      /\ \A i \in 1 .. Len(recorded[a]) : recorded[a][i] \in Nat
  BY LoginTypes DEF LoginInv
<1>2. /\ p \in 0 .. Len(bucket) /\ left \in Seq(Nat)
      /\ Len(left) = Len(bucket) - p
      /\ \A i \in 1 .. Len(left) : left[i] = bucket[p + i]
      /\ \A i \in 1 .. p : t - bucket[i] > Window
  BY <1>1, PruneLeaves
<1>3. /\ Dropped(a) \in Nat
      /\ \A i \in 1 .. Len(bucket) : bucket[i] = recorded[a][Dropped(a) + i]
      /\ \A i \in 1 .. Dropped(a) : now - recorded[a][i] > Window
  BY <1>1, LoginTypes DEF LoginInv, DequeIsTail, IsTail
<1>4. dropped = Dropped(a) + p /\ dropped \in Nat /\ Len(left) \in Nat
  <2>1. Dropped(a) = Len(recorded[a]) - Len(bucket)
    BY DEF Dropped
  <2> HIDE DEF p, left, bucket
  <2> QED
    BY <1>1, <1>2, <1>3, <2>1
<1>5. \A i \in 1 .. Len(left) : left[i] = recorded[a][dropped + i]
  <2> HIDE DEF p, left, bucket, dropped
  <2> TAKE i \in 1 .. Len(left)
  <2>1. p + i \in 1 .. Len(bucket) /\ left[i] = bucket[p + i]
    BY <1>1, <1>2
  <2>2. Dropped(a) + (p + i) = dropped + i
    BY <1>2, <1>3, <1>4
  <2> QED
    BY <1>3, <2>1, <2>2
<1>6. \A i \in 1 .. dropped : t - recorded[a][i] > Window
  <2> TAKE i \in 1 .. dropped
  <2>1. CASE i \in 1 .. Dropped(a)
    <3>1. i \in 1 .. Len(recorded[a])
      BY <2>1, <1>1, <1>3 DEF Dropped
    <3> QED
      BY <2>1, <3>1, <1>1, <1>3, LoginAssumption
  <2>2. CASE i \notin 1 .. Dropped(a)
    <3>1. i - Dropped(a) \in 1 .. p /\ i - Dropped(a) \in 1 .. Len(bucket)
      BY <2>2, <1>1, <1>2, <1>3, <1>4
    <3>2. Dropped(a) + (i - Dropped(a)) = i
      BY <1>3
    <3> QED
      BY <3>1, <3>2, <1>2, <1>3
  <2> QED
    BY <2>1, <2>2
<1>7. left \in Seq(0 .. MaxTime)
  <2> HIDE DEF p, left, bucket, dropped
  <2>1. \A i \in 1 .. Len(left) : p + i \in 1 .. Len(bucket) /\ left[i] = bucket[p + i]
    BY <1>1, <1>2, <1>4
  <2>2. \A i \in 1 .. Len(left) : left[i] \in 0 .. MaxTime
    BY <1>1, <2>1
  <2> QED
    BY <1>2, <1>4, <2>2, LenProperties, SeqOfSmaller
<1>8. ASSUME Len(left) = MaxFailures
      PROVE  left = bucket
  <2>1. Len(left) = Len(bucket) /\ p = 0
    BY <1>1, <1>2, <1>8, LoginAssumption DEF LoginInv, DequeIsShort
  <2>2. \A i \in 1 .. Len(left) : left[i] = bucket[i]
    BY <1>2, <2>1
  <2> QED
    BY <1>1, <1>2, <2>1, <2>2, SeqEqual
<1> QED
  BY <1>1, <1>2, <1>4, <1>5, <1>6, <1>7, <1>8

\* The clock goes on, and nothing else changes for an address.
LEMMA TimePasses ==
    ASSUME LoginInv, now' \in Nat, now <= now', NEW a \in Addresses,
           failures'[a] = failures[a], recorded'[a] = recorded[a]
    PROVE  IsTail(a)'
<1>1. /\ now \in Nat /\ Len(recorded[a]) \in Nat /\ Len(failures[a]) \in Nat
      /\ \A i \in 1 .. Len(recorded[a]) : recorded[a][i] \in Nat
  BY LoginTypes DEF LoginInv
<1>2. IsTail(a) /\ Dropped(a)' = Dropped(a) /\ Dropped(a) = Len(recorded[a]) - Len(failures[a])
  BY DEF LoginInv, DequeIsTail, Dropped
<1>3. \A i \in 1 .. Dropped(a) : i \in 1 .. Len(recorded[a])
  BY <1>1, <1>2 DEF IsTail
<1>4. \A i \in 1 .. Dropped(a) : now' - recorded[a][i] > Window
  BY <1>1, <1>2, <1>3, LoginAssumption DEF IsTail
<1>5. \A i \in 1 .. Len(recorded[a]) : recorded[a][i] <= now'
  BY <1>1, <1>2 DEF IsTail
<1> QED
  BY <1>2, <1>4, <1>5 DEF IsTail

\* An address's deque is pruned, and nothing is recorded.
LEMMA TailAfterPrune ==
    ASSUME LoginInv, now' \in Nat, now <= now', NEW a \in Addresses,
           failures'[a] = Prune(failures[a], now'), recorded'[a] = recorded[a]
    PROVE  IsTail(a)'
<1> DEFINE left == Prune(failures[a], now')
           dropped == Len(recorded[a]) - Len(left)
<1>1. /\ Len(left) \in Nat /\ dropped \in Nat
      /\ \A i \in 1 .. Len(left) : left[i] = recorded[a][dropped + i]
      /\ \A i \in 1 .. dropped : now' - recorded[a][i] > Window
  BY PrunedIsTail
<1>2. /\ now \in Nat /\ Len(recorded[a]) \in Nat
      /\ \A i \in 1 .. Len(recorded[a]) : recorded[a][i] \in Nat
  BY LoginTypes DEF LoginInv
<1>3. Dropped(a)' = dropped
  BY DEF Dropped
<1>4. \A i \in 1 .. Len(recorded[a]) : recorded[a][i] <= now'
  BY <1>2 DEF LoginInv, DequeIsTail, IsTail
<1> QED
  BY <1>1, <1>3, <1>4 DEF IsTail

\* A failure is recorded at the end of both.
LEMMA TailAfterFailure ==
    ASSUME LoginInv, now' \in Nat, now <= now', now' <= MaxTime, NEW a \in Addresses, HasRoom(a, now),
           failures'[a] = Append(Prune(failures[a], now'), now'),
           recorded'[a] = Append(recorded[a], now')
    PROVE  /\ IsTail(a)' /\ Len(failures'[a]) <= MaxFailures
           /\ failures'[a] \in Seq(0 .. MaxTime) /\ recorded'[a] \in Seq(0 .. MaxTime)
           /\ \A i, j \in DOMAIN recorded'[a] :
                  j = i + MaxFailures => recorded'[a][j] - recorded'[a][i] > Window
<1> DEFINE t == now'
           left == Prune(failures[a], t)
           rec == recorded[a]
           dropped == Len(rec) - Len(left)
<1>1. /\ left \in Seq(0 .. MaxTime) /\ Len(left) \in Nat /\ dropped \in Nat
      /\ \A i \in 1 .. Len(left) : left[i] = rec[dropped + i]
      /\ \A i \in 1 .. dropped : t - rec[i] > Window
  BY PrunedIsTail
<1>2. /\ now \in Nat /\ rec \in Seq(0 .. MaxTime) /\ Len(rec) \in Nat
      /\ failures[a] \in Seq(Nat)
      /\ \A i \in 1 .. Len(rec) : rec[i] \in Nat
  BY LoginTypes DEF LoginInv
<1>3. Len(left) < MaxFailures
  <2>1. Len(Prune(failures[a], now)) < MaxFailures
    BY DEF HasRoom
  <2>2. Len(left) <= Len(Prune(failures[a], now)) /\ Len(Prune(failures[a], now)) \in Nat
    BY <1>2, PruneLess, PrunedIsTail
  <2> QED
    BY <1>1, <2>1, <2>2, LoginAssumption
<1>4. t \in 0 .. MaxTime
  BY LoginAssumption
<1>5. /\ Append(left, t) \in Seq(0 .. MaxTime) /\ Len(Append(left, t)) = Len(left) + 1
      /\ \A i \in 1 .. Len(left) : Append(left, t)[i] = left[i]
      /\ Append(left, t)[Len(left) + 1] = t
  BY <1>1, <1>4, AppendProperties
<1>6. /\ Append(rec, t) \in Seq(0 .. MaxTime) /\ Len(Append(rec, t)) = Len(rec) + 1
      /\ DOMAIN Append(rec, t) = 1 .. (Len(rec) + 1)
      /\ \A i \in 1 .. Len(rec) : Append(rec, t)[i] = rec[i]
      /\ Append(rec, t)[Len(rec) + 1] = t
  BY <1>2, <1>4, AppendProperties, LenProperties
<1>7. Dropped(a)' = dropped
  BY <1>1, <1>2, <1>5, <1>6 DEF Dropped
<1>8. \A i \in 1 .. Len(rec) : rec[i] <= t
  BY <1>2 DEF LoginInv, DequeIsTail, IsTail
<1>9. IsTail(a)'
  <2> DEFINE F == Append(left, t)
             R == Append(rec, t)
             n == Len(left)
             m == Len(rec)
  <2>1. /\ failures'[a] = F /\ recorded'[a] = R /\ now' = t /\ t \in Nat
        /\ n \in Nat /\ m \in Nat /\ dropped \in Nat /\ dropped = m - n
        /\ Len(F) = n + 1 /\ Len(R) = m + 1
    BY <1>1, <1>2, <1>5, <1>6
  <2>2. /\ F[n + 1] = t /\ R[m + 1] = t
        /\ \A i \in 1 .. n : F[i] = R[dropped + i]
    <3>1. \A i \in 1 .. n : F[i] = left[i] /\ left[i] = rec[dropped + i]
      BY <1>1, <1>5
    <3>2. \A i \in 1 .. m : R[i] = rec[i]
      BY <1>6
    <3>3. F[n + 1] = t /\ R[m + 1] = t
      BY <1>5, <1>6
    <3> HIDE DEF left, rec, dropped, t, F, R, n, m
    <3>4. \A i \in 1 .. n : dropped + i \in 1 .. m
      BY <2>1
    <3> QED
      BY <3>1, <3>2, <3>3, <3>4
  <2>3. /\ \A i \in 1 .. dropped : t - R[i] > Window
        /\ \A i \in 1 .. (m + 1) : R[i] <= t
    <3>1. \A i \in 1 .. m : R[i] = rec[i] /\ rec[i] <= t
      BY <1>6, <1>8
    <3>2. \A i \in 1 .. dropped : t - rec[i] > Window
      BY <1>1
    <3>3. R[m + 1] = t
      BY <1>6
    <3> HIDE DEF left, rec, dropped, t, F, R, n, m
    <3>4. \A i \in 1 .. dropped : i \in 1 .. m
      BY <2>1
    <3> QED
      BY <2>1, <3>1, <3>2, <3>3, <3>4
  <2> HIDE DEF left, rec, dropped, t, F, R, n, m
  <2>4. \A i \in 1 .. (n + 1) : F[i] = R[dropped + i]
    <3>1. dropped + (n + 1) = m + 1 /\ n \in Nat
      BY <2>1
    <3>2. \A i \in 1 .. (n + 1) : i \in 1 .. n \/ i = n + 1
      BY <3>1
    <3>3. F[n + 1] = t /\ R[m + 1] = t /\ \A i \in 1 .. n : F[i] = R[dropped + i]
      BY <2>2
    <3>4. F[n + 1] = R[dropped + (n + 1)]
      BY <3>1, <3>3
    <3> QED
      BY <3>2, <3>3, <3>4
  <2>5. \A i \in 1 .. Len(F) : F[i] = R[dropped + i]
    BY <2>1, <2>4
  <2>6. \A i \in 1 .. dropped : t - R[i] > Window
    BY <2>3
  <2>7. dropped >= 0 /\ \A i \in 1 .. Len(R) : R[i] <= t
    BY <2>1, <2>3
  <2> QED
    BY <1>7, <2>1, <2>5, <2>6, <2>7, Zenon DEF IsTail
<1>10. ASSUME NEW i \in 1 .. (Len(rec) + 1), NEW j \in 1 .. (Len(rec) + 1), j = i + MaxFailures
       PROVE  Append(rec, t)[j] - Append(rec, t)[i] > Window
  <2>1. i \in 1 .. Len(rec)
    BY <1>2, <1>10, LoginAssumption
  <2>2. CASE j \in 1 .. Len(rec)
    <3>1. i \in DOMAIN rec /\ j \in DOMAIN rec
      BY <1>2, <2>1, <2>2, LenProperties
    <3> QED
      BY <1>6, <1>10, <2>1, <2>2, <3>1 DEF LoginInv, AtMostInWindow
  <2>3. CASE j = Len(rec) + 1
    <3>1. i \in 1 .. dropped
      BY <1>1, <1>2, <1>3, <1>10, <2>1, <2>3, LoginAssumption
    <3> QED
      BY <1>1, <1>6, <2>1, <2>3, <3>1
  <2> QED
    BY <1>2, <2>2, <2>3
<1>11. Len(failures'[a]) <= MaxFailures
  BY <1>1, <1>3, <1>5, LoginAssumption
<1> QED
  BY <1>5, <1>6, <1>9, <1>10, <1>11

\* A refusal tells a moment after the oldest failure of the window has left it.
LEMMA RefusalOutlasts ==
    ASSUME LoginInv, NEW a \in Addresses, NEW t \in Nat, now <= t, t <= MaxTime
    PROVE  LET left == Prune(failures[a], t)
               end == t + RetryAfter(Rest(left, t))
           IN  /\ Len(left) <= MaxFailures /\ end \in Nat
               /\ Len(left) = MaxFailures => end > left[1] + Window
<1> DEFINE left == Prune(failures[a], t)
           end == t + RetryAfter(Rest(left, t))
<1>1. /\ left \in Seq(0 .. MaxTime) /\ Len(left) \in Nat /\ Len(left) <= Len(failures[a])
  BY PrunedIsTail
<1>2. failures[a] \in Seq(Nat) /\ Len(failures[a]) \in Nat /\ Len(failures[a]) <= MaxFailures
  BY LoginTypes DEF LoginInv, DequeIsShort
<1>3. Len(left) <= MaxFailures
  BY <1>1, <1>2, LoginAssumption
<1>4. CASE Len(left) < MaxFailures
  <2>1. Rest(left, t) = 0
    BY <1>4 DEF Rest
  <2>2. end \in Nat
    BY <2>1, RetryAfterExceeds
  <2> QED
    BY <1>1, <1>3, <1>4, <2>2, LoginAssumption
<1>5. CASE Len(left) = MaxFailures
  <2>1. Len(left) > 0 /\ left[1] \in Nat
    BY <1>1, <1>5, LoginAssumption, ElementOfSeq
  <2>2. t - left[1] <= Window
    BY <1>2, <2>1, PruneLeaves
  <2>3. Rest(left, t) = Window - (t - left[1]) /\ Rest(left, t) \in Nat
    BY <1>1, <1>5, <2>1, <2>2, LoginAssumption DEF Rest
  <2>4. RetryAfter(Rest(left, t)) \in Nat /\ RetryAfter(Rest(left, t)) > Rest(left, t)
    BY <2>3, RetryAfterExceeds
  <2> QED
    BY <1>3, <2>1, <2>3, <2>4, LoginAssumption
<1> QED
  BY <1>1, <1>3, <1>4, <1>5, LoginAssumption

LEMMA RefuseStep ==
    ASSUME LoginInv, NEW a \in Addresses, Refuse(a)
    PROVE  LoginInv'
<1>1. PICK t \in Later :
          /\ failures' = [failures EXCEPT ![a] = Prune(@, t)]
          /\ told' = [told EXCEPT ![a] = t + RetryAfter(Rest(Prune(failures[a], t), t))]
          /\ now' = t
  BY DEF Refuse
<1>2. now \in 0 .. MaxTime /\ t \in Nat /\ now <= t /\ t \in 0 .. MaxTime
  BY <1>1, LoginAssumption DEF LoginInv, LoginTypeOK, Later
<1> DEFINE left == Prune(failures[a], t)
           end == t + RetryAfter(Rest(left, t))
<1>3. /\ left \in Seq(0 .. MaxTime) /\ Len(left) <= MaxFailures /\ end \in Nat
      /\ Len(left) = MaxFailures => end > left[1] + Window
  BY <1>2, PrunedIsTail, RefusalOutlasts
<1> HIDE DEF left, end
<1>4. /\ failures' = [failures EXCEPT ![a] = left] /\ told' = [told EXCEPT ![a] = end]
      /\ now' = t /\ recorded' = recorded /\ signedIn' = signedIn
  BY <1>1 DEF Refuse, left, end
<1>5. LoginTypeOK'
  BY <1>2, <1>3, <1>4 DEF LoginInv, LoginTypeOK
<1>6. failures'[a] = left /\ told'[a] = end
      /\ \A b \in Addresses : b # a => failures'[b] = failures[b] /\ told'[b] = told[b]
  BY <1>4 DEF LoginInv, LoginTypeOK
<1>7. ASSUME NEW b \in Addresses PROVE IsTail(b)'
  <2>1. CASE b = a
    BY <2>1, <1>2, <1>4, <1>6, TailAfterPrune DEF left
  <2>2. CASE b # a
    BY <2>2, <1>2, <1>4, <1>6, TimePasses
  <2> QED
    BY <2>1, <2>2
<1>8. DequeIsTail' /\ DequeIsShort' /\ ToldOutlasts'
  BY <1>3, <1>6, <1>7 DEF LoginInv, DequeIsTail, DequeIsShort, ToldOutlasts
<1>9. AtMostInWindow'
  BY <1>4 DEF LoginInv, AtMostInWindow
<1> QED
  BY <1>5, <1>8, <1>9 DEF LoginInv

LEMMA FailStep ==
    ASSUME LoginInv, NEW a \in Addresses, FailLogin(a)
    PROVE  LoginInv'
<1>1. PICK t \in Later :
          /\ failures' = [failures EXCEPT ![a] = Append(Prune(@, t), t)]
          /\ recorded' = [recorded EXCEPT ![a] = Append(@, t)]
          /\ now' = t
  BY DEF FailLogin
<1>2. now \in 0 .. MaxTime /\ t \in Nat /\ now <= t /\ t <= MaxTime
  BY <1>1, LoginAssumption DEF LoginInv, LoginTypeOK, Later
<1>3. /\ failures'[a] = Append(Prune(failures[a], now'), now')
      /\ recorded'[a] = Append(recorded[a], now')
      /\ told' = [told EXCEPT ![a] = Never] /\ told'[a] = Never /\ signedIn' = signedIn
      /\ HasRoom(a, now)
      /\ \A b \in Addresses : b # a => /\ failures'[b] = failures[b] /\ told'[b] = told[b]
                                       /\ recorded'[b] = recorded[b]
  BY <1>1 DEF LoginInv, LoginTypeOK, FailLogin
<1>4. /\ IsTail(a)' /\ Len(failures'[a]) <= MaxFailures
      /\ failures'[a] \in Seq(0 .. MaxTime) /\ recorded'[a] \in Seq(0 .. MaxTime)
      /\ \A i, j \in DOMAIN recorded'[a] :
             j = i + MaxFailures => recorded'[a][j] - recorded'[a][i] > Window
  BY <1>1, <1>2, <1>3, TailAfterFailure
<1>5. LoginTypeOK'
  <2>1. /\ failures' \in [Addresses -> Seq(0 .. MaxTime)]
        /\ recorded' \in [Addresses -> Seq(0 .. MaxTime)]
    BY <1>1, <1>3, <1>4 DEF LoginInv, LoginTypeOK
  <2> QED
    BY <1>1, <1>2, <1>3, <2>1 DEF LoginInv, LoginTypeOK
<1>6. ASSUME NEW b \in Addresses, b # a PROVE IsTail(b)'
  BY <1>1, <1>2, <1>3, <1>6, TimePasses
<1>7. DequeIsTail'
  BY <1>4, <1>6 DEF DequeIsTail
<1>8. DequeIsShort' /\ ToldOutlasts'
  BY <1>3, <1>4 DEF LoginInv, DequeIsShort, ToldOutlasts
<1>9. AtMostInWindow'
  BY <1>3, <1>4 DEF LoginInv, AtMostInWindow
<1> QED
  BY <1>5, <1>7, <1>8, <1>9 DEF LoginInv

LEMMA PassStep ==
    ASSUME LoginInv, NEW a \in Addresses, PassLogin(a) \/ CompareRaises(a)
    PROVE  LoginInv'
<1> DEFINE left == Prune(failures[a], now)
<1>1. now \in Nat
  BY LoginTypes DEF LoginInv
<1>2. left \in Seq(0 .. MaxTime) /\ Len(left) \in Nat /\ Len(left) < MaxFailures
  BY <1>1, PrunedIsTail DEF PassLogin, CompareRaises, HasRoom
<1> HIDE DEF left
<1>3. /\ failures' = [failures EXCEPT ![a] = left] /\ signedIn' \in {signedIn, signedIn \cup {a}}
      /\ UNCHANGED <<now, told, recorded>>
  BY DEF PassLogin, CompareRaises, left
<1>4. LoginTypeOK'
  BY <1>2, <1>3 DEF LoginInv, LoginTypeOK
<1>5. failures'[a] = left /\ \A b \in Addresses : b # a => failures'[b] = failures[b]
  BY <1>3 DEF LoginInv, LoginTypeOK
<1>6. IsTail(a)'
  BY <1>1, <1>3, <1>5, TailAfterPrune DEF left
<1>7. DequeIsTail'
  BY <1>1, <1>3, <1>5, <1>6, TimePasses DEF DequeIsTail
<1>8. DequeIsShort' /\ ToldOutlasts'
  BY <1>2, <1>3, <1>5, LoginAssumption DEF LoginInv, DequeIsShort, ToldOutlasts
<1>9. AtMostInWindow'
  BY <1>3 DEF LoginInv, AtMostInWindow
<1> QED
  BY <1>4, <1>7, <1>8, <1>9 DEF LoginInv

LEMMA LoginRestartStep ==
    ASSUME LoginInv, LoginRestart
    PROVE  LoginInv'
<1>1. /\ \A a \in Addresses : failures'[a] = <<>> /\ recorded'[a] = <<>>
      /\ UNCHANGED <<now, told>> /\ Len(<<>>) = 0 /\ DOMAIN <<>> = {}
  BY DEF LoginRestart
<1>2. LoginTypeOK'
  BY DEF LoginInv, LoginTypeOK, LoginRestart
<1>3. ASSUME NEW a \in Addresses PROVE IsTail(a)'
  <2>1. Len(failures'[a]) = 0 /\ Len(recorded'[a]) = 0
    BY <1>1
  <2>2. Dropped(a)' = 0
    BY <2>1 DEF Dropped
  <2> QED
    BY <2>1, <2>2 DEF IsTail
<1>4. DequeIsTail' /\ DequeIsShort' /\ ToldOutlasts' /\ AtMostInWindow'
  BY <1>1, <1>3, LoginAssumption DEF DequeIsTail, DequeIsShort, ToldOutlasts, AtMostInWindow
<1> QED
  BY <1>2, <1>4 DEF LoginInv

LEMMA LoginInvStep ==
    ASSUME LoginInv, [LoginNext]_loginVars
    PROVE  LoginInv'
<1>1. CASE Tick
  <2>1. /\ now \in Nat /\ now' \in 0 .. MaxTime /\ now <= now'
        /\ UNCHANGED <<failures, signedIn, told, recorded>>
    BY <1>1, LoginAssumption DEF Tick, LoginInv, LoginTypeOK
  <2>2. DequeIsTail'
    BY <2>1, TimePasses DEF DequeIsTail
  <2> QED
    BY <2>1, <2>2
    DEF LoginInv, LoginTypeOK, DequeIsShort, ToldOutlasts, AtMostInWindow
<1>2. ASSUME UNCHANGED <<now, failures, told, recorded>>, signedIn' \subseteq signedIn
      PROVE  LoginInv'
  BY <1>2 DEF LoginInv, LoginTypeOK, DequeIsTail, IsTail, Dropped, DequeIsShort, ToldOutlasts,
              AtMostInWindow
<1>3. ASSUME NEW a \in Addresses, Logout(a) PROVE LoginInv'
  BY <1>2, <1>3 DEF Logout
<1>4. CASE UNCHANGED loginVars
  BY <1>2, <1>4 DEF loginVars
<1> QED
  BY <1>1, <1>3, <1>4, RefuseStep, FailStep, PassStep, LoginRestartStep DEF LoginNext, Visit

\* Nobody is told to come back while a failure still counts against the address.
LEMMA WaitLemma == LoginInv => WaitIsEnough
<1> SUFFICES ASSUME LoginInv, NEW a \in Addresses, told[a] # Never, now >= told[a]
             PROVE  HasRoom(a, now)
  BY DEF WaitIsEnough
<1>1. /\ now \in Nat /\ failures[a] \in Seq(Nat) /\ Len(failures[a]) \in Nat /\ told[a] \in Nat
      /\ Len(failures[a]) <= MaxFailures
      /\ \A i \in 1 .. Len(failures[a]) : failures[a][i] \in Nat
  BY LoginTypes DEF LoginInv, DequeIsShort
<1>2. /\ Len(Prune(failures[a], now)) \in Nat
      /\ Len(Prune(failures[a], now)) <= Len(failures[a])
      /\ Len(Prune(failures[a], now)) = MaxFailures => Prune(failures[a], now) = failures[a]
  BY <1>1, PrunedIsTail
<1>3. ASSUME Len(Prune(failures[a], now)) = MaxFailures
      PROVE  FALSE
  <2>1. Prune(failures[a], now) = failures[a] /\ Len(failures[a]) = MaxFailures
    BY <1>2, <1>3
  <2>2. now - failures[a][1] <= Window
    BY <1>1, <2>1, PruneLeaves, LoginAssumption
  <2>3. told[a] > failures[a][1] + Window
    BY <2>1 DEF LoginInv, ToldOutlasts
  <2> QED
    BY <1>1, <2>1, <2>2, <2>3, LoginAssumption
<1> QED
  BY <1>1, <1>2, <1>3, LoginAssumption DEF HasRoom

\* Login alone: LoginRateLimiter keeps its promises for every window and every number of
\* failures, whatever passes between its two readings of the clock.
THEOREM LoginIsThrottled == LoginSpec => []LoginThrottled
<1>1. LoginInv => LoginThrottled
  BY WaitLemma DEF LoginInv, LoginThrottled
<1> QED
  BY <1>1, LoginInvInit, LoginInvStep, PTL DEF LoginSpec

-----------------------------------------------------------------------------
(***************************************************************************)
(* The dashboard refines the login: its other steps leave it alone.        *)
(***************************************************************************)
LEMMA DashboardInitIsLogin == DashboardInit => LoginInit
BY DEF DashboardInit

LEMMA DashboardStepIsLogin ==
    ASSUME crowd \in Crowds, [DashboardNext]_dashboardVars
    PROVE  [LoginNext]_loginVars /\ crowd' = crowd
<1>1. crowd.knocking \subseteq Addresses
  BY DashboardAssumption
<1>2. CASE (\E a \in crowd.knocking : Visit(a) \/ Tick) /\ UNCHANGED <<crowd, pageVars, writerVars>>
  BY <1>1, <1>2 DEF LoginNext
<1>3. CASE Restart
  BY <1>3 DEF Restart, LoginNext
<1>4. CASE /\ UNCHANGED loginVars /\ UNCHANGED crowd
  BY <1>4
<1> QED
  BY <1>2, <1>3, <1>4 DEF DashboardNext, dashboardVars

-----------------------------------------------------------------------------
(***************************************************************************)
(* The inductive invariant of the writers and of the pages.                *)
(***************************************************************************)
\* A writer that has yet to publish has committed its row, and one at rest has no prompt.
WriterInv ==
    /\ Len(log) <= MaxRows
    /\ \A w \in Writers :
           /\ pc[w] = "publish" => mine[w] \in 1 .. Len(log)
           /\ pc[w] = "idle" => text[w] = NoPrompt
           /\ pc[w] = "saved" => text[w] # NoPrompt

\* From a clear post on, either nobody saves and the log tells of the stored prompt, or one
\* writer saves and is about to tell of it.
ToldOrSaving ==
    ~ blurred => \/ Saving = {} /\ LastTold = prompt
                 \/ \E w \in Writers : Saving = {w} /\ text[w] = prompt

\* What a page that has its rows, or will swap them in, holds between the two requests.
Held(t) == snap[t] \cup shown[t] \cup Ids(queue[t]) \cup Unpublished

PageInv ==
    \A t \in Tabs :
        /\ Len(queue[t]) <= QueueSize
        /\ page[t] = "loaded" => snap[t] \subseteq shown[t]
        /\ page[t] \in {"selected", "loaded"} /\ gaps[t] = {} => Oldest(t) .. Len(log) \subseteq Held(t)

DashboardInv ==
    LoginInv /\ DashboardTypeOK /\ WriterInv /\ ToldOrSaving /\ PageInv

LEMMA DashboardInvInit == DashboardInit => DashboardInv
<1> SUFFICES ASSUME DashboardInit PROVE DashboardInv
  OBVIOUS
<1>1. LoginInv
  BY DashboardInitIsLogin, LoginInvInit
<1>2. log = <<>> /\ Len(log) = 0 /\ DOMAIN log = {}
  BY DEF DashboardInit
<1>3. DashboardTypeOK
  <2>1. log \in Seq(Prompts \cup {NoPrompt}) /\ queue \in [Tabs -> Seq(1 .. MaxRows)]
    BY DEF DashboardInit
  <2>2. mine \in [Writers -> 0 .. MaxRows]
    BY DashboardAssumption DEF DashboardInit
  <2>3. /\ page \in [Tabs -> {"closed", "asked", "selected", "loaded", "refused"}]
        /\ stream \in [Tabs -> {"off", "wanted", "on"}]
        /\ pc \in [Writers -> {"idle", "saved", "publish"}]
    BY DEF DashboardInit
  <2>4. /\ snap \in [Tabs -> SUBSET (1 .. MaxRows)] /\ shown \in [Tabs -> SUBSET (1 .. MaxRows)]
        /\ gaps \in [Tabs -> SUBSET Causes]
        /\ text \in [Writers -> Prompts \cup {NoPrompt}] /\ prompt \in Prompts \cup {NoPrompt}
        /\ blurred \in BOOLEAN /\ crowd \in Crowds
    BY DEF DashboardInit
  <2> QED
    BY <1>1, <2>1, <2>2, <2>3, <2>4 DEF DashboardTypeOK, LoginInv
<1>4. WriterInv /\ PageInv
  <2>1. \A t \in Tabs : Len(queue[t]) <= QueueSize
    <3>1. Len(<<>>) = 0 /\ \A t \in Tabs : queue[t] = <<>>
      BY DEF DashboardInit
    <3> QED
      BY <3>1, DashboardAssumption
  <2> QED
    BY <1>2, <2>1, DashboardAssumption DEF DashboardInit, WriterInv, PageInv
<1>5. ToldOrSaving
  <2>1. Saving = {} /\ LastTold = NoPrompt
    BY <1>2 DEF DashboardInit, Saving, LastTold
  <2> QED
    BY <2>1 DEF DashboardInit, ToldOrSaving
<1> QED
  BY <1>1, <1>3, <1>4, <1>5 DEF DashboardInv

LEMMA DashboardTypes ==
    ASSUME DashboardTypeOK
    PROVE  /\ log \in Seq(Prompts \cup {NoPrompt}) /\ Len(log) \in Nat /\ DOMAIN log = 1 .. Len(log)
           /\ \A t \in Tabs : /\ queue[t] \in Seq(1 .. MaxRows) /\ Len(queue[t]) \in Nat
                              /\ DOMAIN queue[t] = 1 .. Len(queue[t])
                              /\ snap[t] \subseteq 1 .. MaxRows /\ shown[t] \subseteq 1 .. MaxRows
           /\ \A w \in Writers : /\ text[w] \in Prompts \cup {NoPrompt} /\ mine[w] \in 0 .. MaxRows
                                 /\ pc[w] \in {"idle", "saved", "publish"}
BY LenProperties DEF DashboardTypeOK

-----------------------------------------------------------------------------
(***************************************************************************)
(* The writers.                                                            *)
(***************************************************************************)
\* A row that tells of a prompt is the last one told; another row leaves it.
LEMMA LastToldAppended ==
    ASSUME log \in Seq(Prompts \cup {NoPrompt}), NEW p \in Prompts \cup {NoPrompt},
           log' = Append(log, p)
    PROVE  LastTold' = IF p = NoPrompt THEN LastTold ELSE p
<1> DEFINE rows == {i \in DOMAIN log : log[i] # NoPrompt}
           IsLast(i) == \A j \in rows : j <= i
<1>1. /\ Len(log) \in Nat /\ DOMAIN log = 1 .. Len(log)
      /\ Len(log') = Len(log) + 1 /\ DOMAIN log' = 1 .. (Len(log) + 1)
      /\ \A i \in 1 .. Len(log) : log'[i] = log[i]
      /\ log'[Len(log) + 1] = p
  BY AppendProperties, LenProperties
<1>2. rows' = IF p = NoPrompt THEN rows ELSE rows \cup {Len(log) + 1}
  BY <1>1
<1>3. CASE p = NoPrompt
  <2>1. rows' = rows
    BY <1>2, <1>3
  <2>2. CASE rows = {}
    BY <1>3, <2>1, <2>2 DEF LastTold
  <2>3. CASE rows # {}
    <3>1. \E i \in rows : IsLast(i)
      <4>1. rows \in SUBSET (0 .. Len(log))
        BY <1>1
      <4> QED
        BY <1>1, <2>3, <4>1, GreatestNumber
    <3> DEFINE last == CHOOSE i \in rows : IsLast(i)
    <3>2. last \in rows
      BY <3>1
    <3>3. LastTold = log[last]
      BY <2>3 DEF LastTold
    <3>4. LastTold' = log'[last]
      BY <2>1, <2>3 DEF LastTold
    <3>5. log'[last] = log[last]
      BY <1>1, <3>2
    <3> QED
      BY <1>3, <3>3, <3>4, <3>5
  <2> QED
    BY <2>2, <2>3
<1>4. CASE p # NoPrompt
  <2> DEFINE new == Len(log) + 1
  <2>1. rows' = rows \cup {new} /\ new \in Nat /\ \A i \in rows : i \in Nat /\ i < new
    BY <1>1, <1>2, <1>4
  <2> HIDE DEF new
  <2>2. \A i \in rows' : (\A j \in rows' : j <= i) <=> i = new
    BY <2>1
  <2>3. (CHOOSE i \in rows' : \A j \in rows' : j <= i) = new
    BY <2>1, <2>2
  <2>4. LastTold' = log'[CHOOSE i \in rows' : \A j \in rows' : j <= i]
    BY <2>1 DEF LastTold
  <2> QED
    BY <1>1, <1>4, <2>3, <2>4 DEF new
<1> QED
  BY <1>3, <1>4

LEMMA PostStep ==
    ASSUME DashboardTypeOK, WriterInv, ToldOrSaving, NEW w \in Writers, NEW p \in Prompts,
           PostSettings(w, p)
    PROVE  WriterInv' /\ ToldOrSaving'
<1>1. /\ pc' = [pc EXCEPT ![w] = "saved"] /\ text' = [text EXCEPT ![w] = p] /\ prompt' = p
      /\ log' = log /\ mine' = mine /\ blurred' = (Saving # {}) /\ pc[w] = "idle"
  BY DEF PostSettings, Upserted
<1>2. /\ pc'[w] = "saved" /\ text'[w] = p /\ p # NoPrompt
      /\ \A v \in Writers : v # w => pc'[v] = pc[v] /\ text'[v] = text[v]
  BY <1>1, DashboardAssumption DEF DashboardTypeOK
<1>3. WriterInv'
  BY <1>1, <1>2 DEF WriterInv
<1>4. Saving' = Saving \cup {w}
  BY <1>2 DEF Saving
<1>5. ToldOrSaving'
  BY <1>1, <1>2, <1>4 DEF ToldOrSaving
<1> QED
  BY <1>3, <1>5

\* A row is committed by a writer that saved a prompt, and tells of it, or by one that
\* decided, and tells of none.
LEMMA CommitStep ==
    ASSUME DashboardTypeOK, WriterInv, ToldOrSaving, NEW w \in Writers,
           TellSettings(w) \/ Decide(w)
    PROVE  /\ WriterInv' /\ ToldOrSaving'
           /\ log' \in Seq(Prompts \cup {NoPrompt}) /\ mine' \in [Writers -> 0 .. MaxRows]
           /\ Len(log') = Len(log) + 1
           /\ Unpublished' = Unpublished \cup {Len(log) + 1}
<1>1. /\ Len(log) < MaxRows /\ log' = Append(log, text[w])
      /\ mine' = [mine EXCEPT ![w] = Len(log) + 1] /\ pc' = [pc EXCEPT ![w] = "publish"]
      /\ UNCHANGED <<prompt, text, blurred>>
      /\ pc[w] = "saved" \/ pc[w] = "idle"
  BY DEF TellSettings, Decide, Commit
<1>2. /\ log \in Seq(Prompts \cup {NoPrompt}) /\ Len(log) \in Nat
      /\ text[w] \in Prompts \cup {NoPrompt} /\ MaxRows \in Nat
  BY DashboardTypes, DashboardAssumption
<1>3. log' \in Seq(Prompts \cup {NoPrompt}) /\ Len(log') = Len(log) + 1
  BY <1>1, <1>2, AppendProperties
<1>4. /\ pc'[w] = "publish" /\ mine'[w] = Len(log) + 1
      /\ \A v \in Writers : v # w => pc'[v] = pc[v] /\ mine'[v] = mine[v]
      /\ mine' \in [Writers -> 0 .. MaxRows]
  BY <1>1, <1>2 DEF DashboardTypeOK
<1>5. WriterInv'
  BY <1>1, <1>2, <1>3, <1>4 DEF WriterInv
<1>6. Unpublished' = Unpublished \cup {Len(log) + 1}
  <2>1. {v \in Writers : pc'[v] = "publish"} = {v \in Writers : pc[v] = "publish"} \cup {w}
    BY <1>4
  <2>2. w \notin {v \in Writers : pc[v] = "publish"}
    BY <1>1
  <2> QED
    BY <1>4, <2>1, <2>2 DEF Unpublished
<1>7. LastTold' = IF text[w] = NoPrompt THEN LastTold ELSE text[w]
  BY <1>1, <1>2, LastToldAppended
<1>8. Saving' = Saving \ {w}
  BY <1>4 DEF Saving
<1>9. ToldOrSaving'
  <2>1. CASE pc[w] = "saved"
    <3>1. w \in Saving /\ text[w] # NoPrompt
      BY <2>1 DEF Saving, WriterInv
    <3> QED
      BY <1>1, <1>7, <1>8, <3>1 DEF ToldOrSaving
  <2>2. CASE pc[w] = "idle"
    <3>1. w \notin Saving /\ text[w] = NoPrompt
      BY <2>2 DEF Saving, WriterInv
    <3> QED
      BY <1>1, <1>7, <1>8, <3>1 DEF ToldOrSaving
  <2> QED
    BY <1>1, <2>1, <2>2
<1> QED
  BY <1>3, <1>4, <1>5, <1>6, <1>9

LEMMA PublishStep ==
    ASSUME DashboardTypeOK, WriterInv, ToldOrSaving, NEW w \in Writers, Publish(w)
    PROVE  /\ WriterInv' /\ ToldOrSaving'
           /\ mine[w] \in 1 .. MaxRows /\ Unpublished \subseteq Unpublished' \cup {mine[w]}
<1>1. /\ pc[w] = "publish" /\ pc' = [pc EXCEPT ![w] = "idle"]
      /\ text' = [text EXCEPT ![w] = NoPrompt] /\ mine' = [mine EXCEPT ![w] = 0]
      /\ UNCHANGED <<log, prompt, blurred>>
  BY DEF Publish
<1>2. /\ pc'[w] = "idle" /\ text'[w] = NoPrompt
      /\ \A v \in Writers : v # w => pc'[v] = pc[v] /\ text'[v] = text[v] /\ mine'[v] = mine[v]
  BY <1>1 DEF DashboardTypeOK
<1>3. mine[w] \in 1 .. MaxRows
  BY <1>1, DashboardTypes, DashboardAssumption DEF WriterInv
<1>4. WriterInv'
  BY <1>1, <1>2 DEF WriterInv
<1>5. Saving' = Saving /\ w \notin Saving /\ \A v \in Saving : text'[v] = text[v]
  BY <1>1, <1>2 DEF Saving
<1>6. ToldOrSaving'
  <2>1. LastTold' = LastTold
    BY <1>1 DEF LastTold
  <2> QED
    BY <1>1, <1>5, <2>1 DEF ToldOrSaving
<1>7. Unpublished \subseteq Unpublished' \cup {mine[w]}
  BY <1>2 DEF Unpublished
<1> QED
  BY <1>3, <1>4, <1>6, <1>7

LEMMA TellFailsStep ==
    ASSUME DashboardTypeOK, WriterInv, NEW w \in Writers, TellFails(w)
    PROVE  WriterInv' /\ ToldOrSaving' /\ Unpublished' = Unpublished
<1>1. /\ pc[w] = "saved" /\ pc' = [pc EXCEPT ![w] = "idle"]
      /\ text' = [text EXCEPT ![w] = NoPrompt] /\ blurred' = TRUE
      /\ UNCHANGED <<log, mine>>
  BY DEF TellFails
<1>2. /\ pc'[w] = "idle" /\ text'[w] = NoPrompt
      /\ \A v \in Writers : v # w => pc'[v] = pc[v] /\ text'[v] = text[v]
  BY <1>1 DEF DashboardTypeOK
<1>3. WriterInv'
  BY <1>1, <1>2 DEF WriterInv
<1>4. ToldOrSaving'
  BY <1>1 DEF ToldOrSaving
<1>5. {v \in Writers : pc'[v] = "publish"} = {v \in Writers : pc[v] = "publish"}
  BY <1>1, <1>2
<1> QED
  BY <1>1, <1>3, <1>4, <1>5 DEF Unpublished

-----------------------------------------------------------------------------
(***************************************************************************)
(* The pages.                                                              *)
(***************************************************************************)
\* What the writers do to the pages: a commit adds an unpublished row, nothing else touches
\* what a page holds.
LEMMA PagesAside ==
    ASSUME PageInv, DashboardTypeOK, UNCHANGED pageVars,
           \/ log' = log /\ Unpublished' = Unpublished
           \/ Len(log') = Len(log) + 1 /\ Unpublished' = Unpublished \cup {Len(log) + 1}
    PROVE  PageInv'
<1>1. /\ UNCHANGED <<page, snap, shown, stream, queue, gaps>>
      /\ \A t \in Tabs : Oldest(t)' = Oldest(t) /\ Ids(queue[t])' = Ids(queue[t])
  BY DEF pageVars, Oldest, Ids
<1>2. Len(log) \in Nat
  BY DashboardTypes
<1>3. ASSUME NEW t \in Tabs, page[t] \in {"selected", "loaded"}, gaps[t] = {}
      PROVE  Oldest(t) .. Len(log') \subseteq Held(t)'
  <2>1. Oldest(t) .. Len(log) \subseteq Held(t)
    BY <1>3 DEF PageInv
  <2>2. Held(t)' = snap[t] \cup shown[t] \cup Ids(queue[t]) \cup Unpublished'
    BY <1>1 DEF Held
  <2>3. CASE log' = log /\ Unpublished' = Unpublished
    BY <2>1, <2>2, <2>3 DEF Held
  <2>4. CASE Len(log') = Len(log) + 1 /\ Unpublished' = Unpublished \cup {Len(log) + 1}
    <3>1. Oldest(t) .. Len(log') \subseteq (Oldest(t) .. Len(log)) \cup {Len(log) + 1}
      BY <1>2, <2>4
    <3> QED
      BY <2>1, <2>2, <2>4, <3>1 DEF Held
  <2> QED
    BY <2>3, <2>4
<1> QED
  BY <1>1, <1>3 DEF PageInv

\* What a queue holds.
LEMMA QueueIds ==
    ASSUME NEW q \in Seq(1 .. MaxRows)
    PROVE  /\ Ids(<<>>) = {}
           /\ Len(<<>>) = 0
           /\ q # <<>> => /\ Head(q) \in 1 .. MaxRows /\ Tail(q) \in Seq(1 .. MaxRows)
                          /\ Len(Tail(q)) = Len(q) - 1
                          /\ Ids(q) \subseteq {Head(q)} \cup Ids(Tail(q))
           /\ \A id \in 1 .. MaxRows : /\ Append(q, id) \in Seq(1 .. MaxRows)
                                       /\ Len(Append(q, id)) = Len(q) + 1
                                       /\ Ids(q) \cup {id} \subseteq Ids(Append(q, id))
<1>1. DOMAIN q = 1 .. Len(q) /\ Len(q) \in Nat /\ \A i \in 1 .. Len(q) : q[i] \in 1 .. MaxRows
  BY LenProperties, ElementOfSeq
<1>2. Ids(<<>>) = {} /\ Len(<<>>) = 0
  BY DEF Ids
<1>3. ASSUME q # <<>>
      PROVE  /\ Head(q) \in 1 .. MaxRows /\ Tail(q) \in Seq(1 .. MaxRows)
             /\ Len(Tail(q)) = Len(q) - 1
             /\ Ids(q) \subseteq {Head(q)} \cup Ids(Tail(q))
  <2>1. /\ Head(q) \in 1 .. MaxRows /\ Tail(q) \in Seq(1 .. MaxRows)
        /\ Len(Tail(q)) = Len(q) - 1
        /\ \A i \in 1 .. Len(Tail(q)) : Tail(q)[i] = q[i + 1]
    BY <1>3, HeadTailProperties
  <2>2. DOMAIN Tail(q) = 1 .. Len(Tail(q)) /\ Head(q) = q[1]
    BY <1>3, <2>1, LenProperties
  <2>3. ASSUME NEW i \in 1 .. Len(q) PROVE q[i] \in {Head(q)} \cup Ids(Tail(q))
    <3>1. CASE i = 1
      BY <2>2, <3>1
    <3>2. CASE i # 1
      <4>1. i - 1 \in 1 .. Len(Tail(q)) /\ (i - 1) + 1 = i
        BY <1>1, <2>1, <3>2
      <4> QED
        BY <2>1, <2>2, <4>1 DEF Ids
    <3> QED
      BY <3>1, <3>2
  <2> QED
    BY <1>1, <2>1, <2>3 DEF Ids
<1>4. ASSUME NEW id \in 1 .. MaxRows
      PROVE  /\ Append(q, id) \in Seq(1 .. MaxRows) /\ Len(Append(q, id)) = Len(q) + 1
             /\ Ids(q) \cup {id} \subseteq Ids(Append(q, id))
  <2>1. /\ Append(q, id) \in Seq(1 .. MaxRows) /\ Len(Append(q, id)) = Len(q) + 1
        /\ \A i \in 1 .. Len(q) : Append(q, id)[i] = q[i]
        /\ Append(q, id)[Len(q) + 1] = id
    BY AppendProperties
  <2>2. DOMAIN Append(q, id) = 1 .. (Len(q) + 1)
    BY <2>1, LenProperties
  <2>3. /\ \A i \in 1 .. Len(q) : i \in DOMAIN Append(q, id)
        /\ Len(q) + 1 \in DOMAIN Append(q, id)
    BY <1>1, <2>2
  <2> QED
    BY <1>1, <2>1, <2>3 DEF Ids
<1> QED
  BY <1>2, <1>3, <1>4

\* The oldest of the rows a request selects is one of them: none in between is left out.
LEMMA SelectedReachesNewest ==
    ASSUME log \in Seq(Prompts \cup {NoPrompt}), NEW t \in Tabs, snap'[t] = Selected
    PROVE  Oldest(t)' .. Len(log) \subseteq Selected
<1>1. Len(log) \in Nat /\ DOMAIN log = 1 .. Len(log) /\ HistoryLimit \in Nat \ {0}
  BY LenProperties, DashboardAssumption
<1>2. CASE Selected = {}
  <2>1. Len(log) = 0
    <3>1. Len(log) # 0 => Len(log) \in Selected
      BY <1>1 DEF Selected
    <3> QED
      BY <1>2, <3>1
  <2>2. Oldest(t)' = 1
    BY <1>2 DEF Oldest
  <2> QED
    BY <2>1, <2>2
<1>3. CASE Selected # {}
  <2>1. Selected \in SUBSET Nat
    BY <1>1 DEF Selected
  <2>2. \E id \in Selected : \A other \in Selected : id <= other
    BY <1>3, <2>1, LeastNumber
  <2>3. Oldest(t)' \in Selected
    BY <1>3, <2>2 DEF Oldest
  <2> QED
    BY <1>1, <2>3 DEF Selected
<1> QED
  BY <1>2, <1>3

LEMMA EmptyQueue == Len(<<>>) = 0 /\ 0 <= QueueSize
BY DashboardAssumption

\* A tab takes a step: the pages of the others stay as they are.
LEMMA TabStepKeeps ==
    ASSUME PageInv, DashboardTypeOK, NEW t \in Tabs, TabStep(t), UNCHANGED writerVars
    PROVE  PageInv'
<1>1. log' = log /\ Unpublished' = Unpublished /\ Len(log) \in Nat
  BY DashboardTypes DEF writerVars, Unpublished
<1> DEFINE Kept(u) == UNCHANGED <<page[u], snap[u], shown[u], queue[u], gaps[u]>>
           Holds(u) == /\ Len(queue[u]) <= QueueSize
                       /\ page[u] = "loaded" => snap[u] \subseteq shown[u]
                       /\ page[u] \in {"selected", "loaded"} /\ gaps[u] = {}
                              => Oldest(u) .. Len(log) \subseteq Held(u)
<1>2. ASSUME NEW u \in Tabs, Kept(u) PROVE Holds(u)'
  <2>1. Oldest(u)' = Oldest(u) /\ Held(u)' = Held(u)
    BY <1>1, <1>2 DEF Oldest, Held, Ids
  <2> QED
    BY <1>1, <1>2, <2>1 DEF PageInv
<1>3. \A u \in Tabs : u # t => Kept(u)
  BY DEF TabStep, Open, AuditRows, Swap, Subscribe, Receive, Disconnect, Unauthorized, Close,
         DashboardTypeOK
<1>4. Holds(t)'
  <2>1. CASE Open(t)
    BY <2>1 DEF Open, DashboardTypeOK, PageInv
  <2>2. CASE AuditRows(t)
    <3>1. page'[t] = "selected" /\ snap'[t] = Selected
      BY <2>2 DEF AuditRows, DashboardTypeOK
    <3>2. Oldest(t)' .. Len(log) \subseteq snap'[t]
      BY <3>1, SelectedReachesNewest DEF DashboardTypeOK
    <3>3. queue' = queue
      BY <2>2 DEF AuditRows
    <3> QED
      BY <1>1, <3>1, <3>2, <3>3 DEF Held, PageInv
  <2>3. CASE Swap(t)
    <3>1. /\ page[t] = "selected" /\ page'[t] = "loaded" /\ shown'[t] = snap[t] /\ snap' = snap
          /\ queue' = queue
          /\ gaps'[t] = gaps[t] \cup (IF shown[t] \subseteq snap[t] THEN {} ELSE {"wiped"})
      BY <2>3 DEF Swap, DashboardTypeOK
    <3>2. Oldest(t)' = Oldest(t)
      BY <3>1 DEF Oldest
    <3>3. gaps'[t] = {} => gaps[t] = {} /\ shown[t] \subseteq snap[t]
      BY <3>1
    <3>4. shown[t] \subseteq snap[t] => Held(t) \subseteq Held(t)'
      BY <1>1, <3>1 DEF Held, Ids
    <3> QED
      BY <1>1, <3>1, <3>2, <3>3, <3>4 DEF PageInv
  <2>4. CASE Subscribe(t)
    <3>1. Kept(t)
      BY <2>4 DEF Subscribe
    <3> QED
      BY <1>2, <3>1
  <2>5. CASE Receive(t)
    <3>1. /\ queue[t] # <<>> /\ shown'[t] = shown[t] \cup {Head(queue[t])}
          /\ queue'[t] = Tail(queue[t]) /\ UNCHANGED <<page, snap, gaps>>
      BY <2>5 DEF Receive, DashboardTypeOK
    <3>2. Oldest(t)' = Oldest(t)
      BY <3>1 DEF Oldest
    <3>3. /\ Ids(queue[t]) \subseteq {Head(queue[t])} \cup Ids(queue'[t])
          /\ Len(queue'[t]) = Len(queue[t]) - 1 /\ Len(queue[t]) \in Nat
      BY <3>1, DashboardTypes, QueueIds
    <3>5. Len(queue'[t]) <= QueueSize
      BY <3>3, DashboardAssumption DEF PageInv
    <3>4. Held(t) \subseteq Held(t)'
      BY <1>1, <3>1, <3>3 DEF Held, Ids
    <3> QED
      BY <1>1, <3>1, <3>2, <3>4, <3>5 DEF PageInv
  <2>6. CASE Disconnect(t)
    <3>1. /\ queue'[t] = <<>> /\ UNCHANGED <<page, snap, shown>>
          /\ gaps'[t] = gaps[t] \cup (IF queue[t] = <<>> THEN {} ELSE {"apart"})
      BY <2>6 DEF Disconnect, Unsubscribed, DashboardTypeOK
    <3>2. gaps'[t] = {} => gaps[t] = {} /\ queue'[t] = queue[t]
      BY <3>1
    <3>3. queue'[t] = queue[t] => Held(t)' = Held(t)
      BY <1>1, <3>1 DEF Held, Ids
    <3>4. Oldest(t)' = Oldest(t)
      BY <3>1 DEF Oldest
    <3>5. Len(queue'[t]) <= QueueSize
      BY <3>1, EmptyQueue
    <3> QED
      BY <1>1, <3>1, <3>2, <3>3, <3>4, <3>5 DEF PageInv
  <2>7. CASE Unauthorized(t)
    <3>1. queue' = queue /\ (page'[t] = "refused" \/ Kept(t))
      BY <2>7 DEF Unauthorized, DashboardTypeOK
    <3> QED
      BY <1>2, <3>1 DEF PageInv
  <2>8. CASE Close(t)
    <3>1. page'[t] = "closed" /\ queue'[t] = <<>>
      BY <2>8 DEF Close, DashboardTypeOK
    <3> QED
      BY <3>1, EmptyQueue
  <2> QED
    BY <2>1, <2>2, <2>3, <2>4, <2>5, <2>6, <2>7, <2>8 DEF TabStep
<1>5. ASSUME NEW u \in Tabs PROVE Holds(u)'
  BY <1>2, <1>3, <1>4
<1> QED
  BY <1>5 DEF PageInv

\* A published row goes to every page: into its queue, or it was selected, or the page
\* knows that it misses one.
LEMMA PublishReaches ==
    ASSUME PageInv, DashboardTypeOK, WriterInv, ToldOrSaving, NEW w \in Writers, Publish(w)
    PROVE  PageInv' /\ queue' \in [Tabs -> Seq(1 .. MaxRows)]
<1> DEFINE id == mine[w]
<1>1. id \in 1 .. MaxRows /\ Unpublished \subseteq Unpublished' \cup {id}
  BY PublishStep
<1>2. UNCHANGED <<log, page, snap, shown, stream>>
  BY DEF Publish
<1>3. ASSUME NEW t \in Tabs
      PROVE  /\ queue'[t] = IF stream[t] = "on" /\ Len(queue[t]) < QueueSize
                            THEN Append(queue[t], id) ELSE queue[t]
             /\ gaps'[t] = gaps[t] \cup MissedBy(t, id)
  BY DEF Publish
<1>4. ASSUME NEW t \in Tabs
      PROVE  /\ queue'[t] \in Seq(1 .. MaxRows) /\ Len(queue'[t]) <= QueueSize
             /\ Ids(queue[t]) \subseteq Ids(queue'[t])
             /\ stream[t] = "on" /\ Len(queue[t]) # QueueSize => id \in Ids(queue'[t])
  <2>1. queue[t] \in Seq(1 .. MaxRows) /\ Len(queue[t]) \in Nat /\ Len(queue[t]) <= QueueSize
    BY DashboardTypes DEF PageInv
  <2>2. /\ Append(queue[t], id) \in Seq(1 .. MaxRows)
        /\ Len(Append(queue[t], id)) = Len(queue[t]) + 1
        /\ Ids(queue[t]) \cup {id} \subseteq Ids(Append(queue[t], id))
    BY <1>1, <2>1, QueueIds
  <2>3. CASE stream[t] = "on" /\ Len(queue[t]) < QueueSize
    <3>1. queue'[t] = Append(queue[t], id)
      BY <1>3, <2>3
    <3>2. Len(queue[t]) + 1 <= QueueSize
      BY <2>1, <2>3, DashboardAssumption
    <3> HIDE DEF id
    <3> QED
      BY <2>2, <3>1, <3>2
  <2>4. CASE ~ (stream[t] = "on" /\ Len(queue[t]) < QueueSize)
    BY <1>3, <2>1, <2>4, DashboardAssumption
  <2> QED
    BY <2>3, <2>4
<1>5. queue' \in [Tabs -> Seq(1 .. MaxRows)]
  BY <1>4 DEF Publish
<1>6. ASSUME NEW t \in Tabs
      PROVE  /\ Oldest(t)' = Oldest(t)
             /\ Held(t)' = snap[t] \cup shown[t] \cup Ids(queue'[t]) \cup Unpublished'
  BY <1>2 DEF Oldest, Held, Ids
<1>7. ASSUME NEW t \in Tabs, page[t] \in {"selected", "loaded"}, gaps'[t] = {}
      PROVE  Oldest(t) .. Len(log) \subseteq Held(t)'
  <2>1. gaps[t] = {} /\ MissedBy(t, id) = {}
    BY <1>3, <1>7
  <2>2. Oldest(t) .. Len(log) \subseteq Held(t)
    BY <1>7, <2>1 DEF PageInv
  <2>3. id \in Held(t)'
    <3>1. CASE stream[t] = "on"
      BY <1>4, <1>6, <2>1, <3>1 DEF MissedBy
    <3>2. CASE stream[t] # "on"
      BY <1>6, <1>7, <2>1, <3>2 DEF MissedBy
    <3> QED
      BY <3>1, <3>2
  <2> QED
    BY <1>1, <1>4, <1>6, <2>2, <2>3 DEF Held
<1>8. PageInv'
  BY <1>2, <1>4, <1>6, <1>7 DEF PageInv
<1> QED
  BY <1>5, <1>8

LEMMA RestartStep ==
    ASSUME DashboardTypeOK, WriterInv, ToldOrSaving, PageInv, Restart
    PROVE  WriterInv' /\ ToldOrSaving' /\ PageInv' /\ DashboardTypeOK'
<1>1. /\ UNCHANGED <<crowd, log, prompt, snap, shown>>
      /\ \A w \in Writers : pc'[w] = "idle" /\ text'[w] = NoPrompt /\ mine'[w] = 0
      /\ blurred' = (blurred \/ Saving # {})
      /\ \A t \in Tabs :
             /\ page'[t] = IF page[t] \in {"asked", "selected"} THEN "refused" ELSE page[t]
             /\ queue'[t] = <<>>
             /\ gaps'[t] = gaps[t] \cup Unsubscribed(t) \cup
                               (IF Unpublished \subseteq snap[t] THEN {} ELSE {"apart"})
  BY DEF Restart
<1>2. WriterInv'
  BY <1>1 DEF WriterInv
<1>3. Saving' = {} /\ LastTold' = LastTold
  BY <1>1 DEF Saving, LastTold
<1>4. ToldOrSaving'
  BY <1>1, <1>3 DEF ToldOrSaving
<1>5. ASSUME NEW t \in Tabs
      PROVE  /\ Len(queue'[t]) <= QueueSize
             /\ page'[t] = "loaded" => snap[t] \subseteq shown[t]
             /\ page'[t] \in {"selected", "loaded"} /\ gaps'[t] = {}
                    => Oldest(t) .. Len(log) \subseteq Held(t)'
  <2>1. Len(queue'[t]) <= QueueSize
    BY <1>1, EmptyQueue
  <2>2. page'[t] = "loaded" => page[t] = "loaded"
    BY <1>1
  <2>3. page'[t] # "selected"
    BY <1>1
  <2>4. ASSUME page'[t] = "loaded", gaps'[t] = {}
        PROVE  Oldest(t) .. Len(log) \subseteq Held(t)'
    <3>1. gaps[t] = {} /\ queue[t] = <<>> /\ Unpublished \subseteq snap[t]
      BY <1>1, <2>4 DEF Unsubscribed
    <3>2. Oldest(t) .. Len(log) \subseteq Held(t)
      BY <2>2, <2>4, <3>1 DEF PageInv
    <3>3. Ids(queue[t]) = {}
      BY <3>1 DEF Ids
    <3> QED
      BY <1>1, <3>1, <3>2, <3>3 DEF Held
  <2> QED
    BY <2>1, <2>2, <2>3, <2>4 DEF PageInv
<1>6. \A t \in Tabs : Oldest(t)' = Oldest(t)
  BY <1>1 DEF Oldest
<1>7. PageInv'
  BY <1>1, <1>5, <1>6 DEF PageInv
<1>8. LoginTypeOK'
  BY DEF Restart, LoginRestart, DashboardTypeOK, LoginTypeOK
<1>9. /\ page' \in [Tabs -> {"closed", "asked", "selected", "loaded", "refused"}]
      /\ stream' \in [Tabs -> {"off", "wanted", "on"}] /\ queue' \in [Tabs -> Seq(1 .. MaxRows)]
      /\ gaps' \in [Tabs -> SUBSET Causes]
  BY DEF Restart, DashboardTypeOK, Unsubscribed, Causes
<1>10. /\ pc' \in [Writers -> {"idle", "saved", "publish"}]
       /\ text' \in [Writers -> Prompts \cup {NoPrompt}] /\ mine' \in [Writers -> 0 .. MaxRows]
       /\ blurred' \in BOOLEAN
  BY DashboardAssumption DEF Restart, DashboardTypeOK
<1>11. DashboardTypeOK'
  BY <1>1, <1>8, <1>9, <1>10 DEF DashboardTypeOK
<1> QED
  BY <1>2, <1>4, <1>7, <1>11

-----------------------------------------------------------------------------
(***************************************************************************)
(* Types, and the theorems.                                                *)
(***************************************************************************)
LEMMA TabTypes ==
    ASSUME DashboardTypeOK, WriterInv, NEW t \in Tabs, TabStep(t),
           UNCHANGED <<loginVars, crowd, writerVars>>
    PROVE  DashboardTypeOK'
<1>1. Selected \subseteq 1 .. MaxRows
  BY DashboardTypes, DashboardAssumption DEF Selected, WriterInv
<1>2. /\ queue[t] \in Seq(1 .. MaxRows) /\ <<>> \in Seq(1 .. MaxRows)
      /\ queue[t] # <<>> => Head(queue[t]) \in 1 .. MaxRows /\ Tail(queue[t]) \in Seq(1 .. MaxRows)
      /\ snap[t] \subseteq 1 .. MaxRows /\ shown[t] \subseteq 1 .. MaxRows
  <2>1. queue[t] \in Seq(1 .. MaxRows) /\ snap[t] \subseteq 1 .. MaxRows /\ shown[t] \subseteq 1 .. MaxRows
    BY DashboardTypes
  <2>2. queue[t] # <<>> => Head(queue[t]) \in 1 .. MaxRows /\ Tail(queue[t]) \in Seq(1 .. MaxRows)
    BY <2>1, QueueIds
  <2> QED
    BY <2>1, <2>2
<1>3. /\ page' \in [Tabs -> {"closed", "asked", "selected", "loaded", "refused"}]
      /\ stream' \in [Tabs -> {"off", "wanted", "on"}]
  BY DEF TabStep, Open, AuditRows, Swap, Subscribe, Receive, Disconnect, Unauthorized, Close,
         DashboardTypeOK
<1>4. queue' \in [Tabs -> Seq(1 .. MaxRows)]
  BY <1>2 DEF TabStep, Open, AuditRows, Swap, Subscribe, Receive, Disconnect, Unauthorized, Close,
         DashboardTypeOK
<1>5. snap' \in [Tabs -> SUBSET (1 .. MaxRows)]
  BY <1>1 DEF TabStep, Open, AuditRows, Swap, Subscribe, Receive, Disconnect, Unauthorized, Close,
         DashboardTypeOK
<1>6. shown' \in [Tabs -> SUBSET (1 .. MaxRows)]
  <2>1. CASE Receive(t)
    <3>1. shown[t] \cup {Head(queue[t])} \in SUBSET (1 .. MaxRows)
      BY <1>2, <2>1 DEF Receive
    <3> QED
      BY <2>1, <3>1 DEF Receive, DashboardTypeOK
  <2>2. CASE Swap(t)
    BY <1>2, <2>2 DEF Swap, DashboardTypeOK
  <2> QED
    BY <2>1, <2>2 DEF TabStep, Open, AuditRows, Subscribe, Disconnect, Unauthorized, Close,
                      DashboardTypeOK
<1>7. gaps' \in [Tabs -> SUBSET Causes]
  BY DEF TabStep, Open, AuditRows, Swap, Subscribe, Receive, Disconnect, Unauthorized, Close,
         DashboardTypeOK, Unsubscribed, Causes
<1>8. LoginTypeOK'
  BY DEF DashboardTypeOK, LoginTypeOK, loginVars
<1> QED
  BY <1>3, <1>4, <1>5, <1>6, <1>7, <1>8 DEF DashboardTypeOK, writerVars

LEMMA WriterTypes ==
    ASSUME DashboardInv, NEW w \in Writers, WriterStep(w), UNCHANGED <<loginVars, crowd>>
    PROVE  DashboardTypeOK'
<1> USE DEF DashboardInv
<1>1. LoginTypeOK'
  BY DEF DashboardTypeOK, LoginTypeOK, loginVars
<1>2. ASSUME NEW p \in Prompts, PostSettings(w, p) PROVE DashboardTypeOK'
  BY <1>1, <1>2 DEF PostSettings, Upserted, pageVars, DashboardTypeOK
<1>3. CASE TellFails(w)
  BY <1>1, <1>3 DEF TellFails, pageVars, DashboardTypeOK
<1>4. CASE TellSettings(w) \/ Decide(w)
  <2>1. /\ log' \in Seq(Prompts \cup {NoPrompt}) /\ mine' \in [Writers -> 0 .. MaxRows]
    BY <1>4, CommitStep
  <2>2. /\ pc' = [pc EXCEPT ![w] = "publish"] /\ UNCHANGED <<prompt, text, blurred, pageVars>>
    BY <1>4 DEF TellSettings, Decide, Commit
  <2> QED
    BY <1>1, <2>1, <2>2 DEF pageVars, DashboardTypeOK
<1>5. CASE Publish(w)
  <2>1. queue' \in [Tabs -> Seq(1 .. MaxRows)]
    BY <1>5, PublishReaches
  <2>2. gaps' \in [Tabs -> SUBSET Causes]
    BY <1>5 DEF Publish, MissedBy, Causes, DashboardTypeOK
  <2>3. /\ pc' \in [Writers -> {"idle", "saved", "publish"}]
        /\ text' \in [Writers -> Prompts \cup {NoPrompt}] /\ mine' \in [Writers -> 0 .. MaxRows]
    BY <1>5, DashboardAssumption DEF Publish, DashboardTypeOK
  <2> QED
    BY <1>1, <1>5, <2>1, <2>2, <2>3 DEF Publish, DashboardTypeOK
<1> QED
  BY <1>2, <1>3, <1>4, <1>5 DEF WriterStep

LEMMA DashboardInvStep ==
    ASSUME DashboardInv, [DashboardNext]_dashboardVars
    PROVE  DashboardInv'
<1> USE DEF DashboardInv
<1>1. LoginInv' /\ crowd' = crowd
  BY DashboardStepIsLogin, LoginInvStep DEF DashboardTypeOK
<1>2. ASSUME UNCHANGED <<crowd, pageVars, writerVars>>
      PROVE  DashboardInv'
  <2>1. DashboardTypeOK'
    BY <1>1, <1>2 DEF LoginInv, DashboardTypeOK, pageVars, writerVars
  <2>2. WriterInv' /\ ToldOrSaving'
    BY <1>2 DEF writerVars, WriterInv, ToldOrSaving, Saving, LastTold
  <2>3. PageInv'
    BY <1>2, PagesAside DEF pageVars, writerVars, Unpublished
  <2> QED
    BY <1>1, <2>1, <2>2, <2>3
<1>3. ASSUME NEW t \in crowd.tabs, TabStep(t), UNCHANGED <<loginVars, crowd, writerVars>>
      PROVE  DashboardInv'
  <2>1. t \in Tabs
    BY DashboardAssumption DEF DashboardTypeOK
  <2>2. DashboardTypeOK' /\ PageInv'
    BY <1>3, <2>1, TabTypes, TabStepKeeps
  <2>3. WriterInv' /\ ToldOrSaving'
    BY <1>3 DEF writerVars, WriterInv, ToldOrSaving, Saving, LastTold
  <2> QED
    BY <1>1, <2>2, <2>3
<1>4. ASSUME NEW w \in Writers, WriterStep(w), UNCHANGED <<loginVars, crowd>>
      PROVE  DashboardInv'
  <2>1. DashboardTypeOK'
    BY <1>4, WriterTypes
  <2>2. ASSUME NEW p \in Prompts, PostSettings(w, p)
        PROVE  WriterInv' /\ ToldOrSaving' /\ PageInv'
    <3>1. UNCHANGED <<log, mine, pageVars>>
          /\ {v \in Writers : pc'[v] = "publish"} = {v \in Writers : pc[v] = "publish"}
      BY <2>2 DEF PostSettings, DashboardTypeOK
    <3>2. Unpublished' = Unpublished
      BY <3>1 DEF Unpublished
    <3> QED
      BY <2>2, <3>1, <3>2, PostStep, PagesAside
  <2>3. ASSUME TellFails(w) PROVE WriterInv' /\ ToldOrSaving' /\ PageInv'
    BY <2>3, TellFailsStep, PagesAside DEF TellFails
  <2>4. ASSUME TellSettings(w) \/ Decide(w) PROVE WriterInv' /\ ToldOrSaving' /\ PageInv'
    <3>1. UNCHANGED pageVars
      BY <2>4 DEF TellSettings, Decide
    <3> QED
      BY <2>4, <3>1, CommitStep, PagesAside
  <2>5. ASSUME Publish(w) PROVE WriterInv' /\ ToldOrSaving' /\ PageInv'
    BY <2>5, PublishStep, PublishReaches
  <2> QED
    BY <1>1, <1>4, <2>1, <2>2, <2>3, <2>4, <2>5 DEF WriterStep
<1>5. CASE Restart
  BY <1>1, <1>5, RestartStep
<1>6. CASE UNCHANGED dashboardVars
  BY <1>2, <1>6 DEF dashboardVars
<1> QED
  BY <1>2, <1>3, <1>4, <1>5, <1>6 DEF DashboardNext

\* Every behaviour of the dashboard is one of the login: what is proved of it holds here.
THEOREM DashboardImplementsLogin == DashboardSpec => LoginSpec
<1>1. DashboardInv => crowd \in Crowds
  BY DEF DashboardInv, DashboardTypeOK
<1>2. DashboardInv /\ [DashboardNext]_dashboardVars => [LoginNext]_loginVars
  BY <1>1, DashboardStepIsLogin
<1> QED
  BY <1>2, DashboardInitIsLogin, DashboardInvInit, DashboardInvStep, PTL
  DEF DashboardSpec, LoginSpec

\* The variables keep their types.
THEOREM DashboardTypeCorrect == DashboardSpec => []DashboardTypeOK
<1>1. DashboardInv => DashboardTypeOK
  BY DEF DashboardInv
<1> QED
  BY <1>1, DashboardInvInit, DashboardInvStep, PTL DEF DashboardSpec

\* The limiter keeps its promises while tabs, writers and restarts go on around it.
THEOREM DashboardIsThrottled == DashboardSpec => []LoginThrottled
BY LoginIsThrottled, DashboardImplementsLogin

\* No order of commit, SELECT, publish, subscription, swap, restart and close costs a loaded
\* page a row without the page's knowing.
THEOREM NoRowLost == DashboardSpec => []PageAccounts
<1>1. DashboardInv => PageAccounts
  BY DEF DashboardInv, PageInv, PageAccounts, Held
<1> QED
  BY <1>1, DashboardInvInit, DashboardInvStep, PTL DEF DashboardSpec

\* The log's newest settings.updated row tells of the stored prompt, from a clear post on.
THEOREM PromptIsTold == DashboardSpec => []PromptTold
<1>1. DashboardInv => PromptTold
  BY DEF DashboardInv, ToldOrSaving, PromptTold
<1> QED
  BY <1>1, DashboardInvInit, DashboardInvStep, PTL DEF DashboardSpec

-----------------------------------------------------------------------------
(***************************************************************************)
(* Sequences put one behind the other.  FlattenSeq is a recursive function *)
(* inside its definition; what it amounts to is proved once here.          *)
(***************************************************************************)
\* What FlattenSeq unfolds to, position by position.
Runs(S, ss, m) == {g \in [1 .. m -> Seq(S)] :
    \A n \in 1 .. m : g[n] = IF n = 1 THEN ss[n] ELSE g[n - 1] \o ss[n]}

LEMMA RunsExist ==
    ASSUME NEW S, NEW ss \in Seq(Seq(S))
    PROVE  Runs(S, ss, Len(ss)) # {}
<1> DEFINE L == Len(ss)
           T == {m \in 0 .. L : Runs(S, ss, m) = {}}
<1>0. L \in Nat /\ \A n \in 1 .. L : ss[n] \in Seq(S)
  OBVIOUS
<1> HIDE DEF L
<1>1. Runs(S, ss, 0) # {}
  <2>1. [n \in 1 .. 0 |-> <<>>] \in Runs(S, ss, 0)
    BY DEF Runs
  <2> QED
    BY <2>1
<1>2. ASSUME NEW m \in 0 .. L, m < L, Runs(S, ss, m) # {}
      PROVE  Runs(S, ss, m + 1) # {}
  <2>1. PICK g \in Runs(S, ss, m) : TRUE
    BY <1>2
  <2> DEFINE h == [n \in 1 .. m + 1 |-> IF n <= m THEN g[n]
                                       ELSE IF n = 1 THEN ss[n] ELSE g[m] \o ss[n]]
  <2>2. m \in Nat /\ m + 1 \in 1 .. L /\ ss[m + 1] \in Seq(S)
    BY <1>0, <1>2
  <2>3. /\ g \in [1 .. m -> Seq(S)]
        /\ \A n \in 1 .. m : g[n] = IF n = 1 THEN ss[n] ELSE g[n - 1] \o ss[n]
    BY <2>1 DEF Runs
  <2>4. ASSUME NEW n \in 1 .. m + 1
        PROVE  h[n] \in Seq(S) /\ h[n] = IF n = 1 THEN ss[n] ELSE h[n - 1] \o ss[n]
    <3>1. CASE n <= m
      <4>1. n \in 1 .. m /\ h[n] = g[n]
        BY <2>2, <3>1
      <4>2. g[n] \in Seq(S) /\ g[n] = IF n = 1 THEN ss[n] ELSE g[n - 1] \o ss[n]
        BY <2>3, <4>1
      <4>3. n # 1 => n - 1 \in 1 .. m + 1 /\ n - 1 <= m
        BY <2>2, <3>1
      <4>4. n # 1 => h[n - 1] = g[n - 1]
        BY <4>3
      <4> HIDE DEF h
      <4>5. n # 1 => h[n] = h[n - 1] \o ss[n]
        BY <4>1, <4>2, <4>4
      <4>6. n = 1 => h[n] = ss[n]
        BY <4>1, <4>2
      <4>7. h[n] \in Seq(S)
        BY <4>1, <4>2, Zenon
      <4> QED
        BY <4>5, <4>6, <4>7, Zenon
    <3>2. CASE n = m + 1 /\ n = 1
      <4>1. h[n] = ss[n]
        BY <2>2, <3>2
      <4> QED
        BY <2>2, <3>2, <4>1
    <3>3. CASE n = m + 1 /\ n # 1
      <4>1. m \in 1 .. m /\ n - 1 = m /\ n - 1 \in 1 .. m + 1 /\ ~(n <= m) /\ m <= m
        BY <2>2, <3>3
      <4>2. h[n] = g[m] \o ss[n] /\ h[n - 1] = g[m]
        BY <3>3, <4>1
      <4>3. g[m] \in Seq(S) /\ ss[n] \in Seq(S)
        BY <2>2, <2>3, <3>3, <4>1
      <4>4. g[m] \o ss[n] \in Seq(S)
        BY <4>3
      <4> HIDE DEF h
      <4> QED
        BY <3>3, <4>2, <4>4, Zenon
    <3> QED
      BY <2>2, <3>1, <3>2, <3>3
  <2>5. h \in Runs(S, ss, m + 1)
    BY <2>4 DEF Runs
  <2> QED
    BY <2>5
<1>3. ASSUME T # {}
      PROVE  FALSE
  <2>1. T \in SUBSET Nat
    BY <1>0
  <2>2. PICK x \in T : \A y \in T : x <= y
    BY <1>3, <2>1, LeastNumber
  <2>3. x \in 0 .. L /\ x # 0 /\ Runs(S, ss, x) = {}
    BY <1>1, <2>2
  <2>4. x - 1 \in 0 .. L /\ x - 1 < L /\ x - 1 \notin T /\ (x - 1) + 1 = x
    BY <1>0, <2>2, <2>3
  <2>5. Runs(S, ss, x - 1) # {}
    BY <2>4
  <2> QED
    BY <1>2, <2>3, <2>4, <2>5
<1> QED
  BY <1>0, <1>3 DEF L

LEMMA FlattenIsARun ==
    ASSUME NEW S, NEW ss \in Seq(Seq(S)), Len(ss) # 0, NEW g \in Runs(S, ss, Len(ss))
    PROVE  FlattenSeq(ss) = g[Len(ss)]
<1> DEFINE L == Len(ss)
           Unfolds(h) == h = [n \in 1 .. L |-> IF n = 1 THEN ss[n] ELSE h[n - 1] \o ss[n]]
<1>0. L \in Nat /\ L \in 1 .. L
  OBVIOUS
<1>1. g \in [1 .. L -> Seq(S)] /\ \A n \in 1 .. L : g[n] = IF n = 1 THEN ss[n] ELSE g[n - 1] \o ss[n]
  BY DEF Runs
<1>2. Unfolds(g)
  BY <1>1
<1>3. PICK h : Unfolds(h) /\ FlattenSeq(ss) = h[L]
  BY <1>2 DEF FlattenSeq
<1> DEFINE T == {n \in 1 .. L : h[n] # g[n]}
<1> HIDE DEF L
<1>4. \A n \in 1 .. L : h[n] = IF n = 1 THEN ss[n] ELSE h[n - 1] \o ss[n]
  BY <1>3
<1>5. ASSUME T # {}
      PROVE  FALSE
  <2>1. T \in SUBSET Nat
    BY <1>0
  <2>2. PICK x \in T : \A y \in T : x <= y
    BY <1>5, <2>1, LeastNumber
  <2>3. x # 1 /\ x \in 1 .. L
    BY <1>0, <1>1, <1>4, <2>2
  <2>4. x - 1 \in 1 .. L /\ x - 1 \notin T
    BY <1>0, <2>2, <2>3
  <2>5. h[x - 1] = g[x - 1]
    BY <2>4
  <2>6. h[x] = h[x - 1] \o ss[x] /\ g[x] = g[x - 1] \o ss[x]
    BY <1>1, <1>4, <2>3
  <2> QED
    BY <2>2, <2>5, <2>6
<1> QED
  BY <1>0, <1>3, <1>5 DEF L

LEMMA FlattenNone == FlattenSeq(<<>>) = <<>>
  BY DEF FlattenSeq

LEMMA FlattenType ==
    ASSUME NEW S, NEW ss \in Seq(Seq(S))
    PROVE  FlattenSeq(ss) \in Seq(S)
<1>1. CASE Len(ss) = 0
  <2>1. ss = <<>> /\ <<>> \in Seq(S)
    BY <1>1, EmptySeq
  <2>2. FlattenSeq(ss) = <<>>
    BY <2>1, FlattenNone
  <2> QED
    BY <2>1, <2>2
<1>2. CASE Len(ss) # 0
  <2>1. PICK g \in Runs(S, ss, Len(ss)) : TRUE
    BY RunsExist
  <2>2. Len(ss) \in 1 .. Len(ss) /\ g \in [1 .. Len(ss) -> Seq(S)]
    BY <1>2 DEF Runs
  <2> QED
    BY <1>2, <2>2, FlattenIsARun
<1> QED
  BY <1>1, <1>2

\* One more part is put behind what the others amount to.
LEMMA FlattenMore ==
    ASSUME NEW S, NEW ss \in Seq(Seq(S)), NEW s \in Seq(S)
    PROVE  FlattenSeq(Append(ss, s)) = FlattenSeq(ss) \o s
<1> DEFINE L == Len(ss)
           more == Append(ss, s)
<1>1. /\ L \in Nat /\ more \in Seq(Seq(S)) /\ Len(more) = L + 1 /\ more[L + 1] = s
      /\ \A n \in 1 .. L : more[n] = ss[n]
  OBVIOUS
<1>2. PICK h \in Runs(S, more, L + 1) : TRUE
  BY <1>1, RunsExist
<1>3. /\ h \in [1 .. L + 1 -> Seq(S)]
      /\ \A n \in 1 .. L + 1 : h[n] = IF n = 1 THEN more[n] ELSE h[n - 1] \o more[n]
  BY <1>2 DEF Runs
<1>4. FlattenSeq(more) = h[L + 1]
  <2>1. Len(more) # 0 /\ h \in Runs(S, more, Len(more))
    BY <1>1, <1>2
  <2> QED
    BY <1>1, <2>1, FlattenIsARun
<1>5. CASE L = 0
  <2>1. ss = <<>> /\ h[L + 1] = s
    BY <1>1, <1>3, <1>5
  <2> QED
    BY <1>4, <2>1, FlattenNone
<1>6. CASE L # 0
  <2> DEFINE short == [n \in 1 .. L |-> h[n]]
  <2>1. short \in Runs(S, ss, L)
    <3>1. short \in [1 .. L -> Seq(S)]
      BY <1>1, <1>3
    <3>2. ASSUME NEW n \in 1 .. L
          PROVE  short[n] = IF n = 1 THEN ss[n] ELSE short[n - 1] \o ss[n]
      <4>1. n \in 1 .. L + 1 /\ (n # 1 => n - 1 \in 1 .. L)
        BY <1>1
      <4> QED
        BY <1>1, <1>3, <4>1
    <3> QED
      BY <3>1, <3>2 DEF Runs
  <2>2. FlattenSeq(ss) = short[L]
    BY <1>6, <2>1, FlattenIsARun
  <2>3. L \in 1 .. L /\ L + 1 \in 1 .. L + 1 /\ L + 1 # 1 /\ (L + 1) - 1 = L
    BY <1>1, <1>6
  <2>4. h[L + 1] = h[L] \o s
    BY <1>1, <1>3, <2>3
  <2> QED
    BY <1>4, <2>2, <2>3, <2>4
<1> QED
  BY <1>5, <1>6

-----------------------------------------------------------------------------
\* Induction on sequences: a set that holds the empty one, and with one every longer one,
\* holds all.
LEMMA SequencesByAppend ==
    ASSUME NEW D, NEW X, <<>> \in X,
           \A s \in Seq(D), e \in D : s \in X => Append(s, e) \in X
    PROVE  Seq(D) \subseteq X
<1> DEFINE T == {Len(s) : s \in Seq(D) \ X}
<1>1. ASSUME T # {}
      PROVE  FALSE
  <2>1. T \in SUBSET Nat
    OBVIOUS
  <2>2. PICK n \in T : \A m \in T : n <= m
    BY <1>1, <2>1, LeastNumber
  <2>3. PICK s \in Seq(D) \ X : Len(s) = n
    BY <2>2
  <2>4. s # <<>>
    BY <2>3
  <2>5. PICK r \in Seq(D), e \in D : s = Append(r, e)
    BY <2>3, <2>4, SequenceEmptyOrAppend
  <2>6. Len(r) \in Nat /\ Len(s) = Len(r) + 1
    BY <2>5
  <2>7. r \in X
    BY <2>1, <2>2, <2>3, <2>6
  <2> QED
    BY <2>3, <2>5, <2>7
<1> QED
  BY <1>1

LEMMA AppendToConcat ==
    ASSUME NEW D, NEW s \in Seq(D), NEW t \in Seq(D), NEW e \in D
    PROVE  s \o Append(t, e) = Append(s \o t, e)
  OBVIOUS

LEMMA FlattenJoin ==
    ASSUME NEW S, NEW ss \in Seq(Seq(S)), NEW tt \in Seq(Seq(S))
    PROVE  FlattenSeq(ss \o tt) = FlattenSeq(ss) \o FlattenSeq(tt)
<1> DEFINE X == {t \in Seq(Seq(S)) : FlattenSeq(ss \o t) = FlattenSeq(ss) \o FlattenSeq(t)}
<1>1. <<>> \in X
  <2>1. FlattenSeq(ss) \in Seq(S)
    BY FlattenType
  <2>2. ss \o <<>> = ss /\ FlattenSeq(ss) \o <<>> = FlattenSeq(ss) /\ <<>> \in Seq(Seq(S))
    BY <2>1, ConcatEmptySeq, EmptySeq
  <2> QED
    BY <2>2, FlattenNone
<1>2. ASSUME NEW t \in Seq(Seq(S)), NEW e \in Seq(S), t \in X
      PROVE  Append(t, e) \in X
  <2>1. /\ ss \o Append(t, e) = Append(ss \o t, e)
        /\ ss \o t \in Seq(Seq(S)) /\ Append(t, e) \in Seq(Seq(S))
    BY AppendToConcat, ConcatProperties, AppendProperties
  <2>2. /\ FlattenSeq(Append(ss \o t, e)) = FlattenSeq(ss \o t) \o e
        /\ FlattenSeq(Append(t, e)) = FlattenSeq(t) \o e
    BY <2>1, FlattenMore
  <2>3. FlattenSeq(ss) \in Seq(S) /\ FlattenSeq(t) \in Seq(S)
    BY FlattenType
  <2>4. (FlattenSeq(ss) \o FlattenSeq(t)) \o e = FlattenSeq(ss) \o (FlattenSeq(t) \o e)
    <3>1. \A x, y, z \in Seq(S) : (x \o y) \o z = x \o (y \o z)
      BY ConcatAssociative
    <3> QED
      BY <2>3, <3>1, Zenon
  <2>5. FlattenSeq(ss \o t) = FlattenSeq(ss) \o FlattenSeq(t)
    BY <1>2
  <2> QED
    BY <2>1, <2>2, <2>4, <2>5
<1> HIDE DEF X
<1>3. Seq(Seq(S)) \subseteq X
  BY <1>1, <1>2, SequencesByAppend
<1> QED
  BY <1>3 DEF X

LEMMA FlattenOne ==
    ASSUME NEW S, NEW s \in Seq(S)
    PROVE  FlattenSeq(<<s>>) = s
<1>1. <<>> \in Seq(Seq(S)) /\ Append(<<>>, s) = <<s>>
  BY EmptySeq
<1>2. FlattenSeq(<<s>>) = <<>> \o s
  BY <1>1, FlattenMore, FlattenNone
<1> QED
  BY <1>2, ConcatEmptySeq

\* Parts of one element each amount to their elements.
LEMMA FlattenSingles ==
    ASSUME NEW S, NEW s \in Seq(S)
    PROVE  FlattenSeq([i \in DOMAIN s |-> <<s[i]>>]) = s
<1> DEFINE Of(t) == [i \in DOMAIN t |-> <<t[i]>>]
           X == {t \in Seq(S) : FlattenSeq(Of(t)) = t}
<1>1. <<>> \in X
  <2>1. Of(<<>>) = <<>> /\ <<>> \in Seq(S)
    BY EmptySeq
  <2> QED
    BY <2>1, FlattenNone
<1>2. ASSUME NEW t \in Seq(S), NEW e \in S, t \in X
      PROVE  Append(t, e) \in X
  <2>1. /\ Of(t) \in Seq(Seq(S)) /\ <<e>> \in Seq(S)
        /\ Append(t, e) \in Seq(S)
    <3>1. \A i \in 1 .. Len(t) : <<t[i]>> \in Seq(S)
      OBVIOUS
    <3>2. DOMAIN t = 1 .. Len(t) /\ Len(t) \in Nat
      OBVIOUS
    <3>3. Of(t) \in Seq(Seq(S))
      BY <3>1, <3>2
    <3> QED
      BY <3>3
  <2>2. Of(Append(t, e)) = Append(Of(t), <<e>>)
    OBVIOUS
  <2>3. FlattenSeq(Append(Of(t), <<e>>)) = FlattenSeq(Of(t)) \o <<e>>
    BY <2>1, FlattenMore
  <2>4. t \o <<e>> = Append(t, e)
    OBVIOUS
  <2> HIDE DEF Of
  <2> QED
    BY <1>2, <2>1, <2>2, <2>3, <2>4
<1> HIDE DEF X
<1>3. Seq(S) \subseteq X
  BY <1>1, <1>2, SequencesByAppend
<1> QED
  BY <1>3 DEF X

\* Parts that are all empty amount to nothing.
LEMMA FlattenNothing ==
    ASSUME NEW S, NEW ss \in Seq(Seq(S)), \A i \in 1 .. Len(ss) : ss[i] = <<>>
    PROVE  FlattenSeq(ss) = <<>>
<1> DEFINE Hollow(t) == \A i \in 1 .. Len(t) : t[i] = <<>>
           X == {t \in Seq(Seq(S)) : Hollow(t) => FlattenSeq(t) = <<>>}
<1>1. <<>> \in X
  BY FlattenNone, EmptySeq
<1>2. ASSUME NEW t \in Seq(Seq(S)), NEW e \in Seq(S), t \in X
      PROVE  Append(t, e) \in X
  <2>1. SUFFICES ASSUME Hollow(Append(t, e))
                 PROVE  FlattenSeq(Append(t, e)) = <<>>
    BY AppendProperties
  <2>2. /\ Len(t) \in Nat /\ Len(Append(t, e)) = Len(t) + 1 /\ Append(t, e)[Len(t) + 1] = e
        /\ \A i \in 1 .. Len(t) : Append(t, e)[i] = t[i]
    OBVIOUS
  <2>3. e = <<>> /\ Hollow(t)
    BY <2>1, <2>2
  <2>4. FlattenSeq(t) = <<>> /\ FlattenSeq(Append(t, e)) = FlattenSeq(t) \o e
    BY <1>2, <2>3, FlattenMore
  <2> QED
    BY <2>3, <2>4
<1> HIDE DEF X
<1>3. Seq(Seq(S)) \subseteq X
  BY <1>1, <1>2, SequencesByAppend
<1> QED
  BY <1>3 DEF X

-----------------------------------------------------------------------------
(***************************************************************************)
(* What a conversation is translated into.                                 *)
(***************************************************************************)
Texts == PostedTexts \cup {NoText, "prompt"} \cup {<<"said", n>> : n \in Nat}
Msg   == MessageOf(Texts)
Block == [kind : {"text"}, of : Texts] \cup [kind : {"call", "result"}, id : Id, of : Use]
Row   == [role : {"assistant", "user", "tool"}, blocks : Seq(Block)]

LEMMA MessageIsTyped ==
    ASSUME NEW m \in Msg
    PROVE  /\ m.role \in {"system", "user", "assistant"} /\ m.text \in Texts
           /\ m.uses \in Seq(Use) /\ m.results \in Seq(Result)
  BY DEF Msg, MessageOf

LEMMA BlocksAreTyped ==
    ASSUME NEW m \in Msg
    PROVE  /\ TextBlocks(m.text) \in Seq(Block)
           /\ Each(CallBlock, m.uses) \in Seq(Block)
           /\ Each(ResultBlock, m.results) \in Seq(Block)
<1>1. /\ m.text \in Texts /\ m.uses \in Seq(Use) /\ m.results \in Seq(Result)
  BY MessageIsTyped
<1>2. TextBlocks(m.text) \in Seq(Block)
  <2>1. [kind |-> "text", of |-> m.text] \in Block
    BY <1>1 DEF Block
  <2> QED
    BY <2>1 DEF TextBlocks
<1>3. Each(CallBlock, m.uses) \in Seq(Block)
  <2>1. \A u \in Use : CallBlock(u) \in Block
    BY DEF CallBlock, Block, Use
  <2>2. \A i \in 1 .. Len(m.uses) : CallBlock(m.uses[i]) \in Block
    BY <1>1, <2>1
  <2> QED
    BY <1>1, <2>2 DEF Each
<1>4. Each(ResultBlock, m.results) \in Seq(Block)
  <2>1. \A r \in Result : ResultBlock(r) \in Block
    BY DEF ResultBlock, Block, Result
  <2>2. \A i \in 1 .. Len(m.results) : ResultBlock(m.results[i]) \in Block
    BY <1>1, <2>1
  <2> QED
    BY <1>1, <2>2 DEF Each
<1> QED
  BY <1>2, <1>3, <1>4

LEMMA RowIsTyped ==
    ASSUME NEW r \in {"assistant", "user", "tool"}, NEW bs \in Seq(Block)
    PROVE  Entry(r, bs) \in Row
  BY DEF Entry, Row

LEMMA ToolMessagesAreTyped ==
    ASSUME NEW m \in Msg
    PROVE  ToolMessages(m) \in Seq(Row)
<1>1. m.results \in Seq(Result)
  BY MessageIsTyped
<1>2. \A r \in Result : ResultBlock(r) \in Block
  BY DEF ResultBlock, Block, Result
<1>3. \A b \in Block : Entry("tool", <<b>>) \in Row
  <2>1. \A b \in Block : <<b>> \in Seq(Block)
    OBVIOUS
  <2> QED
    BY <2>1, RowIsTyped
<1>4. \A i \in 1 .. Len(m.results) : Entry("tool", <<ResultBlock(m.results[i])>>) \in Row
  <2>1. \A i \in 1 .. Len(m.results) : m.results[i] \in Result
    BY <1>1
  <2> QED
    BY <1>2, <1>3, <2>1
<1> QED
  <2> DEFINE rows == [i \in 1 .. Len(m.results) |-> Entry("tool", <<ResultBlock(m.results[i])>>)]
  <2>1. rows \in Seq(Row)
    BY <1>1, <1>4
  <2>2. DOMAIN m.results = 1 .. Len(m.results)
    BY <1>1
  <2>3. ToolMessages(m) = rows
    BY <2>2 DEF ToolMessages
  <2> QED
    BY <2>1, <2>3

\* A message becomes one entry, for an assistant's and for Anthropic; or one per result,
\* and one for the text if there is any or nothing else.
LEMMA EntriesOfCases ==
    ASSUME NEW p \in Providers, NEW m \in Msg
    PROVE  EntriesOf(p, m) =
             IF m.role = "system" THEN <<>>
             ELSE IF m.role = "assistant" THEN <<AssistantEntry(m)>>
             ELSE IF p = "anthropic"
             THEN <<Entry("user", TextBlocks(m.text) \o Each(ResultBlock, m.results))>>
             ELSE IF m.results # <<>> /\ m.text = NoText THEN ToolMessages(m)
             ELSE ToolMessages(m) \o <<Entry("user", TextBlocks(m.text))>>
<1>1. CASE m.role = "system"
  BY <1>1 DEF EntriesOf
<1>2. CASE m.role # "system" /\ m.role = "assistant"
  BY <1>2 DEF EntriesOf, Translated, MessageToAnthropic, MessageToOllama, MessageToOpenAI, Providers
<1>3. CASE m.role # "system" /\ m.role # "assistant" /\ p = "anthropic"
  BY <1>3 DEF EntriesOf, Translated, MessageToAnthropic
<1>4. CASE m.role # "system" /\ m.role # "assistant" /\ p # "anthropic"
  <2>1. EntriesOf(p, m) = MessageToOpenAI(m)
    BY <1>4 DEF EntriesOf, Translated, MessageToOllama, Providers
  <2> QED
    BY <1>4, <2>1 DEF MessageToOpenAI
<1> QED
  BY <1>1, <1>2, <1>3, <1>4

LEMMA EntriesOfType ==
    ASSUME NEW p \in Providers, NEW m \in Msg
    PROVE  EntriesOf(p, m) \in Seq(Row)
<1>1. \A e \in Row : <<e>> \in Seq(Row)
  OBVIOUS
<1>2. AssistantEntry(m) \in Row
  <2>1. TextBlocks(m.text) \o Each(CallBlock, m.uses) \in Seq(Block)
    BY BlocksAreTyped, ConcatProperties
  <2> QED
    BY <2>1, RowIsTyped DEF AssistantEntry
<1>3. Entry("user", TextBlocks(m.text) \o Each(ResultBlock, m.results)) \in Row
  <2>1. TextBlocks(m.text) \o Each(ResultBlock, m.results) \in Seq(Block)
    BY BlocksAreTyped, ConcatProperties
  <2> QED
    BY <2>1, RowIsTyped
<1>4. Entry("user", TextBlocks(m.text)) \in Row
  BY BlocksAreTyped, RowIsTyped
<1>5. ToolMessages(m) \in Seq(Row)
  BY ToolMessagesAreTyped
<1>6. ToolMessages(m) \o <<Entry("user", TextBlocks(m.text))>> \in Seq(Row)
  BY <1>1, <1>4, <1>5, ConcatProperties
<1>7. <<>> \in Seq(Row)
  BY EmptySeq
<1> QED
  BY <1>1, <1>2, <1>3, <1>5, <1>6, <1>7, EntriesOfCases, Zenon

LEMMA EntriesMore ==
    ASSUME NEW p \in Providers, NEW ms \in Seq(Msg)
    PROVE  /\ Entries(p, ms) \in Seq(Row)
           /\ \A m \in Msg : Entries(p, Append(ms, m)) = Entries(p, ms) \o EntriesOf(p, m)
<1> DEFINE Of(t) == [i \in DOMAIN t |-> EntriesOf(p, t[i])]
<1>1. ASSUME NEW t \in Seq(Msg)
      PROVE  Of(t) \in Seq(Seq(Row))
  <2>1. DOMAIN t = 1 .. Len(t) /\ Len(t) \in Nat /\ \A i \in 1 .. Len(t) : t[i] \in Msg
    OBVIOUS
  <2>2. \A i \in 1 .. Len(t) : EntriesOf(p, t[i]) \in Seq(Row)
    BY <2>1, EntriesOfType
  <2> QED
    BY <2>1, <2>2
<1>2. Entries(p, ms) = FlattenSeq(Of(ms))
  BY DEF Entries
<1>3. Entries(p, ms) \in Seq(Row)
  BY <1>1, <1>2, FlattenType
<1>4. ASSUME NEW m \in Msg
      PROVE  Entries(p, Append(ms, m)) = Entries(p, ms) \o EntriesOf(p, m)
  <2>1. Of(Append(ms, m)) = Append(Of(ms), EntriesOf(p, m))
    <3>1. /\ Len(ms) \in Nat /\ DOMAIN ms = 1 .. Len(ms)
          /\ DOMAIN Append(ms, m) = 1 .. Len(ms) + 1
          /\ Append(ms, m)[Len(ms) + 1] = m /\ \A i \in 1 .. Len(ms) : Append(ms, m)[i] = ms[i]
      OBVIOUS
    <3>2. Len(Of(ms)) = Len(ms)
      BY <3>1
    <3> QED
      BY <3>1, <3>2, <1>1
  <2>2. FlattenSeq(Append(Of(ms), EntriesOf(p, m))) = FlattenSeq(Of(ms)) \o EntriesOf(p, m)
    BY <1>1, EntriesOfType, FlattenMore
  <2>3. Entries(p, Append(ms, m)) = FlattenSeq(Of(Append(ms, m)))
    BY DEF Entries
  <2> QED
    BY <1>2, <2>1, <2>2, <2>3
<1> QED
  BY <1>3, <1>4

-----------------------------------------------------------------------------
(***************************************************************************)
(* The texts: what a message says stands in its entries, and nothing else. *)
(***************************************************************************)
TextsIn(bs) == FlattenSeq(Each(TextOf, bs))

LEMMA TextOfIsTexts ==
    ASSUME NEW b \in Block
    PROVE  TextOf(b) \in Seq(Texts)
<1>1. b.kind = "text" => b.of \in Texts
  BY DEF Block
<1>2. \A t \in Texts : <<t>> \in Seq(Texts)
  OBVIOUS
<1> QED
  BY <1>1, <1>2, EmptySeq DEF TextOf

LEMMA TextOfType ==
    ASSUME NEW bs \in Seq(Block)
    PROVE  Each(TextOf, bs) \in Seq(Seq(Texts))
<1>1. \A b \in Block : TextOf(b) \in Seq(Texts)
  BY TextOfIsTexts
<1>2. DOMAIN bs = 1 .. Len(bs) /\ Len(bs) \in Nat /\ \A i \in 1 .. Len(bs) : bs[i] \in Block
  OBVIOUS
<1>3. \A i \in 1 .. Len(bs) : TextOf(bs[i]) \in Seq(Texts)
  BY <1>1, <1>2
<1> QED
  BY <1>2, <1>3 DEF Each

LEMMA TextsInJoin ==
    ASSUME NEW bs \in Seq(Block), NEW cs \in Seq(Block)
    PROVE  TextsIn(bs \o cs) = TextsIn(bs) \o TextsIn(cs)
<1>1. Each(TextOf, bs) \in Seq(Seq(Texts)) /\ Each(TextOf, cs) \in Seq(Seq(Texts))
  BY TextOfType
<1>2. Each(TextOf, bs \o cs) = Each(TextOf, bs) \o Each(TextOf, cs)
  <2>1. /\ bs \o cs \in Seq(Block) /\ DOMAIN (bs \o cs) = 1 .. Len(bs) + Len(cs)
        /\ Len(bs) \in Nat /\ DOMAIN bs = 1 .. Len(bs) /\ Len(cs) \in Nat /\ DOMAIN cs = 1 .. Len(cs)
        /\ \A i \in 1 .. Len(bs) + Len(cs) :
              (bs \o cs)[i] = IF i <= Len(bs) THEN bs[i] ELSE cs[i - Len(bs)]
    OBVIOUS
  <2> QED
    BY <1>1, <2>1 DEF Each
<1> QED
  BY <1>1, <1>2, FlattenJoin DEF TextsIn

LEMMA NoTextsIn ==
    ASSUME NEW bs \in Seq(Block), \A i \in 1 .. Len(bs) : bs[i].kind # "text"
    PROVE  TextsIn(bs) = <<>>
<1>1. Each(TextOf, bs) \in Seq(Seq(Texts))
  BY TextOfType
<1>2. Len(Each(TextOf, bs)) = Len(bs) /\ \A i \in 1 .. Len(bs) : Each(TextOf, bs)[i] = <<>>
  BY DEF Each, TextOf
<1> QED
  BY <1>1, <1>2, FlattenNothing DEF TextsIn

LEMMA TextsInText ==
    ASSUME NEW t \in Texts
    PROVE  TextsIn(TextBlocks(t)) = IF t = NoText THEN <<>> ELSE <<t>>
<1>1. CASE t = NoText
  <2>1. TextBlocks(t) = <<>>
    BY <1>1 DEF TextBlocks
  <2>2. Each(TextOf, <<>>) = <<>>
    BY DEF Each
  <2> QED
    BY <1>1, <2>1, <2>2, FlattenNone DEF TextsIn
<1>2. CASE t # NoText
  <2>1. TextBlocks(t) = <<[kind |-> "text", of |-> t]>>
    BY <1>2 DEF TextBlocks
  <2>2. Each(TextOf, TextBlocks(t)) = << <<t>> >>
    BY <2>1 DEF Each, TextOf
  <2>3. FlattenSeq(<< <<t>> >>) = <<t>>
    <3>1. <<t>> \in Seq(Texts)
      OBVIOUS
    <3> QED
      BY <3>1, FlattenOne
  <2> QED
    BY <1>2, <2>2, <2>3 DEF TextsIn
<1> QED
  BY <1>1, <1>2

\* A text in front of blocks without one.
LEMMA TextsInFront ==
    ASSUME NEW t \in Texts, NEW bs \in Seq(Block), \A i \in 1 .. Len(bs) : bs[i].kind # "text"
    PROVE  TextsIn(TextBlocks(t) \o bs) = IF t = NoText THEN <<>> ELSE <<t>>
<1>1. TextBlocks(t) \in Seq(Block)
  <2>1. [kind |-> "text", of |-> t] \in Block
    BY DEF Block
  <2> QED
    BY <2>1 DEF TextBlocks
<1>2. TextsIn(TextBlocks(t) \o bs) = TextsIn(TextBlocks(t)) \o <<>>
  BY <1>1, TextsInJoin, NoTextsIn
<1>3. TextsIn(TextBlocks(t)) = IF t = NoText THEN <<>> ELSE <<t>>
  BY TextsInText
<1>4. TextsIn(TextBlocks(t)) \in Seq(Texts)
  BY <1>1, TextOfType, FlattenType DEF TextsIn
<1> QED
  BY <1>2, <1>3, <1>4, ConcatEmptySeq

LEMMA TextsAtIsTexts ==
    ASSUME NEW e \in Row
    PROVE  TextsAt(e) \in Seq(Texts)
<1>1. e.blocks \in Seq(Block)
  BY DEF Row
<1> QED
  BY <1>1, TextOfType, FlattenType DEF TextsAt

LEMMA TextsAtType ==
    ASSUME NEW s \in Seq(Row)
    PROVE  Each(TextsAt, s) \in Seq(Seq(Texts))
<1>1. \A e \in Row : TextsAt(e) \in Seq(Texts)
  BY TextsAtIsTexts
<1>2. DOMAIN s = 1 .. Len(s) /\ Len(s) \in Nat /\ \A i \in 1 .. Len(s) : s[i] \in Row
  OBVIOUS
<1>3. \A i \in 1 .. Len(s) : TextsAt(s[i]) \in Seq(Texts)
  BY <1>1, <1>2
<1> QED
  BY <1>2, <1>3 DEF Each

LEMMA TextsSentJoin ==
    ASSUME NEW s \in Seq(Row), NEW t \in Seq(Row)
    PROVE  TextsSent(s \o t) = TextsSent(s) \o TextsSent(t)
<1>1. Each(TextsAt, s) \in Seq(Seq(Texts)) /\ Each(TextsAt, t) \in Seq(Seq(Texts))
  BY TextsAtType
<1>2. Each(TextsAt, s \o t) = Each(TextsAt, s) \o Each(TextsAt, t)
  <2>1. /\ s \o t \in Seq(Row) /\ DOMAIN (s \o t) = 1 .. Len(s) + Len(t)
        /\ Len(s) \in Nat /\ DOMAIN s = 1 .. Len(s) /\ Len(t) \in Nat /\ DOMAIN t = 1 .. Len(t)
        /\ \A i \in 1 .. Len(s) + Len(t) :
              (s \o t)[i] = IF i <= Len(s) THEN s[i] ELSE t[i - Len(s)]
    OBVIOUS
  <2> QED
    BY <1>1, <2>1 DEF Each
<1> QED
  BY <1>1, <1>2, FlattenJoin DEF TextsSent

LEMMA TextsSentOne ==
    ASSUME NEW e \in Row
    PROVE  TextsSent(<<e>>) = TextsIn(e.blocks)
<1>1. Each(TextsAt, <<e>>) = <<TextsAt(e)>>
  BY DEF Each
<1>2. e.blocks \in Seq(Block)
  BY DEF Row
<1>3. TextsAt(e) \in Seq(Texts) /\ TextsAt(e) = TextsIn(e.blocks)
  BY <1>2, TextOfType, FlattenType DEF TextsAt, TextsIn
<1> QED
  BY <1>1, <1>3, FlattenOne DEF TextsSent

LEMMA TextsSentNone == TextsSent(<<>>) = <<>>
<1>1. Each(TextsAt, <<>>) = <<>>
  BY DEF Each
<1> QED
  BY <1>1, FlattenNone DEF TextsSent

\* A message for a tool's result holds no text.
LEMMA ToolMessagesSayNothing ==
    ASSUME NEW m \in Msg
    PROVE  TextsSent(ToolMessages(m)) = <<>>
<1>1. m.results \in Seq(Result)
  BY MessageIsTyped
<1> DEFINE s == ToolMessages(m)
<1>2. s \in Seq(Row)
  BY ToolMessagesAreTyped
<1>3. Len(s) = Len(m.results) /\ \A i \in 1 .. Len(s) : s[i].blocks = <<ResultBlock(m.results[i])>>
  BY <1>1 DEF ToolMessages, Entry
<1>4. ASSUME NEW i \in 1 .. Len(s)
      PROVE  TextsAt(s[i]) = <<>>
  <2>1. s[i].blocks \in Seq(Block)
    <3>1. s[i] \in Row
      BY <1>2
    <3> QED
      BY <3>1 DEF Row
  <2>2. Len(s[i].blocks) = 1 /\ \A k \in 1 .. 1 : s[i].blocks[k].kind # "text"
    <3>1. s[i].blocks = <<ResultBlock(m.results[i])>>
      BY <1>3
    <3>2. ResultBlock(m.results[i]).kind = "result"
      BY DEF ResultBlock
    <3> QED
      BY <3>1, <3>2
  <2>3. TextsIn(s[i].blocks) = <<>>
    BY <2>1, <2>2, NoTextsIn
  <2> QED
    BY <2>3 DEF TextsAt, TextsIn
<1> HIDE DEF s
<1>5. Each(TextsAt, s) \in Seq(Seq(Texts))
  BY <1>2, TextsAtType
<1>6. Len(Each(TextsAt, s)) = Len(s) /\ \A i \in 1 .. Len(s) : Each(TextsAt, s)[i] = <<>>
  BY <1>2, <1>4 DEF Each
<1>7. TextsSent(s) = <<>>
  BY <1>5, <1>6, FlattenNothing DEF TextsSent
<1> QED
  BY <1>7 DEF s

\* The entries of a message say what the message says.
LEMMA EntriesSayIt ==
    ASSUME NEW p \in Providers, NEW m \in Msg
    PROVE  TextsSent(EntriesOf(p, m)) = SaidBy(m)
<1> DEFINE said == IF m.text = NoText THEN <<>> ELSE <<m.text>>
<1>0. m.text \in Texts /\ m.uses \in Seq(Use) /\ m.results \in Seq(Result)
  BY MessageIsTyped
<1>1. CASE m.role = "system"
  <2>1. EntriesOf(p, m) = <<>> /\ SaidBy(m) = <<>>
    BY <1>1 DEF EntriesOf, SaidBy
  <2> QED
    BY <2>1, TextsSentNone
<1>2. CASE m.role = "assistant"
  <2> DEFINE bs == TextBlocks(m.text) \o Each(CallBlock, m.uses)
  <2>1. bs \in Seq(Block) /\ Each(CallBlock, m.uses) \in Seq(Block)
    BY BlocksAreTyped, ConcatProperties
  <2>2. \A i \in 1 .. Len(Each(CallBlock, m.uses)) : Each(CallBlock, m.uses)[i].kind # "text"
    BY <1>0 DEF Each, CallBlock
  <2>3. TextsIn(bs) = said
    BY <1>0, <2>1, <2>2, TextsInFront
  <2>4. EntriesOf(p, m) = <<Entry("assistant", bs)>>
    BY <1>2, EntriesOfCases DEF AssistantEntry
  <2>5. Entry("assistant", bs) \in Row /\ Entry("assistant", bs).blocks = bs
    BY <2>1, RowIsTyped DEF Entry
  <2>6. SaidBy(m) = said
    BY <1>2 DEF SaidBy
  <2> HIDE DEF bs
  <2> QED
    BY <2>3, <2>4, <2>5, <2>6, TextsSentOne
<1>3. CASE m.role = "user" /\ p = "anthropic"
  <2> DEFINE bs == TextBlocks(m.text) \o Each(ResultBlock, m.results)
  <2>1. bs \in Seq(Block) /\ Each(ResultBlock, m.results) \in Seq(Block)
    BY BlocksAreTyped, ConcatProperties
  <2>2. \A i \in 1 .. Len(Each(ResultBlock, m.results)) :
           Each(ResultBlock, m.results)[i].kind # "text"
    BY <1>0 DEF Each, ResultBlock
  <2>3. TextsIn(bs) = said
    BY <1>0, <2>1, <2>2, TextsInFront
  <2>4. EntriesOf(p, m) = <<Entry("user", bs)>>
    BY <1>3, EntriesOfCases
  <2>5. Entry("user", bs) \in Row /\ Entry("user", bs).blocks = bs
    BY <2>1, RowIsTyped DEF Entry
  <2>6. SaidBy(m) = said
    BY <1>3 DEF SaidBy
  <2> HIDE DEF bs
  <2> QED
    BY <2>3, <2>4, <2>5, <2>6, TextsSentOne
<1>4. CASE m.role = "user" /\ p # "anthropic"
  <2>1. SaidBy(m) = said
    BY <1>4 DEF SaidBy
  <2>2. CASE m.results # <<>> /\ m.text = NoText
    <3>1. EntriesOf(p, m) = ToolMessages(m)
      BY <1>4, <2>2, EntriesOfCases
    <3> QED
      BY <2>1, <2>2, <3>1, ToolMessagesSayNothing
  <2>3. CASE ~(m.results # <<>> /\ m.text = NoText)
    <3> DEFINE e == Entry("user", TextBlocks(m.text))
    <3>1. EntriesOf(p, m) = ToolMessages(m) \o <<e>>
      BY <1>4, <2>3, EntriesOfCases
    <3>2. TextBlocks(m.text) \in Seq(Block)
      BY BlocksAreTyped
    <3>3. e \in Row /\ e.blocks = TextBlocks(m.text)
      BY <3>2, RowIsTyped DEF Entry
    <3>4. TextsSent(<<e>>) = said
      BY <1>0, <3>3, TextsSentOne, TextsInText
    <3>5. <<e>> \in Seq(Row) /\ ToolMessages(m) \in Seq(Row)
      BY <3>3, ToolMessagesAreTyped
    <3> HIDE DEF e
    <3>6. TextsSent(EntriesOf(p, m)) = <<>> \o said
      BY <3>1, <3>4, <3>5, TextsSentJoin, ToolMessagesSayNothing
    <3>7. said \in Seq(Texts)
      BY <1>0
    <3> QED
      BY <2>1, <3>6, <3>7, ConcatEmptySeq
  <2> QED
    BY <2>2, <2>3
<1> QED
  BY <1>1, <1>2, <1>3, <1>4, MessageIsTyped

LEMMA TextsOfMore ==
    ASSUME NEW ms \in Seq(Msg), NEW m \in Msg
    PROVE  TextsOf(Append(ms, m)) = TextsOf(ms) \o SaidBy(m)
<1>1. \A x \in Msg : SaidBy(x) \in Seq(Texts)
  <2>1. \A x \in Msg : x.text \in Texts
    BY MessageIsTyped
  <2>2. \A t \in Texts : <<t>> \in Seq(Texts)
    OBVIOUS
  <2> QED
    BY <2>1, <2>2, EmptySeq DEF SaidBy
<1>2. DOMAIN ms = 1 .. Len(ms) /\ Len(ms) \in Nat /\ \A i \in 1 .. Len(ms) : ms[i] \in Msg
  OBVIOUS
<1>3. Each(SaidBy, ms) \in Seq(Seq(Texts)) /\ Len(Each(SaidBy, ms)) = Len(ms)
  <2>1. \A i \in 1 .. Len(ms) : SaidBy(ms[i]) \in Seq(Texts)
    BY <1>1, <1>2
  <2> QED
    BY <1>2, <2>1 DEF Each
<1>4. Each(SaidBy, Append(ms, m)) = Append(Each(SaidBy, ms), SaidBy(m))
  <2>1. /\ DOMAIN Append(ms, m) = 1 .. Len(ms) + 1 /\ Append(ms, m)[Len(ms) + 1] = m
        /\ \A i \in 1 .. Len(ms) : Append(ms, m)[i] = ms[i]
    OBVIOUS
  <2> QED
    BY <1>2, <1>3, <2>1 DEF Each
<1> QED
  BY <1>1, <1>3, <1>4, FlattenMore DEF TextsOf

\* No provider's translation loses or moves a text, whatever the conversation.
LEMMA TranslationKeepsTexts ==
    ASSUME NEW p \in Providers
    PROVE  \A ms \in Seq(Msg) : TextsSent(Entries(p, ms)) = TextsOf(ms)
<1> DEFINE X == {ms \in Seq(Msg) : TextsSent(Entries(p, ms)) = TextsOf(ms)}
<1>1. <<>> \in X
  <2>1. Entries(p, <<>>) = <<>>
    <3>1. [i \in DOMAIN <<>> |-> EntriesOf(p, <<>>[i])] = <<>>
      OBVIOUS
    <3> QED
      BY <3>1, FlattenNone DEF Entries
  <2>2. TextsOf(<<>>) = <<>>
    <3>1. Each(SaidBy, <<>>) = <<>>
      BY DEF Each
    <3> QED
      BY <3>1, FlattenNone DEF TextsOf
  <2> QED
    BY <2>1, <2>2, TextsSentNone, EmptySeq
<1>2. ASSUME NEW ms \in Seq(Msg), NEW m \in Msg, ms \in X
      PROVE  Append(ms, m) \in X
  <2>1. Entries(p, Append(ms, m)) = Entries(p, ms) \o EntriesOf(p, m)
    BY EntriesMore
  <2>2. Entries(p, ms) \in Seq(Row) /\ EntriesOf(p, m) \in Seq(Row)
    BY EntriesMore, EntriesOfType
  <2>3. TextsSent(Entries(p, ms) \o EntriesOf(p, m)) = TextsOf(ms) \o SaidBy(m)
    BY <1>2, <2>2, TextsSentJoin, EntriesSayIt
  <2> QED
    BY <2>1, <2>3, TextsOfMore, AppendProperties
<1> HIDE DEF X
<1>3. Seq(Msg) \subseteq X
  BY <1>1, <1>2, SequencesByAppend
<1> QED
  BY <1>3 DEF X

-----------------------------------------------------------------------------
(***************************************************************************)
(* The calls: an assistant's entry makes those of its answer, the user     *)
(* message behind it brings their results, and no other block comes        *)
(* between.                                                                *)
(***************************************************************************)
CallsIn(bs) == FlattenSeq(Each(CallOf, bs))

LEMMA CallOfType ==
    ASSUME NEW bs \in Seq(Block)
    PROVE  Each(CallOf, bs) \in Seq(Seq(Block))
<1>1. \A b \in Block : CallOf(b) \in Seq(Block)
  <2>1. \A b \in Block : <<b>> \in Seq(Block)
    OBVIOUS
  <2> QED
    BY <2>1, EmptySeq DEF CallOf
<1>2. DOMAIN bs = 1 .. Len(bs) /\ Len(bs) \in Nat /\ \A i \in 1 .. Len(bs) : bs[i] \in Block
  OBVIOUS
<1>3. \A i \in 1 .. Len(bs) : CallOf(bs[i]) \in Seq(Block)
  BY <1>1, <1>2
<1> QED
  BY <1>2, <1>3 DEF Each

LEMMA CallsInJoin ==
    ASSUME NEW bs \in Seq(Block), NEW cs \in Seq(Block)
    PROVE  CallsIn(bs \o cs) = CallsIn(bs) \o CallsIn(cs)
<1>1. Each(CallOf, bs) \in Seq(Seq(Block)) /\ Each(CallOf, cs) \in Seq(Seq(Block))
  BY CallOfType
<1>2. Each(CallOf, bs \o cs) = Each(CallOf, bs) \o Each(CallOf, cs)
  <2>1. /\ bs \o cs \in Seq(Block) /\ DOMAIN (bs \o cs) = 1 .. Len(bs) + Len(cs)
        /\ Len(bs) \in Nat /\ DOMAIN bs = 1 .. Len(bs) /\ Len(cs) \in Nat /\ DOMAIN cs = 1 .. Len(cs)
        /\ \A i \in 1 .. Len(bs) + Len(cs) :
              (bs \o cs)[i] = IF i <= Len(bs) THEN bs[i] ELSE cs[i - Len(bs)]
    OBVIOUS
  <2> QED
    BY <1>1, <2>1 DEF Each
<1> QED
  BY <1>1, <1>2, FlattenJoin DEF CallsIn

LEMMA NoCallsIn ==
    ASSUME NEW bs \in Seq(Block), \A i \in 1 .. Len(bs) : bs[i].kind # "call"
    PROVE  CallsIn(bs) = <<>>
<1>1. Each(CallOf, bs) \in Seq(Seq(Block))
  BY CallOfType
<1>2. Len(Each(CallOf, bs)) = Len(bs) /\ \A i \in 1 .. Len(bs) : Each(CallOf, bs)[i] = <<>>
  BY DEF Each, CallOf
<1> QED
  BY <1>1, <1>2, FlattenNothing DEF CallsIn

LEMMA OnlyCallsIn ==
    ASSUME NEW bs \in Seq(Block), \A i \in 1 .. Len(bs) : bs[i].kind = "call"
    PROVE  CallsIn(bs) = bs
<1>1. Each(CallOf, bs) = [i \in DOMAIN bs |-> <<bs[i]>>]
  BY DEF Each, CallOf
<1> QED
  BY <1>1, FlattenSingles DEF CallsIn

LEMMA TextBlocksHaveNoCalls ==
    ASSUME NEW t \in Texts
    PROVE  TextBlocks(t) \in Seq(Block) /\ CallsIn(TextBlocks(t)) = <<>>
<1>1. TextBlocks(t) \in Seq(Block)
  <2>1. [kind |-> "text", of |-> t] \in Block
    BY DEF Block
  <2> QED
    BY <2>1 DEF TextBlocks
<1>2. \A i \in 1 .. Len(TextBlocks(t)) : TextBlocks(t)[i].kind # "call"
  BY DEF TextBlocks
<1> QED
  BY <1>1, <1>2, NoCallsIn

\* The calls of an answer are its tool uses, in their order.
LEMMA AssistantCalls ==
    ASSUME NEW m \in Msg
    PROVE  Calls(AssistantEntry(m)) = Each(CallBlock, m.uses)
<1> DEFINE cs == Each(CallBlock, m.uses)
<1>1. m.text \in Texts /\ m.uses \in Seq(Use)
  BY MessageIsTyped
<1>2. cs \in Seq(Block)
  BY BlocksAreTyped
<1>3. \A i \in 1 .. Len(cs) : cs[i].kind = "call"
  BY <1>1 DEF Each, CallBlock
<1> HIDE DEF cs
<1>4. CallsIn(cs) = cs
  BY <1>2, <1>3, OnlyCallsIn
<1>5. CallsIn(TextBlocks(m.text) \o cs) = <<>> \o cs
  BY <1>1, <1>2, <1>4, CallsInJoin, TextBlocksHaveNoCalls
<1>6. Calls(AssistantEntry(m)) = CallsIn(TextBlocks(m.text) \o cs)
  BY DEF Calls, CallsIn, AssistantEntry, Entry, cs
<1> QED
  BY <1>2, <1>5, <1>6, ConcatEmptySeq DEF cs

\* A user's message makes no call.
LEMMA UsersCallNothing ==
    ASSUME NEW p \in Providers, NEW m \in Msg, m.role = "user"
    PROVE  \A i \in 1 .. Len(EntriesOf(p, m)) : Calls(EntriesOf(p, m)[i]) = <<>>
<1>1. m.text \in Texts /\ m.results \in Seq(Result)
  BY MessageIsTyped
<1> DEFINE rs == Each(ResultBlock, m.results)
           tm == ToolMessages(m)
           e  == Entry("user", TextBlocks(m.text))
<1>2. rs \in Seq(Block) /\ \A i \in 1 .. Len(rs) : rs[i].kind # "call"
  <2>1. rs \in Seq(Block)
    BY BlocksAreTyped
  <2>2. \A i \in 1 .. Len(rs) : rs[i].kind # "call"
    BY <1>1 DEF Each, ResultBlock
  <2> QED
    BY <2>1, <2>2
<1>3. Calls(Entry("user", TextBlocks(m.text) \o rs)) = <<>>
  <2> HIDE DEF rs
  <2>1. CallsIn(TextBlocks(m.text) \o rs) = <<>> \o <<>>
    BY <1>1, <1>2, CallsInJoin, NoCallsIn, TextBlocksHaveNoCalls
  <2> QED
    BY <2>1 DEF Calls, CallsIn, Entry
<1>4. Calls(e) = <<>>
  BY <1>1, TextBlocksHaveNoCalls DEF Calls, CallsIn, Entry
<1>5. tm \in Seq(Row) /\ \A i \in 1 .. Len(tm) : Calls(tm[i]) = <<>>
  <2>1. tm \in Seq(Row)
    BY ToolMessagesAreTyped
  <2>2. ASSUME NEW i \in 1 .. Len(tm)
        PROVE  Calls(tm[i]) = <<>>
    <3>1. tm[i] \in Row /\ tm[i].blocks = <<ResultBlock(m.results[i])>>
      BY <1>1, <2>1 DEF ToolMessages, Entry
    <3>2. tm[i].blocks \in Seq(Block)
      BY <3>1 DEF Row
    <3>3. \A k \in 1 .. Len(tm[i].blocks) : tm[i].blocks[k].kind # "call"
      BY <3>1 DEF ResultBlock
    <3>4. CallsIn(tm[i].blocks) = <<>>
      BY <3>2, <3>3, NoCallsIn
    <3> QED
      BY <3>4 DEF Calls, CallsIn
  <2> QED
    BY <2>1, <2>2
<1>6. CASE p = "anthropic"
  <2>1. EntriesOf(p, m) = <<Entry("user", TextBlocks(m.text) \o rs)>>
    BY <1>6, EntriesOfCases
  <2> HIDE DEF rs
  <2> QED
    BY <1>3, <2>1
<1>7. CASE p # "anthropic" /\ m.results # <<>> /\ m.text = NoText
  <2>1. EntriesOf(p, m) = tm
    BY <1>7, EntriesOfCases
  <2> HIDE DEF tm
  <2> QED
    BY <1>5, <2>1
<1>8. CASE p # "anthropic" /\ ~(m.results # <<>> /\ m.text = NoText)
  <2>1. EntriesOf(p, m) = tm \o <<e>>
    BY <1>8, EntriesOfCases
  <2> HIDE DEF tm, e
  <2> QED
    BY <1>4, <1>5, <2>1
<1> QED
  BY <1>6, <1>7, <1>8

-----------------------------------------------------------------------------
\* All blocks of a list of entries.
AllBlocks(t) == FlattenSeq([j \in 1 .. Len(t) |-> t[j].blocks])

LEMMA PartsAreTyped ==
    ASSUME NEW s \in Seq(Row), NEW i \in 0 .. Len(s)
    PROVE  /\ [j \in 1 .. Len(s) - i |-> s[i + j].blocks] \in Seq(Seq(Block))
           /\ After(s, i) \in Seq(Block)
<1>1. \A e \in Row : e.blocks \in Seq(Block)
  BY DEF Row
<1>2. \A j \in 1 .. Len(s) - i : i + j \in 1 .. Len(s) /\ s[i + j].blocks \in Seq(Block)
  BY <1>1
<1>3. [j \in 1 .. Len(s) - i |-> s[i + j].blocks] \in Seq(Seq(Block))
  BY <1>2
<1> QED
  BY <1>3, FlattenType DEF After

LEMMA AllBlocksAfter ==
    ASSUME NEW s \in Seq(Row)
    PROVE  AllBlocks(s) = After(s, 0)
<1>1. [j \in 1 .. Len(s) - 0 |-> s[0 + j].blocks] = [j \in 1 .. Len(s) |-> s[j].blocks]
  OBVIOUS
<1> QED
  BY <1>1 DEF AllBlocks, After

\* Behind the last entry of s stands what follows s.
LEMMA AfterTheLast ==
    ASSUME NEW s \in Seq(Row), NEW t \in Seq(Row)
    PROVE  After(s \o t, Len(s)) = AllBlocks(t)
<1>1. /\ Len(s) \in Nat /\ Len(t) \in Nat /\ Len(s \o t) = Len(s) + Len(t)
      /\ \A j \in 1 .. Len(t) : (s \o t)[Len(s) + j] = t[j]
  OBVIOUS
<1>2. Len(s \o t) - Len(s) = Len(t)
  BY <1>1
<1>3. [j \in 1 .. Len(s \o t) - Len(s) |-> (s \o t)[Len(s) + j].blocks]
        = [j \in 1 .. Len(t) |-> t[j].blocks]
  BY <1>1, <1>2
<1> QED
  BY <1>3 DEF After, AllBlocks

\* Behind any other, what stood there, and then what follows s.
LEMMA AfterMore ==
    ASSUME NEW s \in Seq(Row), NEW t \in Seq(Row), NEW i \in 1 .. Len(s)
    PROVE  After(s \o t, i) = After(s, i) \o AllBlocks(t)
<1> DEFINE whole == [j \in 1 .. Len(s \o t) - i |-> (s \o t)[i + j].blocks]
           front == [j \in 1 .. Len(s) - i |-> s[i + j].blocks]
           rest  == [j \in 1 .. Len(t) |-> t[j].blocks]
<1>1. /\ Len(s) \in Nat /\ Len(t) \in Nat /\ Len(s \o t) = Len(s) + Len(t)
      /\ s \o t \in Seq(Row)
      /\ \A k \in 1 .. Len(s) + Len(t) :
            (s \o t)[k] = IF k <= Len(s) THEN s[k] ELSE t[k - Len(s)]
  OBVIOUS
<1>2. i \in 0 .. Len(s) /\ 0 \in 0 .. Len(t) /\ i \in 0 .. Len(s \o t)
  BY <1>1
<1>3. front \in Seq(Seq(Block))
  BY <1>2, PartsAreTyped
<1>4. rest \in Seq(Seq(Block))
  <2>1. [j \in 1 .. Len(t) - 0 |-> t[0 + j].blocks] \in Seq(Seq(Block))
    BY <1>2, PartsAreTyped
  <2>2. rest = [j \in 1 .. Len(t) - 0 |-> t[0 + j].blocks]
    BY <1>1
  <2> QED
    BY <2>1, <2>2
<1>5. whole = front \o rest
  <2>1. Len(front) = Len(s) - i /\ Len(rest) = Len(t)
    BY <1>1, <1>2
  <2>2. /\ DOMAIN (front \o rest) = 1 .. (Len(s) - i) + Len(t)
        /\ \A j \in 1 .. (Len(s) - i) + Len(t) :
              (front \o rest)[j] = IF j <= Len(s) - i THEN front[j] ELSE rest[j - (Len(s) - i)]
    <3> HIDE DEF front, rest
    <3>1. /\ front \o rest \in Seq(Seq(Block)) /\ Len(front \o rest) = Len(front) + Len(rest)
          /\ \A j \in 1 .. Len(front) + Len(rest) :
                (front \o rest)[j] = IF j <= Len(front) THEN front[j] ELSE rest[j - Len(front)]
      BY <1>3, <1>4, ConcatProperties
    <3>2. DOMAIN (front \o rest) = 1 .. Len(front \o rest)
      BY <3>1
    <3> QED
      BY <2>1, <3>1, <3>2
  <2>3. ASSUME NEW j \in 1 .. (Len(s) - i) + Len(t)
        PROVE  (s \o t)[i + j].blocks = (front \o rest)[j]
    <3>1. CASE j <= Len(s) - i
      <4>1. /\ i + j \in 1 .. Len(s) + Len(t) /\ i + j <= Len(s) /\ j \in 1 .. Len(s) - i
            /\ j \in 1 .. (Len(s) - i) + Len(t)
        BY <1>1, <1>2, <3>1
      <4>2. (s \o t)[i + j] = s[i + j] /\ front[j] = s[i + j].blocks
        BY <1>1, <4>1
      <4> HIDE DEF front, rest
      <4> QED
        BY <2>2, <3>1, <4>2
    <3>2. CASE ~(j <= Len(s) - i)
      <4> DEFINE k == j - (Len(s) - i)
      <4>1. /\ i + j \in 1 .. Len(s) + Len(t) /\ ~(i + j <= Len(s)) /\ k \in 1 .. Len(t)
            /\ (i + j) - Len(s) = k
        BY <1>1, <1>2, <3>2
      <4>2. (s \o t)[i + j] = t[k] /\ rest[k] = t[k].blocks
        BY <1>1, <4>1
      <4> HIDE DEF front, rest
      <4> QED
        BY <2>2, <3>2, <4>2
    <3> QED
      BY <3>1, <3>2
  <2>4. whole = [j \in 1 .. (Len(s) - i) + Len(t) |-> (s \o t)[i + j].blocks]
    BY <1>1, <1>2
  <2>5. (front \o rest) = [j \in 1 .. (Len(s) - i) + Len(t) |-> (front \o rest)[j]]
    <3> HIDE DEF front, rest
    <3>1. front \o rest \in Seq(Seq(Block))
      BY <1>3, <1>4, ConcatProperties
    <3>2. \A q \in Seq(Seq(Block)) : q = [j \in DOMAIN q |-> q[j]]
      OBVIOUS
    <3>3. (front \o rest) = [j \in DOMAIN (front \o rest) |-> (front \o rest)[j]]
      BY <3>1, <3>2
    <3> QED
      BY <2>2, <3>3
  <2> HIDE DEF front, rest, whole
  <2> QED
    BY <2>3, <2>4, <2>5
<1>6. FlattenSeq(front \o rest) = FlattenSeq(front) \o FlattenSeq(rest)
  <2> HIDE DEF front, rest
  <2> QED
    BY <1>3, <1>4, FlattenJoin
<1>7. /\ After(s \o t, i) = FlattenSeq(whole) /\ After(s, i) = FlattenSeq(front)
      /\ AllBlocks(t) = FlattenSeq(rest)
  BY DEF After, AllBlocks
<1> HIDE DEF front, rest, whole
<1> QED
  BY <1>5, <1>6, <1>7

\* A single entry's blocks.
LEMMA AllBlocksOfOne ==
    ASSUME NEW e \in Row
    PROVE  AllBlocks(<<e>>) = e.blocks
<1>1. e.blocks \in Seq(Block)
  BY DEF Row
<1>2. [j \in 1 .. Len(<<e>>) |-> <<e>>[j].blocks] = <<e.blocks>>
  OBVIOUS
<1> QED
  BY <1>1, <1>2, FlattenOne DEF AllBlocks

\* Of a message with results and no text, the results are all there is, in every dialect.
LEMMA ResultsAreAll ==
    ASSUME NEW p \in Providers, NEW m \in Msg,
           m.role = "user", m.text = NoText, m.results # <<>>
    PROVE  AllBlocks(EntriesOf(p, m)) = Each(ResultBlock, m.results)
<1> DEFINE rs == Each(ResultBlock, m.results)
<1>1. m.results \in Seq(Result) /\ rs \in Seq(Block)
  BY MessageIsTyped, BlocksAreTyped
<1>2. CASE p = "anthropic"
  <2>1. EntriesOf(p, m) = <<Entry("user", TextBlocks(m.text) \o rs)>>
    BY <1>2, EntriesOfCases
  <2> HIDE DEF rs
  <2>2. TextBlocks(m.text) \o rs = rs
    BY <1>1, ConcatEmptySeq DEF TextBlocks
  <2>3. Entry("user", rs) \in Row /\ Entry("user", rs).blocks = rs
    BY <1>1, RowIsTyped DEF Entry
  <2>4. AllBlocks(EntriesOf(p, m)) = rs
    BY <2>1, <2>2, <2>3, AllBlocksOfOne
  <2> QED
    BY <2>4 DEF rs
<1>3. CASE p # "anthropic"
  <2>1. EntriesOf(p, m) = ToolMessages(m)
    BY <1>3, EntriesOfCases
  <2>2. [j \in 1 .. Len(ToolMessages(m)) |-> ToolMessages(m)[j].blocks]
          = [j \in DOMAIN rs |-> <<rs[j]>>]
    BY <1>1 DEF ToolMessages, Entry, Each
  <2> HIDE DEF rs
  <2>3. AllBlocks(EntriesOf(p, m)) = rs
    BY <1>1, <2>1, <2>2, FlattenSingles DEF AllBlocks
  <2> QED
    BY <2>3 DEF rs
<1> QED
  BY <1>2, <1>3

-----------------------------------------------------------------------------
LEMMA NoCallIsAnswered ==
    ASSUME NEW s \in Seq(Row), NEW i \in 1 .. Len(s), Calls(s[i]) = <<>>
    PROVE  AnsweredAt(s, i)
<1>1. After(s, i) \in Seq(Block)
  BY PartsAreTyped
<1>2. Len(After(s, i)) \in Nat
  BY <1>1
<1> QED
  BY <1>2 DEF AnsweredAt

\* What follows s leaves the answers in s as they are.
LEMMA AnsweredStays ==
    ASSUME NEW s \in Seq(Row), NEW t \in Seq(Row), NEW i \in 1 .. Len(s), AnsweredAt(s, i)
    PROVE  AnsweredAt(s \o t, i)
<1>1. (s \o t)[i] = s[i]
  OBVIOUS
<1>2. After(s \o t, i) = After(s, i) \o AllBlocks(t)
  BY AfterMore
<1>3. After(s, i) \in Seq(Block) /\ AllBlocks(t) \in Seq(Block)
  <2>1. i \in 0 .. Len(s) /\ 0 \in 0 .. Len(t)
    OBVIOUS
  <2> QED
    BY <2>1, PartsAreTyped, AllBlocksAfter
<1> DEFINE calls == Calls(s[i])
           a == After(s, i)
           b == After(s \o t, i)
<1>4. /\ Len(a) >= Len(calls)
      /\ \A k \in 1 .. Len(calls) : a[k] = [calls[k] EXCEPT !.kind = "result"]
      /\ \A k, l \in 1 .. Len(calls) : calls[k].id = calls[l].id => k = l
  BY DEF AnsweredAt
<1>5. Calls(s[i]) \in Seq(Block)
  <2>1. s[i] \in Row
    OBVIOUS
  <2>2. s[i].blocks \in Seq(Block)
    BY <2>1 DEF Row
  <2> QED
    BY <2>2, CallOfType, FlattenType DEF Calls
<1>6. /\ Len(a) \in Nat /\ Len(calls) \in Nat /\ Len(b) = Len(a) + Len(AllBlocks(t))
      /\ Len(AllBlocks(t)) \in Nat /\ \A k \in 1 .. Len(a) : b[k] = a[k]
  BY <1>2, <1>3, <1>5, ConcatProperties, LenProperties
<1>7. Len(b) >= Len(calls)
  BY <1>4, <1>6
<1>8. \A k \in 1 .. Len(calls) : b[k] = [calls[k] EXCEPT !.kind = "result"]
  BY <1>4, <1>6
<1> QED
  BY <1>1, <1>4, <1>7, <1>8 DEF AnsweredAt

DistinctUses(uses) == \A k, l \in 1 .. Len(uses) : uses[k].id = uses[l].id => k = l

\* An answer whose results come next is answered.
LEMMA TurnIsAnswered ==
    ASSUME NEW p \in Providers, NEW s \in Seq(Row), NEW a \in Msg, NEW u \in Msg,
           a.role = "assistant", DistinctUses(a.uses), a.uses # <<>>,
           u.role = "user", u.text = NoText, u.results = ResultsFor(a.uses)
    PROVE  AnsweredAt((s \o <<AssistantEntry(a)>>) \o EntriesOf(p, u), Len(s) + 1)
<1> DEFINE e == AssistantEntry(a)
           r == EntriesOf(p, u)
           n == Len(s) + 1
           q == s \o <<e>>
           rs == Each(ResultBlock, u.results)
           cs == Each(CallBlock, a.uses)
<1>1. a.uses \in Seq(Use)
  BY MessageIsTyped
<1>2. /\ u.results # <<>> /\ Len(u.results) = Len(a.uses)
      /\ \A k \in 1 .. Len(a.uses) : u.results[k] = ResultFor(a.uses[k])
  BY <1>1 DEF ResultsFor, Each
<1>3. e \in Row /\ r \in Seq(Row)
  <2>1. TextBlocks(a.text) \o Each(CallBlock, a.uses) \in Seq(Block)
    BY BlocksAreTyped, ConcatProperties
  <2> QED
    BY <2>1, RowIsTyped, EntriesOfType DEF AssistantEntry
<1>4. Calls(e) = cs /\ AllBlocks(r) = rs
  BY <1>2, AssistantCalls, ResultsAreAll
<1>5. /\ Len(cs) = Len(a.uses) /\ Len(rs) = Len(a.uses)
      /\ \A k \in 1 .. Len(a.uses) :
            cs[k] = CallBlock(a.uses[k]) /\ rs[k] = ResultBlock(ResultFor(a.uses[k]))
  <2>1. /\ DOMAIN a.uses = 1 .. Len(a.uses) /\ Len(a.uses) \in Nat
        /\ DOMAIN u.results = 1 .. Len(a.uses)
    <3>1. u.results \in Seq(Result)
      BY MessageIsTyped
    <3> QED
      BY <1>1, <1>2, <3>1
  <2> QED
    BY <1>2, <2>1 DEF Each
<1> HIDE DEF rs, cs
<1>6. \A k \in 1 .. Len(cs) : rs[k] = [cs[k] EXCEPT !.kind = "result"]
  <2>1. \A v : ResultBlock(ResultFor(v)) = [CallBlock(v) EXCEPT !.kind = "result"]
    BY DEF CallBlock, ResultBlock, ResultFor
  <2> QED
    BY <1>5, <2>1
<1>7. \A k, l \in 1 .. Len(cs) : cs[k].id = cs[l].id => k = l
  <2>1. \A v : CallBlock(v).id = v.id
    BY DEF CallBlock
  <2>2. \A k \in 1 .. Len(cs) : cs[k].id = a.uses[k].id
    BY <1>5, <2>1
  <2> QED
    BY <1>5, <2>2 DEF DistinctUses
<1> HIDE DEF e, r
<1>8. q \in Seq(Row) /\ Len(q) = n /\ q[n] = e /\ n \in 1 .. Len(q)
  BY <1>3
<1>9. After(q \o r, n) = rs
  BY <1>3, <1>4, <1>8, AfterTheLast
<1> HIDE DEF q
<1>10. (q \o r)[n] = e
  BY <1>3, <1>8
<1>11. AnsweredAt(q \o r, n)
  <2>1. Len(rs) >= Len(cs)
    BY <1>1, <1>5
  <2> QED
    BY <1>4, <1>6, <1>7, <1>9, <1>10, <2>1 DEF AnsweredAt
<1> QED
  BY <1>11 DEF q, e, r

AnsweredFrom(s, n) == \A i \in n + 1 .. Len(s) : AnsweredAt(s, i)

\* A whole turn, an answer with its results, leaves every call answered.
LEMMA TurnsAreAnswered ==
    ASSUME NEW p \in Providers, NEW ms \in Seq(Msg), NEW a \in Msg, NEW u \in Msg,
           a.role = "assistant", DistinctUses(a.uses), a.uses # <<>>,
           u.role = "user", u.text = NoText, u.results = ResultsFor(a.uses),
           NEW n \in Nat, AnsweredFrom(Entries(p, ms), n)
    PROVE  AnsweredFrom(Entries(p, Append(Append(ms, a), u)), n)
<1> DEFINE e == AssistantEntry(a)
           r == EntriesOf(p, u)
           s == Entries(p, ms)
           all == (s \o <<e>>) \o r
<1>1. s \in Seq(Row) /\ r \in Seq(Row) /\ e \in Row
  <2>1. TextBlocks(a.text) \o Each(CallBlock, a.uses) \in Seq(Block)
    BY BlocksAreTyped, ConcatProperties
  <2> QED
    BY <2>1, RowIsTyped, EntriesOfType, EntriesMore DEF AssistantEntry
<1>2. Entries(p, Append(Append(ms, a), u)) = all
  <2>1. EntriesOf(p, a) = <<e>>
    BY EntriesOfCases
  <2>2. Append(ms, a) \in Seq(Msg)
    OBVIOUS
  <2>3. Entries(p, Append(ms, a)) = s \o EntriesOf(p, a)
    BY EntriesMore
  <2> QED
    BY <2>1, <2>2, <2>3, EntriesMore
<1>3. AnsweredAt(all, Len(s) + 1)
  BY <1>1, TurnIsAnswered
<1>4. \A i \in 1 .. Len(r) : Calls(r[i]) = <<>>
  BY UsersCallNothing
<1>5. AnsweredFrom(s, n)
  OBVIOUS
<1> HIDE DEF e, r, s
<1>6. /\ <<e>> \in Seq(Row) /\ s \o <<e>> \in Seq(Row) /\ all \in Seq(Row)
      /\ Len(s \o <<e>>) = Len(s) + 1 /\ Len(all) = (Len(s) + 1) + Len(r)
      /\ Len(s) \in Nat /\ Len(r) \in Nat
  BY <1>1
<1>7. ASSUME NEW i \in n + 1 .. Len(all)
      PROVE  AnsweredAt(all, i)
  <2>1. CASE i <= Len(s)
    <3>1. i \in n + 1 .. Len(s) /\ i \in 1 .. Len(s) /\ i \in 1 .. Len(s \o <<e>>)
      BY <1>6, <2>1
    <3>2. AnsweredAt(s \o <<e>>, i)
      BY <1>1, <1>5, <1>6, <3>1, AnsweredStays DEF AnsweredFrom
    <3> QED
      BY <1>1, <1>6, <3>1, <3>2, AnsweredStays
  <2>2. CASE i = Len(s) + 1
    BY <1>3, <2>2
  <2>3. CASE i > Len(s) + 1
    <3>1. i - (Len(s) + 1) \in 1 .. Len(r) /\ i \in 1 .. Len(all)
      BY <1>6, <2>3
    <3>2. all[i] = r[i - (Len(s) + 1)]
      BY <1>1, <1>6, <2>3, <3>1
    <3> QED
      BY <1>4, <1>6, <3>1, <3>2, NoCallIsAnswered
  <2> QED
    BY <1>6, <2>1, <2>2, <2>3
<1> QED
  BY <1>2, <1>7 DEF AnsweredFrom

-----------------------------------------------------------------------------
(***************************************************************************)
(* The inductive invariant of a conversation.                              *)
(***************************************************************************)
Begun == at \notin {"off", "refused", "idle"}

\* In every dialect, whichever the next request picks, what the decision added to the
\* client's messages is answered.
Settled(ms) == \A p \in Providers : AnsweredFrom(Entries(p, ms), Len(Entries(p, client)))

Sayings    == client \in Seq(Msg) /\ messages \in Seq(Msg)
Unbegun    == ~Begun => sent = NoRequest /\ iteration = 0
Prompting  == Begun => system \in {<<"operator">>, ComposeProactive(<<"operator">>)}
Counting   == at \in {"llm", "provider", "tools"} => iteration < MaxIterations
Answered   == at \in {"llm", "provider"} => Settled(messages)
Requesting == at = "provider" =>
    /\ sent.provider \in Providers
    /\ sent.system = SystemParts(Compose(system), messages)
    /\ sent.entries = Entries(sent.provider, messages)

\* Between an answer with tool uses and their results, only that answer is open.
Dispatching == at = "tools" =>
    LET n == Len(messages) IN
    /\ messages # <<>> /\ messages[n].role = "assistant" /\ messages[n].uses = response
    /\ response # <<>> /\ DistinctUses(response)
    /\ Settled(SubSeq(messages, 1, n - 1))

TurnsInv == Unbegun /\ Prompting /\ Counting /\ Answered /\ Requesting /\ Dispatching /\ CallsAnswered

ConversationInv == TypeOK /\ Sayings /\ TurnsInv

LEMMA SequencesOfMore ==
    ASSUME NEW A, NEW B, A \subseteq B
    PROVE  Seq(A) \subseteq Seq(B)
<1>1. ASSUME NEW s \in Seq(A)
      PROVE  s \in Seq(B)
  <2>1. s \in [1 .. Len(s) -> B] /\ Len(s) \in Nat
    OBVIOUS
  <2> QED
    BY <2>1
<1> QED
  BY <1>1

LEMMA ChatsAreTyped == Chats \subseteq Seq(Msg)
<1>1. PostedTexts \subseteq Texts
  BY DEF Texts
<1>2. MessageOf(PostedTexts) \subseteq Msg
  BY <1>1 DEF Msg, MessageOf
<1>3. Seq(MessageOf(PostedTexts)) \subseteq Seq(Msg)
  BY <1>2, SequencesOfMore
<1> QED
  BY <1>3, ConversationAssumption

LEMMA MessageHasType ==
    ASSUME NEW r \in {"system", "user", "assistant"}, NEW t \in Texts,
           NEW us \in Seq(Use), NEW rs \in Seq(Result)
    PROVE  /\ Message(r, t, us, rs) \in Msg
           /\ Message(r, t, us, rs).role = r /\ Message(r, t, us, rs).text = t
           /\ Message(r, t, us, rs).uses = us /\ Message(r, t, us, rs).results = rs
  BY DEF Message, Msg, MessageOf

LEMMA PromptIsTyped == <<Prompted>> \in Seq(Msg)
<1>1. Prompted \in Msg
  <2>1. "prompt" \in Texts /\ "user" \in {"system", "user", "assistant"}
    BY DEF Texts
  <2>2. <<>> \in Seq(Use) /\ <<>> \in Seq(Result)
    BY EmptySeq
  <2> QED
    BY <2>1, <2>2, MessageHasType DEF Prompted
<1> QED
  BY <1>1

\* A model answers with at most MaxUses uses; their places tell their ids apart.
LEMMA UsesAreTyped ==
    ASSUME NEW p \in Providers, NEW raw \in RawAnswers(p), NEW turn \in Nat
    PROVE  /\ ToolUses(raw, turn) \in Seq(Use) /\ Len(ToolUses(raw, turn)) <= MaxUses
           /\ DistinctUses(ToolUses(raw, turn))
<1>1. PICK n \in 0 .. MaxUses : raw \in [1 .. n -> RawCalls[p]]
  BY DEF RawAnswers
<1>2. /\ n \in Nat /\ DOMAIN raw = 1 .. n /\ n <= MaxUses
      /\ \A i \in 1 .. n : raw[i] \in RawCall(p)
  BY <1>1, ConversationAssumption
<1> DEFINE use(i) == [id |-> CallId(raw[i], turn, i), input |-> Input(raw[i].arguments),
                      turn |-> turn, idx |-> i]
<1>3. ASSUME NEW i \in 1 .. n
      PROVE  use(i) \in Use /\ CallId(raw[i], turn, i)[3] = i
  <2>1. raw[i].arguments \in {"object", "other", "broken"}
    <3>1. raw[i] \in RawCall(p)
      BY <1>2
    <3> QED
      BY <3>1 DEF RawCall
  <2>2. Input(raw[i].arguments) \in {"given", "raw", "empty"}
    BY <2>1 DEF Input
  <2>3. i \in Nat /\ 0 \in Nat
    BY <1>2
  <2>4. CallId(raw[i], turn, i) \in Id /\ CallId(raw[i], turn, i)[3] = i
    BY <2>3 DEF CallId, Id
  <2> QED
    BY <2>2, <2>3, <2>4 DEF Use
<1>4. ToolUses(raw, turn) = [i \in 1 .. n |-> use(i)]
  BY <1>2 DEF ToolUses
<1>5. /\ ToolUses(raw, turn) \in Seq(Use) /\ Len(ToolUses(raw, turn)) = n
      /\ \A i \in 1 .. n : ToolUses(raw, turn)[i].id = CallId(raw[i], turn, i)
  <2>1. \A i \in 1 .. n : use(i).id = CallId(raw[i], turn, i)
    OBVIOUS
  <2> HIDE DEF use
  <2>2. \A i \in 1 .. n : use(i) \in Use
    BY <1>3
  <2> QED
    BY <1>2, <1>4, <2>1, <2>2
<1> QED
  <2>1. \A k, l \in 1 .. n : CallId(raw[k], turn, k) = CallId(raw[l], turn, l) => k = l
    BY <1>3
  <2> QED
    BY <1>2, <1>5, <2>1 DEF DistinctUses

LEMMA RoutesAreWanted ==
    ASSUME NEW c \in Configs, NEW task
    PROVE  Route(c, task).provider \in Wanted(c) /\ Route(c, task).provider \in Providers
<1>1. Route(c, task).provider \in Wanted(c)
  BY DEF Route, Wanted
<1> QED
  BY <1>1, ConversationAssumption

LEMMA ResultsAreTyped ==
    ASSUME NEW uses \in Seq(Use)
    PROVE  ResultsFor(uses) \in Seq(Result)
<1>1. \A v \in Use : ResultFor(v) \in Result
  BY DEF ResultFor, Result, Use
<1>2. DOMAIN uses = 1 .. Len(uses) /\ Len(uses) \in Nat /\ \A i \in 1 .. Len(uses) : uses[i] \in Use
  OBVIOUS
<1>3. \A i \in 1 .. Len(uses) : ResultFor(uses[i]) \in Result
  BY <1>1, <1>2
<1> QED
  BY <1>2, <1>3 DEF ResultsFor, Each

LEMMA LengthOfEntries ==
    ASSUME NEW p \in Providers, NEW ms \in Seq(Msg)
    PROVE  Entries(p, ms) \in Seq(Row) /\ Len(Entries(p, ms)) \in Nat
  BY EntriesMore, LenProperties

LEMMA SaidIsTyped ==
    ASSUME NEW ms \in Seq(Msg)
    PROVE  \A i \in DOMAIN ms : ms[i] \in MessageOf({ms[i].text})
<1>1. \A m \in Msg : m \in MessageOf({m.text})
  BY DEF Msg, MessageOf
<1>2. \A i \in DOMAIN ms : ms[i] \in Msg
  OBVIOUS
<1> QED
  BY <1>1, <1>2

-----------------------------------------------------------------------------
LEMMA ConversationBegins == Init => ConversationInv
<1> SUFFICES ASSUME Init PROVE ConversationInv
  OBVIOUS
<1>1. Sayings
  <2>1. <<>> \in Seq(Msg)
    BY EmptySeq
  <2> QED
    BY <2>1 DEF Sayings, Init
<1>2. TypeOK
  <2>1. <<>> \in Seq(Use) /\ Len(<<>>) = 0
    BY EmptySeq
  <2>2. 0 \in 0 .. MaxIterations /\ 0 <= MaxUses
    BY ConversationAssumption
  <2>3. \A i \in DOMAIN messages : messages[i] \in MessageOf({messages[i].text})
    BY <1>1, SaidIsTyped DEF Sayings
  <2> QED
    BY <2>1, <2>2, <2>3 DEF TypeOK, Init
<1>3. TurnsInv
  BY DEF TurnsInv, Unbegun, Begun, Prompting, Counting, Answered, Requesting, Dispatching,
         CallsAnswered, Init
<1> QED
  BY <1>1, <1>2, <1>3 DEF ConversationInv

\* A decision begins with nothing of its own.
LEMMA BeginKeeps ==
    ASSUME ConversationInv, NEW ms \in Seq(Msg), ms \in Chats \cup {<<>>, <<Prompted>>},
           NEW parts \in {<<"operator">>, ComposeProactive(<<"operator">>)},
           NEW asked \in Overrides \cup {NoModel, config.model},
           Begin(ms, parts, asked), named' \in Overrides \cup {NoModel}
    PROVE  ConversationInv'
<1> USE DEF ConversationInv
<1>0. /\ at = "idle" /\ client' = ms /\ messages' = ms /\ system' = parts /\ model' = asked
      /\ at' = "llm" /\ UNCHANGED <<config, iteration, response, sent>>
  BY DEF Begin
<1>1. Sayings'
  BY <1>0 DEF Sayings
<1>2. TypeOK'
  <2>1. \A i \in DOMAIN ms : ms[i] \in MessageOf({ms[i].text})
    BY SaidIsTyped
  <2> QED
    BY <1>0, <2>1 DEF TypeOK
<1>3. sent' = NoRequest /\ iteration' = 0
  BY <1>0 DEF TurnsInv, Unbegun, Begun
<1>4. Settled(messages)'
  <2>1. ASSUME NEW p \in Providers
        PROVE  AnsweredFrom(Entries(p, ms), Len(Entries(p, ms)))
    <3>1. Len(Entries(p, ms)) \in Nat
      BY LengthOfEntries
    <3> QED
      BY <3>1 DEF AnsweredFrom
  <2> QED
    BY <1>0, <2>1 DEF Settled
<1>5. 0 < MaxIterations
  BY ConversationAssumption
<1>6. TurnsInv'
  BY <1>0, <1>3, <1>4, <1>5
     DEF TurnsInv, Unbegun, Begun, Prompting, Counting, Answered, Requesting, Dispatching,
         CallsAnswered
<1> QED
  BY <1>1, <1>2, <1>6

LEMMA CallLLMKeeps ==
    ASSUME ConversationInv, CallLLM
    PROVE  ConversationInv'
<1> USE DEF ConversationInv
<1> DEFINE r == Route(config, "chat")
<1>0. /\ at = "llm" /\ at' = "provider"
      /\ sent' = Request(r.provider, UsedModel(model, r.model), Compose(system), messages)
      /\ UNCHANGED <<config, client, named, system, model, messages, iteration, response>>
  BY DEF CallLLM
<1>1. r.provider \in Wanted(config) /\ r.provider \in Providers
  BY RoutesAreWanted DEF TypeOK
<1>2. /\ sent'.provider = r.provider /\ sent'.system = SystemParts(Compose(system), messages)
      /\ sent'.entries = Entries(r.provider, messages)
  BY <1>0 DEF Request
<1> HIDE DEF r
<1>3. Sayings'
  BY <1>0 DEF Sayings
<1>4. TypeOK'
  BY <1>0, <1>1, <1>2 DEF TypeOK
<1>5. Requesting'
  BY <1>0, <1>1, <1>2 DEF Requesting
<1>6. Settled(messages)
  BY <1>0 DEF TurnsInv, Answered
<1>7. Answered'
  BY <1>0, <1>6 DEF Answered, Settled
<1>8. CallsAnswered'
  <2>1. AnsweredFrom(Entries(r.provider, messages), Len(Entries(r.provider, client)))
    BY <1>1, <1>6 DEF Settled
  <2> QED
    BY <1>0, <1>2, <2>1 DEF CallsAnswered, OwnFrom, AnsweredFrom
<1>9. (Unbegun /\ Prompting /\ Counting /\ Dispatching)'
  BY <1>0 DEF TurnsInv, Unbegun, Begun, Prompting, Counting, Dispatching
<1> QED
  BY <1>3, <1>4, <1>5, <1>7, <1>8, <1>9 DEF TurnsInv

LEMMA LLMReturnsKeeps ==
    ASSUME ConversationInv, at = "provider",
           NEW raw \in RawAnswers(sent.provider), NEW words \in {NoText, <<"said", iteration + 1>>},
           LLMReturns(raw, words)
    PROVE  ConversationInv'
<1> USE DEF ConversationInv
<1> DEFINE uses == ToolUses(raw, iteration + 1)
           m == Message("assistant", words, uses, <<>>)
<1>0. /\ response' = uses /\ messages' = Append(messages, m)
      /\ at' = IF uses # <<>> /\ iteration + 1 < MaxIterations THEN "tools" ELSE "answered"
      /\ iteration' = iteration + 1
      /\ UNCHANGED <<config, client, named, system, model, sent>>
  BY DEF LLMReturns, RouteToTools
<1>1. sent.provider \in Providers /\ iteration \in Nat /\ iteration < MaxIterations
  <2>1. MaxIterations \in Nat
    BY ConversationAssumption
  <2> QED
    BY <2>1 DEF TurnsInv, Requesting, Counting, TypeOK
<1>2. uses \in Seq(Use) /\ Len(uses) <= MaxUses /\ DistinctUses(uses)
  <2>1. iteration + 1 \in Nat
    BY <1>1
  <2> HIDE DEF ConversationInv
  <2> QED
    BY <1>1, <2>1, UsesAreTyped
<1>3. words \in Texts
  <2>1. iteration + 1 \in Nat
    BY <1>1
  <2> QED
    BY <2>1 DEF Texts
<1> HIDE DEF uses
<1>4. m \in Msg /\ m.role = "assistant" /\ m.uses = uses
  <2>1. "assistant" \in {"system", "user", "assistant"} /\ <<>> \in Seq(Result)
    BY EmptySeq
  <2> QED
    BY <1>2, <1>3, <2>1 DEF Message, Msg, MessageOf
<1> HIDE DEF m
<1>5. messages \in Seq(Msg) /\ client \in Seq(Msg)
  BY DEF Sayings
<1>6. Sayings'
  BY <1>0, <1>4, <1>5 DEF Sayings
<1>7. TypeOK'
  <2>1. \A i \in DOMAIN messages' : messages'[i] \in MessageOf({messages'[i].text})
    BY <1>6, SaidIsTyped DEF Sayings
  <2>2. iteration + 1 \in 0 .. MaxIterations
    BY <1>1, ConversationAssumption
  <2> QED
    BY <1>0, <1>2, <2>1, <2>2 DEF TypeOK
<1>8. /\ Len(messages') = Len(messages) + 1 /\ messages' # <<>>
      /\ messages'[Len(messages')] = m
      /\ SubSeq(messages', 1, Len(messages') - 1) = messages
  BY <1>0, <1>4, <1>5
<1>9. Settled(messages)
  BY DEF TurnsInv, Answered
<1>10. Dispatching'
  <2>1. Settled(SubSeq(messages, 1, Len(messages) - 1))'
    BY <1>0, <1>8, <1>9 DEF Settled
  <2> QED
    BY <1>0, <1>2, <1>4, <1>8, <2>1 DEF Dispatching
<1>11. CallsAnswered'
  BY <1>0 DEF TurnsInv, CallsAnswered, OwnFrom
<1>12. (Unbegun /\ Prompting /\ Counting /\ Answered /\ Requesting)'
  BY <1>0 DEF TurnsInv, Unbegun, Begun, Prompting, Counting, Answered, Requesting
<1> QED
  BY <1>6, <1>7, <1>10, <1>11, <1>12 DEF TurnsInv

LEMMA DispatchKeeps ==
    ASSUME ConversationInv, DispatchTools
    PROVE  ConversationInv'
<1> USE DEF ConversationInv
<1> DEFINE u == Message("user", NoText, <<>>, ResultsFor(response))
           n == Len(messages)
           a == messages[n]
           ms == SubSeq(messages, 1, n - 1)
<1>0. /\ at = "tools" /\ at' = "llm" /\ messages' = Append(messages, u)
      /\ UNCHANGED <<config, client, named, system, model, iteration, response, sent>>
  BY DEF DispatchTools
<1>1. /\ messages # <<>> /\ a.role = "assistant" /\ a.uses = response
      /\ response # <<>> /\ DistinctUses(response) /\ Settled(ms)
  BY <1>0 DEF TurnsInv, Dispatching
<1>2. messages \in Seq(Msg) /\ client \in Seq(Msg) /\ response \in Seq(Use)
  BY DEF Sayings, TypeOK
<1>3. u \in Msg /\ u.role = "user" /\ u.text = NoText /\ u.results = ResultsFor(response)
  <2>1. "user" \in {"system", "user", "assistant"} /\ <<>> \in Seq(Use) /\ NoText \in Texts
    BY EmptySeq DEF Texts
  <2>2. ResultsFor(response) \in Seq(Result)
    BY <1>2, ResultsAreTyped
  <2> QED
    BY <2>1, <2>2 DEF Message, Msg, MessageOf
<1> HIDE DEF u
<1>4. ms \in Seq(Msg) /\ a \in Msg /\ messages = Append(ms, a)
  BY <1>1, <1>2
<1> HIDE DEF a, ms
<1>5. Sayings'
  BY <1>0, <1>2, <1>3 DEF Sayings
<1>6. TypeOK'
  <2>1. \A i \in DOMAIN messages' : messages'[i] \in MessageOf({messages'[i].text})
    BY <1>5, SaidIsTyped DEF Sayings
  <2> QED
    BY <1>0, <2>1 DEF TypeOK
<1>7. Answered'
  <2>1. ASSUME NEW p \in Providers
        PROVE  AnsweredFrom(Entries(p, messages'), Len(Entries(p, client)))
    <3>1. Len(Entries(p, client)) \in Nat
      BY <1>2, LengthOfEntries
    <3>2. AnsweredFrom(Entries(p, ms), Len(Entries(p, client)))
      BY <1>1 DEF Settled
    <3>3. DistinctUses(a.uses) /\ a.uses # <<>> /\ u.results = ResultsFor(a.uses)
      BY <1>1, <1>3
    <3>4. AnsweredFrom(Entries(p, Append(Append(ms, a), u)), Len(Entries(p, client)))
      BY <1>1, <1>3, <1>4, <3>1, <3>2, <3>3, TurnsAreAnswered
    <3> QED
      BY <1>0, <1>4, <3>4
  <2> QED
    BY <1>0, <2>1 DEF Answered, Settled
<1>8. CallsAnswered'
  BY <1>0 DEF TurnsInv, CallsAnswered, OwnFrom
<1>9. (Unbegun /\ Prompting /\ Counting /\ Requesting /\ Dispatching)'
  BY <1>0 DEF TurnsInv, Unbegun, Begun, Prompting, Counting, Requesting, Dispatching
<1> QED
  BY <1>5, <1>6, <1>7, <1>8, <1>9 DEF TurnsInv

\* Praetor starts or refuses to, or a decision ends: nothing else moves.
LEMMA OnlyTheMomentMoves ==
    ASSUME ConversationInv,
           \/ at = "off" /\ at' \in {"idle", "refused"}
           \/ at \in {"provider", "tools"} /\ at' = "failed",
           UNCHANGED <<config, client, named, system, model, messages, iteration, response, sent>>
    PROVE  ConversationInv'
<1>1. TypeOK' /\ Sayings'
  BY DEF ConversationInv, TypeOK, Sayings
<1>2. (Unbegun /\ Prompting /\ Counting /\ Answered /\ Requesting /\ Dispatching)'
  BY DEF ConversationInv, TurnsInv, Unbegun, Begun, Prompting, Counting, Answered, Requesting,
         Dispatching
<1>3. CallsAnswered'
  BY DEF ConversationInv, TurnsInv, CallsAnswered, OwnFrom
<1> QED
  BY <1>1, <1>2, <1>3 DEF ConversationInv, TurnsInv

LEMMA ConversationStutters ==
    ASSUME ConversationInv, UNCHANGED vars
    PROVE  ConversationInv'
<1> USE DEF vars
<1>1. TypeOK' /\ Sayings'
  BY DEF ConversationInv, TypeOK, Sayings
<1>2. (Unbegun /\ Prompting /\ Counting /\ Requesting)'
  BY DEF ConversationInv, TurnsInv, Unbegun, Begun, Prompting, Counting, Requesting
<1>3. (Answered /\ Dispatching /\ CallsAnswered)'
  BY DEF ConversationInv, TurnsInv, Answered, Dispatching, Settled, CallsAnswered, OwnFrom
<1> QED
  BY <1>1, <1>2, <1>3 DEF ConversationInv, TurnsInv

LEMMA ConversationStep == ConversationInv /\ [Next]_vars => ConversationInv'
<1> SUFFICES ASSUME ConversationInv, [Next]_vars
             PROVE  ConversationInv'
  OBVIOUS
<1>1. CASE Boot
  BY <1>1, OnlyTheMomentMoves DEF Boot
<1>2. CASE Chat
  <2>1. PICK ms \in Chats, m \in Overrides :
           Begin(ms, <<"operator">>, UsedModel(m, config.model)) /\ named' = m
    BY <1>2 DEF Chat
  <2>2. ms \in Seq(Msg) /\ UsedModel(m, config.model) \in Overrides \cup {NoModel, config.model}
    BY ChatsAreTyped DEF UsedModel
  <2> QED
    BY <2>1, <2>2, BeginKeeps
<1>3. CASE Fire
  <2>1. Begin(<<Prompted>>, ComposeProactive(<<"operator">>), config.model) /\ named' = NoModel
    BY <1>3 DEF Fire
  <2> QED
    BY <2>1, PromptIsTyped, BeginKeeps
<1>4. CASE CallLLM
  BY <1>4, CallLLMKeeps
<1>5. CASE Answer
  BY <1>5, LLMReturnsKeeps DEF Answer
<1>6. CASE LLMFails
  BY <1>6, OnlyTheMomentMoves DEF LLMFails
<1>7. CASE DispatchTools
  BY <1>7, DispatchKeeps
<1>8. CASE DispatchFails
  BY <1>8, OnlyTheMomentMoves DEF DispatchFails
<1>9. CASE UNCHANGED vars
  BY <1>9, ConversationStutters
<1> QED
  BY <1>1, <1>2, <1>3, <1>4, <1>5, <1>6, <1>7, <1>8, <1>9 DEF Next

LEMMA ConversationInvHolds == Spec => []ConversationInv
  BY ConversationBegins, ConversationStep, PTL DEF Spec

-----------------------------------------------------------------------------
LEMMA SystemTextsAreTyped ==
    ASSUME NEW ms \in Seq(Msg)
    PROVE  FlattenSeq(Each(SystemText, ms)) \in Seq(Texts)
<1>1. \A m \in Msg : SystemText(m) \in Seq(Texts)
  <2>1. \A m \in Msg : m.text \in Texts
    BY MessageIsTyped
  <2>2. \A t \in Texts : <<t>> \in Seq(Texts)
    OBVIOUS
  <2> QED
    BY <2>1, <2>2, EmptySeq DEF SystemText
<1>2. DOMAIN ms = 1 .. Len(ms) /\ Len(ms) \in Nat /\ \A i \in 1 .. Len(ms) : ms[i] \in Msg
  OBVIOUS
<1>3. \A i \in 1 .. Len(ms) : SystemText(ms[i]) \in Seq(Texts)
  BY <1>1, <1>2
<1>4. Each(SystemText, ms) \in Seq(Seq(Texts))
  BY <1>2, <1>3 DEF Each
<1> QED
  BY <1>4, FlattenType

\* Whatever a client's system messages say comes behind what the caller composed.
LEMMA ComposedFirst ==
    ASSUME NEW parts \in {<<"operator">>, ComposeProactive(<<"operator">>)}, NEW ms \in Seq(Msg)
    PROVE  LET s == SystemParts(Compose(parts), ms) IN
           /\ Head(s) = "preamble"
           /\ \E n \in 1 .. Len(s) :
                 /\ s[n] = "operator"
                 /\ \A i \in 1 .. Len(s) :
                       s[i] \notin {"preamble", "proactive", "operator"} => i > n
<1> DEFINE front == Compose(parts)
           rest == FlattenSeq(Each(SystemText, ms))
           s == front \o rest
           Words == {"preamble", "proactive", "operator"}
<1>1. PICK n \in {2, 4} :
         /\ front \in Seq(Words) /\ Len(front) = n
         /\ front[1] = "preamble" /\ front[n] = "operator"
  <2>0. \A w \in Words : <<w>> \in Seq(Words)
    OBVIOUS
  <2>1. CASE parts = <<"operator">>
    <3>1. front = <<"preamble">> \o <<"operator">>
      BY <2>1 DEF Compose
    <3>2. front \in Seq(Words) /\ Len(front) = 2 /\ front[1] = "preamble" /\ front[2] = "operator"
      <4> HIDE DEF front
      <4> QED
        BY <2>0, <3>1
    <3> QED
      BY <3>2
  <2>2. CASE parts = ComposeProactive(<<"operator">>)
    <3>1. front = <<"preamble">> \o (<<"preamble", "proactive">> \o <<"operator">>)
      BY <2>2 DEF Compose, ComposeProactive
    <3>2. <<"preamble", "proactive">> \in Seq(Words)
      OBVIOUS
    <3>3. front \in Seq(Words) /\ Len(front) = 4 /\ front[1] = "preamble" /\ front[4] = "operator"
      <4> HIDE DEF front
      <4> QED
        BY <2>0, <3>1, <3>2
    <3> QED
      BY <3>3
  <2> QED
    BY <2>1, <2>2
<1>2. rest \in Seq(Texts)
  BY SystemTextsAreTyped
<1>3. SystemParts(Compose(parts), ms) = s
  BY DEF SystemParts
<1> HIDE DEF front, rest
<1>4. /\ Len(front) \in Nat /\ Len(rest) \in Nat /\ Len(s) = Len(front) + Len(rest)
      /\ s \in Seq(Words \cup Texts)
      /\ \A i \in 1 .. Len(front) : s[i] = front[i]
  <2>1. front \in Seq(Words \cup Texts) /\ rest \in Seq(Words \cup Texts)
    <3>1. Seq(Words) \subseteq Seq(Words \cup Texts) /\ Seq(Texts) \subseteq Seq(Words \cup Texts)
      BY SequencesOfMore
    <3> QED
      BY <1>1, <1>2, <3>1
  <2> QED
    BY <2>1
<1> HIDE DEF s
<1>5. Head(s) = "preamble"
  <2>1. s # <<>> /\ 1 \in 1 .. Len(front)
    BY <1>1, <1>4
  <2> QED
    BY <1>1, <1>4, <2>1
<1>6. n \in 1 .. Len(s) /\ s[n] = "operator"
  BY <1>1, <1>4
<1>7. ASSUME NEW i \in 1 .. Len(s), s[i] \notin Words
      PROVE  i > n
  <2>1. \A k \in 1 .. n : s[k] \in Words
    BY <1>1, <1>4
  <2> QED
    BY <1>7, <2>1
<1> QED
  BY <1>3, <1>5, <1>6, <1>7

LEMMA NothingLostThere == ConversationInv => NothingLost
<1> SUFFICES ASSUME ConversationInv, at = "provider"
             PROVE  /\ TextsSent(sent.entries) = TextsOf(messages)
                    /\ Head(sent.system) = "preamble"
                    /\ \E n \in 1 .. Len(sent.system) :
                          /\ sent.system[n] = "operator"
                          /\ \A i \in 1 .. Len(sent.system) :
                                sent.system[i] \notin {"preamble", "proactive", "operator"} => i > n
  BY DEF NothingLost
<1>1. /\ sent.provider \in Providers /\ sent.entries = Entries(sent.provider, messages)
      /\ sent.system = SystemParts(Compose(system), messages)
  BY DEF ConversationInv, TurnsInv, Requesting
<1>2. messages \in Seq(Msg) /\ system \in {<<"operator">>, ComposeProactive(<<"operator">>)}
  BY DEF ConversationInv, TurnsInv, Prompting, Begun, Sayings
<1>3. TextsSent(sent.entries) = TextsOf(messages)
  BY <1>1, <1>2, TranslationKeepsTexts
<1> DEFINE s == sent.system
<1>4. /\ Head(s) = "preamble"
      /\ \E n \in 1 .. Len(s) :
            /\ s[n] = "operator"
            /\ \A i \in 1 .. Len(s) : s[i] \notin {"preamble", "proactive", "operator"} => i > n
  BY <1>1, <1>2, ComposedFirst
<1> QED
  BY <1>3, <1>4

-----------------------------------------------------------------------------
\* A conversation's variables hold what the program can put there.
THEOREM ConversationTypeCorrect == Spec => []TypeOK
<1>1. ConversationInv => TypeOK
  BY DEF ConversationInv
<1> QED
  BY <1>1, ConversationInvHolds, PTL

\* Whatever the providers' servers answer and clients post, and in every dialect, a
\* request shows each tool use of the decision with its own result right behind it.
THEOREM EveryCallIsAnswered == Spec => []CallsAnswered
<1>1. ConversationInv => CallsAnswered
  BY DEF ConversationInv, TurnsInv
<1> QED
  BY <1>1, ConversationInvHolds, PTL

\* No request loses or reorders a text, and all begin with the safety preamble.
THEOREM NothingIsLost == Spec => []NothingLost
  BY NothingLostThere, ConversationInvHolds, PTL
=============================================================================
