-------------------------------- MODULE Login --------------------------------
(***************************************************************************)
(* The dashboard's login: POST /dashboard/login and /dashboard/logout      *)
(* (caesar/praetor/dashboard/routes.py) with LoginRateLimiter              *)
(* (rate_limit.py), a sliding window of failures per client address.       *)
(*                                                                         *)
(* The handler awaits nothing, so it is one step, but it reads the clock   *)
(* twice: once in check(), once more in record_failure() or                *)
(* retry_after_seconds().  Time is counted in parts of a second.           *)
(***************************************************************************)
EXTENDS Integers, Sequences

CONSTANTS
    Addresses,    \* client addresses
    MaxFailures,  \* LoginRateLimiter's max_failures
    Window,       \* window_seconds, in ticks
    Second,       \* ticks per second
    MaxTime,      \* bound on the clock
    Never         \* no time was told

ASSUME LoginAssumption ==
    /\ MaxFailures \in Nat \ {0} /\ Window \in Nat
    /\ Second \in Nat \ {0}
    /\ MaxTime \in Nat /\ Never \notin Nat

VARIABLES
    now,        \* time.monotonic()
    failures,   \* per address: _failures, its deque
    signedIn,   \* the addresses whose browser holds a session cookie
    told,       \* history, per address: the end of the last Retry-After
    recorded    \* history, per address: all failures this process recorded

loginVars == <<now, failures, signedIn, told, recorded>>

LoginInit ==
    /\ now = 0
    /\ failures = [a \in Addresses |-> <<>>]
    /\ signedIn \in SUBSET Addresses
    /\ told = [a \in Addresses |-> Never]
    /\ recorded = [a \in Addresses |-> <<>>]

-----------------------------------------------------------------------------
\* slip: a failure as old as the window is dropped
LeadingInclusive(bucket, t) ==
    {n \in 0 .. Len(bucket) : \A i \in 1 .. n : t - bucket[i] >= Window}

\* How many failures _prune() may pop from the left, one after the other.
Leading(bucket, t) ==
    {n \in 0 .. Len(bucket) : \A i \in 1 .. n : t - bucket[i] > Window}

Popped(bucket, t) ==
    CHOOSE n \in Leading(bucket, t) : \A m \in Leading(bucket, t) : m <= n

Prune(bucket, t) == SubSeq(bucket, Popped(bucket, t) + 1, Len(bucket))

HasRoom(a, t) == Len(Prune(failures[a], t)) < MaxFailures

\* retry_after_seconds(), on a pruned bucket.
Rest(bucket, t) ==
    IF Len(bucket) < MaxFailures THEN 0 ELSE Window - (t - bucket[1])

\* int(rest) + 1 seconds.
RetryAfter(rest) == ((rest \div Second) + 1) * Second

\* The second reading of the clock.
Later == {t \in {now, now + 1} : t <= MaxTime}

-----------------------------------------------------------------------------
(***************************************************************************)
(* post_login: 429, 401, 303 and 500.                                      *)
(***************************************************************************)
Refuse(a) ==
    /\ ~ HasRoom(a, now)
    /\ \E t \in Later :
          /\ failures' = [failures EXCEPT ![a] = Prune(@, t)]
          /\ told' = [told EXCEPT ![a] = t + RetryAfter(Rest(Prune(failures[a], t), t))]
          /\ now' = t
    /\ UNCHANGED <<signedIn, recorded>>

\* What was told ends with a failure of somebody else at the address.
FailLogin(a) ==
    /\ HasRoom(a, now)
    /\ \E t \in Later :
          /\ failures' = [failures EXCEPT ![a] = Append(Prune(@, t), t)]
          /\ recorded' = [recorded EXCEPT ![a] = Append(@, t)]
          /\ now' = t
    /\ told' = [told EXCEPT ![a] = Never]
    /\ UNCHANGED signedIn

PassLogin(a) ==
    /\ HasRoom(a, now)
    /\ failures' = [failures EXCEPT ![a] = Prune(@, now)]
    /\ signedIn' = signedIn \cup {a}
    /\ UNCHANGED <<now, told, recorded>>

\* The comparison of the tokens raises for text that is not ASCII: 500, and no failure.
CompareRaises(a) ==
    /\ HasRoom(a, now)
    /\ failures' = [failures EXCEPT ![a] = Prune(@, now)]
    /\ UNCHANGED <<now, signedIn, told, recorded>>

Logout(a) ==
    /\ signedIn' = signedIn \ {a}
    /\ UNCHANGED <<now, failures, told, recorded>>

Tick ==
    /\ now < MaxTime
    /\ now' = now + 1
    /\ UNCHANGED <<failures, signedIn, told, recorded>>

\* The limiter lives in the process; the cookies and the clock do not.  An operator who
\* changes the key the cookies are signed with ends every session.
LoginRestart ==
    /\ failures' = [a \in Addresses |-> <<>>]
    /\ recorded' = [a \in Addresses |-> <<>>]
    /\ signedIn' \in {signedIn, {}}
    /\ UNCHANGED <<now, told>>

Visit(a) == Refuse(a) \/ FailLogin(a) \/ PassLogin(a) \/ CompareRaises(a) \/ Logout(a)

LoginNext == Tick \/ LoginRestart \/ \E a \in Addresses : Visit(a)

LoginSpec == LoginInit /\ [][LoginNext]_loginVars

-----------------------------------------------------------------------------
LoginTypeOK ==
    /\ now \in 0 .. MaxTime
    /\ failures \in [Addresses -> Seq(0 .. MaxTime)]
    /\ signedIn \subseteq Addresses
    /\ told \in [Addresses -> Nat \cup {Never}]
    /\ recorded \in [Addresses -> Seq(0 .. MaxTime)]

\* No window of any position holds more than MaxFailures failures of one address.
AtMostInWindow ==
    \A a \in Addresses : \A i, j \in DOMAIN recorded[a] :
        j = i + MaxFailures => recorded[a][j] - recorded[a][i] > Window

\* Whoever waits as long as the Retry-After said is let try again, unless another
\* attempt from the address failed in the meantime.
WaitIsEnough ==
    \A a \in Addresses : told[a] # Never /\ now >= told[a] => HasRoom(a, now)

\* check(), record_failure() and retry_after_seconds() agree at the edges of the window
\* (rate_limit.py:1-15), whatever passes between two readings of the clock.
LoginThrottled == AtMostInWindow /\ WaitIsEnough
=============================================================================
