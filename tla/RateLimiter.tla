----------------------------- MODULE RateLimiter -----------------------------
(***************************************************************************)
(* The fixed window limiter in front of the API: one counter per key       *)
(* (a credential, an address, an operation of a credential), in the memory *)
(* of one process.  Time is that of the process's clock, which is taken to *)
(* be monotonic; a second is Second of its ticks.                          *)
(***************************************************************************)
EXTENDS Integers, FiniteSets

CONSTANTS
  Keys,           \* the keys attempts are counted under
  Limit,          \* options.limit
  WindowSeconds,  \* options.windowSeconds
  Second,         \* ticks of the clock in a second
  Horizon,        \* bound on time
  MaxAttempts,    \* bound on the attempts of a key that are allowed
  Nil             \* undefined

AtLeastOne(n) == IF n < 1 THEN 1 ELSE n
Window == AtLeastOne(WindowSeconds) * Second
Budget == AtLeastOne(Limit)

WindowState == [start: 0..Horizon, count: 1..Budget]
Refusal == [at: 0..Horizon, retryAfterSeconds: Nat, start: 0..Horizon]

ASSUME RateLimiterAssumption ==
  /\ {Limit, WindowSeconds, Horizon, MaxAttempts} \subseteq Nat
  /\ Second \in Nat \ {0}
  /\ Nil \notin Keys \union WindowState \union Refusal

VARIABLES
  now,
  windows,  \* windows[k]: the window of key k
  allowed,  \* history: the attempts that were allowed, numbered
  refused   \* history: the last refusal of each key and the delay it was told

rlVars == <<now, windows, allowed, refused>>

Attempt == [key: Keys, no: 1..MaxAttempts, at: 0..Horizon]

RlTypeOK ==
  /\ now \in 0..Horizon
  /\ windows \in [Keys -> WindowState \union {Nil}]
  /\ allowed \subseteq Attempt
  /\ refused \in [Keys -> Refusal \union {Nil}]

RlInit ==
  /\ now = 0
  /\ windows = [k \in Keys |-> Nil]
  /\ allowed = {}
  /\ refused = [k \in Keys |-> Nil]

-----------------------------------------------------------------------------

AllowedOf(k) == {a \in allowed : a.key = k}

Allow(k) ==
  LET no == Cardinality(AllowedOf(k)) + 1 IN
  /\ no \in 1..MaxAttempts
  /\ allowed' = allowed \union {[key |-> k, no |-> no, at |-> now]}

Tick ==
  /\ now < Horizon
  /\ now' = now + 1
  /\ UNCHANGED <<windows, allowed, refused>>

\* Mutant: the window is over one tick early.
OverEarly(k) == IF windows[k] = Nil THEN TRUE ELSE now - windows[k].start >= Window - 1

Over(k) == IF windows[k] = Nil THEN TRUE ELSE now - windows[k].start >= Window

\* The first attempt of a key, or the first after its window.
OpenWindow(k) ==
  /\ Over(k)
  /\ Allow(k)
  /\ windows' = [windows EXCEPT ![k] = [start |-> now, count |-> 1]]
  /\ UNCHANGED <<now, refused>>

CountAttempt(k) ==
  /\ ~Over(k)
  /\ windows[k].count < Budget
  /\ Allow(k)
  /\ windows' = [windows EXCEPT ![k].count = @ + 1]
  /\ UNCHANGED <<now, refused>>

\* Math.max(1, Math.ceil(ticks / Second)).
Seconds(ticks) == AtLeastOne((ticks + Second - 1) \div Second)

Refused(k) ==
  [at |-> now, retryAfterSeconds |-> Seconds(Window - (now - windows[k].start)),
   start |-> windows[k].start]

Refuse(k) ==
  /\ ~Over(k)
  /\ windows[k].count >= Budget
  /\ refused' = [refused EXCEPT ![k] = Refused(k)]
  /\ UNCHANGED <<now, windows, allowed>>

RlNext ==
  \/ Tick
  \/ \E k \in Keys : OpenWindow(k) \/ CountAttempt(k) \/ Refuse(k)

RlSpec == RlInit /\ [][RlNext]_rlVars

-----------------------------------------------------------------------------
(* Properties                                                              *)

Between(k, t, u) == {a \in AllowedOf(k) : t <= a.at /\ a.at < u}

\* The worst case of a fixed window: a burst across its boundary.  No span as
\* long as a window holds twice the limit.
BurstIsBounded ==
  \A k \in Keys, t \in 0..Horizon : Cardinality(Between(k, t, t + Window)) < 2 * Budget

\* A key is refused only if it spent its budget within the last window, so
\* that attempts that are refused do not prolong the refusal.
RefusedHavingSpent ==
  \A k \in Keys : refused[k] # Nil =>
    Cardinality(Between(k, refused[k].at - Window + 1, refused[k].at + 1)) >= Budget

\* The delay a refusal tells is enough for the window to be over, and not a
\* whole second more.
RetryHintIsHonest ==
  \A k \in Keys : refused[k] # Nil =>
    LET over == refused[k].start + Window
        told == refused[k].at + refused[k].retryAfterSeconds * Second
    IN over <= told /\ told < over + Second
=============================================================================
