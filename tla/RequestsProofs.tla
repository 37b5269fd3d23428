---------------------------- MODULE RequestsProofs ----------------------------
(***************************************************************************)
(* Proofs about the requests to the API, for any number of requests at a   *)
(* time and of keys, any limit, window and time to live.                   *)
(*                                                                         *)
(* LimiterInv relates the counter of a key to the attempts it allowed;     *)
(* StatusInv says how old the status of the store is, wherever it is; and  *)
(* RequestInv says what a request knows at each of its awaits.             *)
(***************************************************************************)
EXTENDS Requests, FiniteSetTheorems, TLAPS

-----------------------------------------------------------------------------
(* The limiter                                                             *)

\* The attempts of the window of k that began at start.
Since(k, start) == {a \in AllowedOf(k) : start <= a.at}

\* Those before it that a span of a window's length could share with it.
Before(k, start) == {a \in AllowedOf(k) : start - Window < a.at /\ a.at < start}

\* The attempts of a key are numbered, and none is in the future.
Numbered ==
  \A k \in Keys :
    /\ IsFiniteSet(AllowedOf(k))
    /\ \A a \in AllowedOf(k) : a.no <= Cardinality(AllowedOf(k)) /\ a.at <= now

\* The window began with an attempt, counts those since, and the span before
\* it holds less than the budget: whatever filled the window before it began
\* at least a window's length earlier.
Counted ==
  \A k \in Keys :
    IF windows[k] = Nil THEN AllowedOf(k) = {}
    ELSE LET start == windows[k].start IN
      /\ start <= now
      /\ \E a \in AllowedOf(k) : a.at = start
      /\ \A a \in AllowedOf(k) : a.at < start + Window
      /\ Cardinality(Since(k, start)) = windows[k].count
      /\ Cardinality(Before(k, start)) < Budget

LimiterInv ==
  /\ RlTypeOK
  /\ Numbered
  /\ Counted
  /\ BurstIsBounded
  /\ RefusedHavingSpent
  /\ RetryHintIsHonest

LEMMA WindowMeasures == Window \in Nat \ {0} /\ Budget \in Nat \ {0} /\ Window >= Second
<1>1. AtLeastOne(WindowSeconds) \in Nat \ {0} /\ AtLeastOne(Limit) \in Nat \ {0}
  BY RateLimiterAssumption DEF AtLeastOne
<1>2. \A n, d \in Nat \ {0} : n * d \in Nat \ {0} /\ n * d >= d
  <2> SUFFICES ASSUME NEW n \in Nat, NEW d \in Nat, n # 0, d # 0
               PROVE  n * d \in Nat /\ n * d # 0 /\ n * d >= d
    OBVIOUS
  <2>1. n * d = d + (n - 1) * d /\ (n - 1) * d >= 0 /\ n * d \in Int
    OBVIOUS
  <2> QED BY <2>1
<1> QED BY <1>1, <1>2, RateLimiterAssumption DEF Window, Budget

LEMMA QuotientBounds ==
  ASSUME NEW n \in Nat, NEW d \in Nat \ {0}, n + d - 1 >= d
  PROVE  LET q == (n + d - 1) \div d IN q \in Nat \ {0} /\ n <= q * d /\ q * d < n + d
<1> DEFINE m == n + d - 1
           q == m \div d
<1>1. m \in Nat /\ q \in Int
  BY Z3
<1>2. m = q * d + (m % d) /\ m % d \in 0..(d - 1)
  BY <1>1, Z3
<1>3. q > 0
  <2> SUFFICES ASSUME q <= 0 PROVE FALSE
    BY <1>1
  <2>1. q * d <= 0
    BY <1>1, Z3
  <2> QED BY <1>1, <1>2, <2>1, Z3
<1> QED BY <1>1, <1>2, <1>3, Z3

\* What the invariants say of the attempts of one key.
LEMMA AttemptsOfKey ==
  ASSUME LimiterInv, NEW k \in Keys
  PROVE  /\ AllowedOf(k) \subseteq allowed
         /\ \A a \in AllowedOf(k) : a \in Attempt /\ a.key = k /\ a.at \in 0..Horizon /\ a.no \in Nat
         /\ now \in 0..Horizon
         /\ IsFiniteSet(AllowedOf(k))
         /\ Cardinality(AllowedOf(k)) \in Nat
BY FS_CardinalityType DEF LimiterInv, RlTypeOK, AllowedOf, Attempt, Numbered

LEMMA WindowOfKey ==
  ASSUME LimiterInv, NEW k \in Keys, windows[k] # Nil
  PROVE  /\ windows[k] \in WindowState
         /\ windows[k].start \in 0..Horizon /\ windows[k].count \in 1..Budget
BY DEF LimiterInv, RlTypeOK, WindowState

\* An attempt that is allowed is a new one, and is the only change.
LEMMA AllowAdds ==
  ASSUME LimiterInv, NEW k \in Keys, Allow(k), now' = now
  PROVE  \E a \in Attempt :
           /\ a.key = k /\ a.at = now /\ a \notin allowed
           /\ allowed' = allowed \union {a}
           /\ AllowedOf(k)' = AllowedOf(k) \union {a}
           /\ \A o \in Keys \ {k} : AllowedOf(o)' = AllowedOf(o)
           /\ Numbered'
<1> DEFINE a == [key |-> k, no |-> Cardinality(AllowedOf(k)) + 1, at |-> now]
<1>0. now \in 0..Horizon
  BY DEF LimiterInv, RlTypeOK
<1>1. a \in Attempt /\ allowed' = allowed \union {a}
  BY <1>0 DEF Allow, Attempt
<1>2. a.key = k /\ a.at = now /\ a.no = Cardinality(AllowedOf(k)) + 1
  OBVIOUS
<1> HIDE DEF a
<1>3. a \notin allowed
  BY <1>1, <1>2, AttemptsOfKey DEF LimiterInv, Numbered, AllowedOf
<1>4. AllowedOf(k)' = AllowedOf(k) \union {a} /\ \A o \in Keys \ {k} : AllowedOf(o)' = AllowedOf(o)
  BY <1>1, <1>2 DEF AllowedOf
<1>5. IsFiniteSet(AllowedOf(k)') /\ Cardinality(AllowedOf(k)') = Cardinality(AllowedOf(k)) + 1
  BY <1>3, <1>4, FS_AddElement, AttemptsOfKey DEF AllowedOf
<1>6. \A b \in AllowedOf(k)' : b.no <= Cardinality(AllowedOf(k)') /\ b.at <= now'
  <2> TAKE b \in AllowedOf(k)'
  <2>1. CASE b = a
    BY <2>1, <1>0, <1>2, <1>5, AttemptsOfKey
  <2>2. CASE b \in AllowedOf(k)
    BY <2>2, <1>5, AttemptsOfKey DEF LimiterInv, Numbered
  <2> QED BY <2>1, <2>2, <1>4
<1>7. Numbered'
  <2> SUFFICES ASSUME NEW o \in Keys
               PROVE  (/\ IsFiniteSet(AllowedOf(o))
                       /\ \A b \in AllowedOf(o) : b.no <= Cardinality(AllowedOf(o)) /\ b.at <= now)'
    BY DEF Numbered
  <2>1. CASE o = k
    BY <2>1, <1>5, <1>6
  <2>2. CASE o # k
    BY <2>2, <1>4 DEF LimiterInv, Numbered
  <2> QED BY <2>1, <2>2
<1> QED BY <1>1, <1>2, <1>3, <1>4, <1>7

\* A span of a window's length meets two windows at most, the one before the
\* last without its first attempt: less than twice the budget.
LEMMA TwoWindows ==
  ASSUME NEW A, IsFiniteSet(A), NEW n \in Nat, \A a \in A : a.at \in Nat /\ a.at <= n,
         NEW start \in Nat, start <= n,
         NEW t \in Nat, t <= n, n < t + Window,
         Cardinality({a \in A : start <= a.at}) <= Budget,
         Cardinality({a \in A : start - Window < a.at /\ a.at < start}) < Budget
  PROVE  Cardinality({a \in A : t <= a.at /\ a.at < t + Window}) < 2 * Budget
<1> DEFINE S == {a \in A : start <= a.at}
           B == {a \in A : start - Window < a.at /\ a.at < start}
           T == {a \in A : t <= a.at /\ a.at < t + Window}
<1>1. IsFiniteSet(S) /\ IsFiniteSet(B) /\ Cardinality(S) \in Nat /\ Cardinality(B) \in Nat
  BY FS_Subset, FS_CardinalityType
<1>2. T \subseteq S \union B
  BY WindowMeasures
<1>3. /\ IsFiniteSet(S \union B)
      /\ Cardinality(S \union B) = Cardinality(S) + Cardinality(B) - Cardinality(S \cap B)
  BY <1>1, FS_Union
<1>4. Cardinality(S \cap B) \in Nat
  BY <1>1, FS_Intersection, FS_CardinalityType
<1>5. Cardinality(T) <= Cardinality(S \union B) /\ Cardinality(T) \in Nat
  BY <1>2, <1>3, FS_Subset, FS_CardinalityType
<1>6. Cardinality(S) <= Budget /\ Cardinality(B) < Budget
  OBVIOUS
<1> HIDE DEF S, B, T
<1>7. Cardinality(T) < 2 * Budget
  BY <1>1, <1>3, <1>4, <1>5, <1>6, WindowMeasures
<1> QED BY <1>7 DEF T

\* A span of attempts of a key only grows, and only if it holds the present.
LEMMA SpanGrows ==
  ASSUME LimiterInv, NEW k \in Keys, NEW a, a.at = now, now' = now,
         AllowedOf(k)' = AllowedOf(k) \union {a},
         NEW t \in Int, NEW u \in Int
  PROVE  /\ Between(k, t, u)' = IF t <= now /\ now < u THEN Between(k, t, u) \union {a} ELSE Between(k, t, u)
         /\ Between(k, t, u) \subseteq Between(k, t, u)'
BY DEF Between

LEMMA BetweenIsFinite ==
  ASSUME LimiterInv, NEW k \in Keys, NEW t, NEW u
  PROVE  IsFiniteSet(Between(k, t, u)) /\ Cardinality(Between(k, t, u)) \in Nat
BY AttemptsOfKey, FS_Subset, FS_CardinalityType DEF Between

\* Once the counter of k is right again, so is the rest.
LEMMA AllowKeepsInv ==
  ASSUME LimiterInv, NEW k \in Keys, Allow(k), UNCHANGED <<now, refused>>,
         NEW w \in WindowState, windows' = [windows EXCEPT ![k] = w],
         w.start <= now,
         \E a \in AllowedOf(k)' : a.at = w.start,
         \A a \in AllowedOf(k)' : a.at < w.start + Window,
         Cardinality({a \in AllowedOf(k)' : w.start <= a.at}) = w.count,
         Cardinality({a \in AllowedOf(k)' : w.start - Window < a.at /\ a.at < w.start}) < Budget
  PROVE  LimiterInv'
<1> PICK a \in Attempt :
      /\ a.key = k /\ a.at = now /\ a \notin allowed
      /\ allowed' = allowed \union {a}
      /\ AllowedOf(k)' = AllowedOf(k) \union {a}
      /\ \A o \in Keys \ {k} : AllowedOf(o)' = AllowedOf(o)
      /\ Numbered'
  BY AllowAdds
<1>0. now \in Nat /\ w.start \in Nat /\ w.count \in 1..Budget /\ w # Nil
  BY RateLimiterAssumption DEF LimiterInv, RlTypeOK, WindowState
<1>1. RlTypeOK'
  BY DEF LimiterInv, RlTypeOK
<1>2. windows'[k] = w /\ \A o \in Keys \ {k} : windows'[o] = windows[o]
  BY DEF LimiterInv, RlTypeOK
<1>3. Counted'
  <2> SUFFICES ASSUME NEW o \in Keys
               PROVE  (IF windows[o] = Nil THEN AllowedOf(o) = {}
                       ELSE LET start == windows[o].start IN
                         /\ start <= now
                         /\ \E b \in AllowedOf(o) : b.at = start
                         /\ \A b \in AllowedOf(o) : b.at < start + Window
                         /\ Cardinality(Since(o, start)) = windows[o].count
                         /\ Cardinality(Before(o, start)) < Budget)'
    BY DEF Counted
  <2>1. CASE o = k
    BY <2>1, <1>0, <1>2 DEF Since, Before
  <2>2. CASE o # k
    <3>1. windows'[o] = windows[o] /\ AllowedOf(o)' = AllowedOf(o)
      BY <2>2, <1>2
    <3>2. \A s : Since(o, s)' = Since(o, s) /\ Before(o, s)' = Before(o, s)
      BY <3>1 DEF Since, Before
    <3> QED BY <3>1, <3>2 DEF LimiterInv, Counted
  <2> QED BY <2>1, <2>2
<1>4. BurstIsBounded'
  <2> SUFFICES ASSUME NEW o \in Keys, NEW t \in 0..Horizon
               PROVE  Cardinality(Between(o, t, t + Window)') < 2 * Budget
    BY DEF BurstIsBounded
  <2>0. t \in Nat /\ t + Window \in Int
    BY WindowMeasures, RateLimiterAssumption
  <2>1. CASE o = k /\ t <= now /\ now < t + Window
    <3>1. IsFiniteSet(AllowedOf(k)') /\ \A b \in AllowedOf(k)' : b.at \in Nat /\ b.at <= now
      <4> SUFFICES ASSUME NEW b \in AllowedOf(k)'
                   PROVE  b.at \in Nat /\ b.at <= now
        BY DEF Numbered
      <4>1. CASE b = a
        BY <4>1, <1>0
      <4>2. CASE b \in AllowedOf(k)
        BY <4>2, AttemptsOfKey, RateLimiterAssumption DEF LimiterInv, Numbered
      <4> QED BY <4>1, <4>2
    <3>2. Cardinality({b \in AllowedOf(k)' : w.start <= b.at}) <= Budget
      BY <1>0, WindowMeasures
    <3>3. Cardinality({b \in AllowedOf(k)' : t <= b.at /\ b.at < t + Window}) < 2 * Budget
      BY <2>0, <2>1, <3>1, <3>2, <1>0, TwoWindows
    <3> QED BY <2>1, <3>3 DEF Between
  <2>2. CASE ~(o = k /\ t <= now /\ now < t + Window)
    <3>1. Between(o, t, t + Window)' = Between(o, t, t + Window)
      BY <2>0, <2>2, SpanGrows DEF Between
    <3> QED BY <3>1 DEF LimiterInv, BurstIsBounded
  <2> QED BY <2>1, <2>2
<1>5. RefusedHavingSpent'
  <2>1. \A o \in Keys : \A t, u \in Int :
          Cardinality(Between(o, t, u)) >= Budget => Cardinality(Between(o, t, u)') >= Budget
    <3> SUFFICES ASSUME NEW o \in Keys, NEW t \in Int, NEW u \in Int,
                        Cardinality(Between(o, t, u)) >= Budget
                 PROVE  Cardinality(Between(o, t, u)') >= Budget
      OBVIOUS
    <3>1. CASE o # k
      BY <3>1 DEF Between
    <3>2. CASE o = k
      <4>1. Between(k, t, u) \subseteq Between(k, t, u)'
        BY SpanGrows
      <4>2. IsFiniteSet(Between(k, t, u)')
        BY FS_Subset DEF Between, Numbered
      <4>3. /\ Cardinality(Between(k, t, u)) <= Cardinality(Between(k, t, u)')
            /\ Cardinality(Between(k, t, u)') \in Nat
        BY <4>1, <4>2, FS_Subset, FS_CardinalityType
      <4>4. Cardinality(Between(k, t, u)') >= Budget
        BY <3>2, <4>3, BetweenIsFinite, WindowMeasures
      <4> QED BY <3>2, <4>4
    <3> QED BY <3>1, <3>2
  <2> SUFFICES ASSUME NEW o \in Keys, refused[o] # Nil
               PROVE  Cardinality(Between(o, refused[o].at - Window + 1, refused[o].at + 1)') >= Budget
    BY DEF RefusedHavingSpent
  <2>2. refused[o].at - Window + 1 \in Int /\ refused[o].at + 1 \in Int
    BY WindowMeasures DEF LimiterInv, RlTypeOK, Refusal
  <2>3. Cardinality(Between(o, refused[o].at - Window + 1, refused[o].at + 1)) >= Budget
    BY DEF LimiterInv, RefusedHavingSpent
  <2> QED BY <2>1, <2>2, <2>3 DEF Between
<1>6. RetryHintIsHonest'
  BY DEF LimiterInv, RetryHintIsHonest
<1> QED BY <1>1, <1>3, <1>4, <1>5, <1>6 DEF LimiterInv

LEMMA OpenWindowKeepsInv ==
  ASSUME LimiterInv, NEW k \in Keys, OpenWindow(k)
  PROVE  LimiterInv'
<1> DEFINE w == [start |-> now, count |-> 1]
<1>0. now \in 0..Horizon /\ Window \in Nat \ {0} /\ Budget \in Nat \ {0}
  BY WindowMeasures DEF LimiterInv, RlTypeOK
<1>1. w \in WindowState /\ w.start = now /\ w.count = 1
  BY <1>0 DEF WindowState
<1>2. windows' = [windows EXCEPT ![k] = w] /\ Allow(k) /\ Over(k) /\ UNCHANGED <<now, refused>>
  BY DEF OpenWindow
<1> HIDE DEF w
<1> PICK a \in Attempt :
      a.key = k /\ a.at = now /\ a \notin allowed /\ AllowedOf(k)' = AllowedOf(k) \union {a}
  BY <1>2, AllowAdds
\* The window that is over began with an attempt, and has none left.
<1>3. \A b \in AllowedOf(k) : b.at < now
  <2>1. CASE windows[k] = Nil
    BY <2>1 DEF LimiterInv, Counted
  <2>2. CASE windows[k] # Nil
    BY <2>2, <1>0, <1>2, AttemptsOfKey, WindowOfKey DEF LimiterInv, Counted, Over
  <2> QED BY <2>1, <2>2
<1>4. Cardinality({b \in AllowedOf(k)' : w.start <= b.at}) = w.count
  <2>1. {b \in AllowedOf(k)' : w.start <= b.at} = {a}
    BY <1>0, <1>1, <1>3, AttemptsOfKey
  <2> QED BY <1>1, <2>1, FS_Singleton
<1>5. Cardinality({b \in AllowedOf(k)' : w.start - Window < b.at /\ b.at < w.start}) < Budget
  <2> DEFINE B == {b \in AllowedOf(k) : now - Window < b.at /\ b.at < now}
  <2>1. {b \in AllowedOf(k)' : w.start - Window < b.at /\ b.at < w.start} = B
    BY <1>0, <1>1
  <2>2. CASE windows[k] = Nil
    <3>1. B = {}
      BY <2>2 DEF LimiterInv, Counted
    <3> HIDE DEF B
    <3>2. Cardinality(B) = 0
      BY <3>1, FS_EmptySet
    <3>3. 0 < Budget
      BY <1>0
    <3> QED BY <2>1, <3>2, <3>3
  <2>3. CASE windows[k] # Nil
    <3> DEFINE start == windows[k].start
               S == Since(k, start)
    <3>1. /\ start \in 0..Horizon /\ now - start >= Window
          /\ Cardinality(S) \in 1..Budget
      BY <2>3, <1>2, WindowOfKey DEF LimiterInv, Counted, Over
    <3>2. PICK first \in AllowedOf(k) : first.at = start
      BY <2>3 DEF LimiterInv, Counted
    <3>3. IsFiniteSet(S) /\ first \in S
      BY <3>1, <3>2, AttemptsOfKey, FS_Subset DEF Since
    <3>4. IsFiniteSet(S \ {first}) /\ Cardinality(S \ {first}) = Cardinality(S) - 1
      BY <3>3, FS_RemoveElement
    <3>5. B \subseteq S \ {first}
      BY <3>1, <3>2, <1>0, AttemptsOfKey DEF Since
    <3>6. Cardinality(B) <= Cardinality(S \ {first}) /\ Cardinality(B) \in Nat
      BY <3>4, <3>5, FS_Subset, FS_CardinalityType
    <3>7. Cardinality(B) < Budget
      BY <3>1, <3>4, <3>6, <1>0
    <3> HIDE DEF B
    <3> QED BY <2>1, <3>7
  <2> QED BY <2>2, <2>3
<1>6. \A b \in AllowedOf(k)' : b.at < w.start + Window
  BY <1>0, <1>1, <1>3, AttemptsOfKey
<1>7. (\E b \in AllowedOf(k)' : b.at = w.start) /\ w.start <= now
  BY <1>0, <1>1
<1> QED BY <1>1, <1>2, <1>4, <1>5, <1>6, <1>7, AllowKeepsInv

LEMMA CountAttemptKeepsInv ==
  ASSUME LimiterInv, NEW k \in Keys, CountAttempt(k)
  PROVE  LimiterInv'
<1> DEFINE w == [windows[k] EXCEPT !.count = @ + 1]
           start == windows[k].start
<1>0. /\ windows[k] # Nil /\ windows[k].count < Budget
      /\ Allow(k) /\ UNCHANGED <<now, refused>>
  BY DEF CountAttempt, Over
<1>1. windows' = [windows EXCEPT ![k] = w]
  BY DEF CountAttempt
<1>2. /\ now \in 0..Horizon /\ Window \in Nat \ {0} /\ Budget \in Nat \ {0}
      /\ start \in 0..Horizon /\ windows[k].count \in 1..Budget
      /\ windows[k] \in WindowState
  BY <1>0, WindowMeasures, WindowOfKey DEF LimiterInv, RlTypeOK
<1>3. now < start + Window
  BY <1>0, <1>2 DEF CountAttempt, Over
<1>4. w \in WindowState /\ w.start = start /\ w.count = windows[k].count + 1
  BY <1>0, <1>2 DEF WindowState
<1>5. /\ start <= now
      /\ \E a \in AllowedOf(k) : a.at = start
      /\ \A a \in AllowedOf(k) : a.at < start + Window
      /\ Cardinality(Since(k, start)) = windows[k].count
      /\ Cardinality(Before(k, start)) < Budget
  BY <1>0 DEF LimiterInv, Counted
<1> HIDE DEF w, start
<1> PICK a \in Attempt :
      a.key = k /\ a.at = now /\ a \notin allowed /\ AllowedOf(k)' = AllowedOf(k) \union {a}
  BY <1>0, AllowAdds
<1>6. Cardinality({b \in AllowedOf(k)' : w.start <= b.at}) = w.count
  <2>1. {b \in AllowedOf(k)' : w.start <= b.at} = Since(k, start) \union {a}
    BY <1>2, <1>4, <1>5 DEF Since
  <2>2. IsFiniteSet(Since(k, start)) /\ a \notin Since(k, start)
    BY AttemptsOfKey, FS_Subset DEF Since
  <2>3. Cardinality(Since(k, start) \union {a}) = Cardinality(Since(k, start)) + 1
    BY <2>2, FS_AddElement
  <2> QED BY <2>1, <2>3, <1>4, <1>5
<1>7. Cardinality({b \in AllowedOf(k)' : w.start - Window < b.at /\ b.at < w.start}) < Budget
  <2>1. {b \in AllowedOf(k)' : w.start - Window < b.at /\ b.at < w.start} = Before(k, start)
    BY <1>2, <1>4, <1>5 DEF Before
  <2> QED BY <2>1, <1>5
<1>8. \A b \in AllowedOf(k)' : b.at < w.start + Window
  BY <1>3, <1>2, <1>4, <1>5
<1>9. (\E b \in AllowedOf(k)' : b.at = w.start) /\ w.start <= now
  BY <1>4, <1>5
<1> QED BY <1>0, <1>1, <1>4, <1>6, <1>7, <1>8, <1>9, AllowKeepsInv

\* A refusal of a key whose window is not over: its budget was spent within it.
LEMMA RefuseKeepsInv ==
  ASSUME LimiterInv, NEW k \in Keys, Refuse(k)
  PROVE  LimiterInv'
<1> DEFINE start == windows[k].start
           left == Window - (now - start)
<1>0. /\ windows[k] # Nil /\ windows[k].count >= Budget
      /\ refused' = [refused EXCEPT ![k] = Refused(k)]
      /\ UNCHANGED <<now, windows, allowed>>
  BY DEF Refuse, Over
<1>1. /\ now \in 0..Horizon /\ Window \in Nat \ {0} /\ Budget \in Nat \ {0}
      /\ Second \in Nat \ {0} /\ start \in 0..Horizon /\ windows[k].count \in 1..Budget
  BY <1>0, WindowMeasures, WindowOfKey, RateLimiterAssumption DEF LimiterInv, RlTypeOK
<1>2. now - start < Window /\ start <= now /\ left \in Nat \ {0} /\ left <= Window
  <2>1. ~(now - start >= Window)
    BY <1>0 DEF Refuse, Over
  <2>2. start <= now
    BY <1>0 DEF LimiterInv, Counted
  <2> QED BY <1>1, <2>1, <2>2
<1> DEFINE s == (left + Second - 1) \div Second
<1>3. s \in Nat \ {0} /\ left <= s * Second /\ s * Second < left + Second
  <2>1. left + Second - 1 \in Nat /\ left + Second - 1 >= Second
    BY <1>1, <1>2
  <2> QED BY <2>1, <1>1, <1>2, QuotientBounds
<1>4. /\ Refused(k) \in Refusal /\ Refused(k).at = now /\ Refused(k).start = start
      /\ Refused(k).retryAfterSeconds = s
  <2>1. Refused(k) = [at |-> now, retryAfterSeconds |-> s, start |-> start]
    BY <1>1, <1>3 DEF Refused, Seconds, AtLeastOne
  <2> HIDE DEF s, start
  <2> QED BY <2>1, <1>1, <1>3 DEF Refusal
<1> HIDE DEF s, start, left
<1>5. refused'[k] = Refused(k) /\ \A o \in Keys \ {k} : refused'[o] = refused[o]
  BY <1>0 DEF LimiterInv, RlTypeOK
<1>6. RlTypeOK' /\ Numbered' /\ Counted' /\ BurstIsBounded'
  <2>1. \A o : AllowedOf(o)' = AllowedOf(o)
    BY <1>0 DEF AllowedOf
  <2> QED BY <1>0, <1>4, <2>1
        DEF LimiterInv, RlTypeOK, Numbered, Counted, BurstIsBounded, Between, Since, Before
<1>7. RefusedHavingSpent'
  <2>1. \A o \in Keys : \A t, u : Between(o, t, u)' = Between(o, t, u)
    BY <1>0 DEF Between, AllowedOf
  <2>2. Cardinality(Between(k, now - Window + 1, now + 1)) >= Budget
    <3>1. Since(k, start) \subseteq Between(k, now - Window + 1, now + 1)
      BY <1>1, <1>2, AttemptsOfKey DEF LimiterInv, Numbered, Since, Between
    <3>2. Cardinality(Since(k, start)) <= Cardinality(Between(k, now - Window + 1, now + 1))
      BY <3>1, BetweenIsFinite, FS_Subset
    <3>3. Cardinality(Since(k, start)) >= Budget
      BY <1>0 DEF LimiterInv, Counted, start
    <3> QED BY <3>2, <3>3, <1>0, <1>1, BetweenIsFinite DEF LimiterInv, Counted, start
  <2> SUFFICES ASSUME NEW o \in Keys, refused'[o] # Nil
               PROVE  Cardinality(Between(o, refused[o].at - Window + 1, refused[o].at + 1)') >= Budget
    BY DEF RefusedHavingSpent
  <2>3. CASE o = k
    BY <2>1, <2>2, <2>3, <1>4, <1>5
  <2>4. CASE o # k
    BY <2>1, <2>4, <1>5 DEF LimiterInv, RefusedHavingSpent
  <2> QED BY <2>3, <2>4
<1>8. RetryHintIsHonest'
  <2>1. start + Window <= now + s * Second /\ now + s * Second < start + Window + Second
    BY <1>1, <1>2, <1>3 DEF left
  <2> SUFFICES ASSUME NEW o \in Keys, refused'[o] # Nil
               PROVE  (LET over == refused[o].start + Window
                           told == refused[o].at + refused[o].retryAfterSeconds * Second
                       IN over <= told /\ told < over + Second)'
    BY DEF RetryHintIsHonest
  <2>2. CASE o = k
    BY <2>1, <2>2, <1>4, <1>5
  <2>3. CASE o # k
    BY <2>3, <1>5 DEF LimiterInv, RetryHintIsHonest
  <2> QED BY <2>2, <2>3
<1> QED BY <1>6, <1>7, <1>8 DEF LimiterInv

LEMMA TickKeepsInv ==
  ASSUME LimiterInv, Tick
  PROVE  LimiterInv'
<1>1. now \in Nat /\ now' = now + 1 /\ now' \in 0..Horizon /\ UNCHANGED <<windows, allowed, refused>>
  BY RateLimiterAssumption DEF LimiterInv, RlTypeOK, Tick
<1>2. \A o : AllowedOf(o)' = AllowedOf(o)
  BY <1>1 DEF AllowedOf
<1>3. RlTypeOK' /\ BurstIsBounded' /\ RefusedHavingSpent' /\ RetryHintIsHonest'
  BY <1>1, <1>2 DEF LimiterInv, RlTypeOK, BurstIsBounded, RefusedHavingSpent, RetryHintIsHonest, Between
<1>4. Numbered'
  BY <1>1, <1>2, AttemptsOfKey DEF LimiterInv, Numbered
<1>5. Counted'
  <2> SUFFICES ASSUME NEW k \in Keys, windows[k] # Nil
               PROVE  windows[k].start <= now'
    BY <1>1, <1>2 DEF LimiterInv, Counted, Since, Before
  <2> QED BY <1>1, WindowOfKey DEF LimiterInv, Counted
<1> QED BY <1>3, <1>4, <1>5 DEF LimiterInv

\* At the start of a process: nothing was counted.
LEMMA NothingCounted ==
  ASSUME now \in 0..Horizon, windows = [k \in Keys |-> Nil], allowed = {},
         refused = [k \in Keys |-> Nil]
  PROVE  LimiterInv
<1>1. \A k \in Keys : AllowedOf(k) = {} /\ \A t, u : Between(k, t, u) = {}
  BY DEF AllowedOf, Between
<1>2. Cardinality({}) = 0 /\ IsFiniteSet({}) /\ 0 < 2 * Budget
  BY FS_EmptySet, WindowMeasures
<1> QED BY <1>1, <1>2
      DEF LimiterInv, RlTypeOK, Numbered, Counted, BurstIsBounded, RefusedHavingSpent, RetryHintIsHonest

\* The process starts again.
LEMMA ForgetKeepsInv ==
  ASSUME LimiterInv, Forget
  PROVE  LimiterInv'
<1>1. /\ now' = now /\ now \in 0..Horizon
      /\ windows' = [k \in Keys |-> Nil] /\ allowed' = {} /\ refused' = [k \in Keys |-> Nil]
  BY DEF Forget, LimiterInv, RlTypeOK
<1>2. \A k \in Keys : AllowedOf(k)' = {} /\ \A t, u : Between(k, t, u)' = {}
  BY <1>1 DEF AllowedOf, Between
<1>3. Cardinality({}) = 0 /\ IsFiniteSet({}) /\ 0 < 2 * Budget
  BY FS_EmptySet, WindowMeasures
<1> QED BY <1>1, <1>2, <1>3
      DEF LimiterInv, RlTypeOK, Numbered, Counted, BurstIsBounded, RefusedHavingSpent, RetryHintIsHonest

LEMMA IdleLimiter ==
  ASSUME LimiterInv, UNCHANGED rlVars
  PROVE  LimiterInv'
BY DEF rlVars, LimiterInv, RlTypeOK, Numbered, Counted, BurstIsBounded, RefusedHavingSpent,
       RetryHintIsHonest, AllowedOf, Between, Since, Before

\* The limiter by itself: in front of any API, not only of this one.
LEMMA LimiterInvariant == RlSpec => []LimiterInv
<1>1. RlInit => LimiterInv
  BY RateLimiterAssumption, NothingCounted DEF RlInit
<1>2. LimiterInv /\ [RlNext]_rlVars => LimiterInv'
  BY TickKeepsInv, OpenWindowKeepsInv, CountAttemptKeepsInv, RefuseKeepsInv, IdleLimiter DEF RlNext
<1> QED BY <1>1, <1>2, PTL DEF RlSpec

\* checkAndIncrement lets no key make twice its limit of attempts in any span
\* as long as a window, wherever the span begins.
THEOREM LimiterBoundsBursts == RlSpec => []BurstIsBounded
<1>1. LimiterInv => BurstIsBounded
  BY DEF LimiterInv
<1> QED BY <1>1, LimiterInvariant, PTL

\* It refuses only who spent the whole limit within the last window.
THEOREM LimiterRefusesFairly == RlSpec => []RefusedHavingSpent
<1>1. LimiterInv => RefusedHavingSpent
  BY DEF LimiterInv
<1> QED BY <1>1, LimiterInvariant, PTL

\* retryAfterSeconds is the time until the window is over, rounded up.
THEOREM LimiterHintsHonestly == RlSpec => []RetryHintIsHonest
<1>1. LimiterInv => RetryHintIsHonest
  BY DEF LimiterInv
<1> QED BY <1>1, LimiterInvariant, PTL

-----------------------------------------------------------------------------
(* The status of the store                                                 *)

\* A status was true at the time `at`, or is: if the store is in another state
\* now, it turned since.
TrueSince(state, at) ==
  state \in {"ready", "empty"} => state = StateOf(store, now) \/ (turned # Nil /\ turned >= at)

StatusInv ==
  /\ CredTypeOK
  /\ now \in 0..Horizon
  /\ query # Nil =>
       query.since <= now /\ now - query.since <= QueryTicks /\ TrueSince(query.state, query.since)
  /\ cached # Nil => cached.at <= now /\ TrueSince(cached.state, cached.at - QueryTicks)

\* A key that was revoked keeps a row that is not active.
RevokedInv == revoked \subseteq Keys /\ \A k \in revoked : store[k] # Nil /\ ~store[k].active

CredInv == StatusInv /\ RevokedInv

\* When the rows or the clock change, a status stays true or is outdated by now.
LEMMA StaysTrueSince ==
  ASSUME StatusInv, NEW at \in Int, at <= now, NEW state, TrueSince(state, at),
         now' = now \/ now' = now + 1,
         turned' = Turned(store', now')
  PROVE  TrueSince(state, at)'
<1>1. now \in Nat /\ now' \in Nat /\ at <= now' /\ now' # Nil
  BY RateLimiterAssumption, CredentialsAssumption DEF StatusInv
<1> QED BY <1>1 DEF TrueSince, Turned

\* The statuses under way, when nothing but the rows and the clock change.
LEMMA RowsKeepStatus ==
  ASSUME StatusInv, CredTypeOK', now' \in 0..Horizon, now' = now \/ now' = now + 1,
         turned' = Turned(store', now'), UNCHANGED <<cached, query>>,
         query # Nil => now' - query.since <= QueryTicks
  PROVE  StatusInv'
<1>1. now \in Int /\ now' \in Int /\ now <= now' /\ QueryTicks \in Nat
  BY CredentialsAssumption, RateLimiterAssumption DEF StatusInv
<1>2. query # Nil => query.since <= now' /\ TrueSince(query.state, query.since)'
  <2> SUFFICES ASSUME query # Nil PROVE query.since <= now' /\ TrueSince(query.state, query.since)'
    OBVIOUS
  <2>1. query.since \in Int /\ query.since <= now /\ TrueSince(query.state, query.since)
    BY RateLimiterAssumption DEF StatusInv, CredTypeOK, Query
  <2>2. \A state, at : state = query.state /\ at = query.since => TrueSince(state, at)'
    BY <2>1, StaysTrueSince
  <2> QED BY <2>1, <2>2, <1>1 DEF TrueSince
<1>3. cached # Nil => cached.at <= now' /\ TrueSince(cached.state, cached.at - QueryTicks)'
  <2> SUFFICES ASSUME cached # Nil
               PROVE  cached.at <= now' /\ TrueSince(cached.state, cached.at - QueryTicks)'
    OBVIOUS
  <2>1. /\ cached.at \in Int /\ cached.at - QueryTicks \in Int /\ cached.at <= now
        /\ cached.at - QueryTicks <= now /\ TrueSince(cached.state, cached.at - QueryTicks)
    BY <1>1, RateLimiterAssumption DEF StatusInv, CredTypeOK, Status
  <2>2. \A state, at : state = cached.state /\ at = cached.at - QueryTicks => TrueSince(state, at)'
    BY <2>1, StaysTrueSince
  <2> QED BY <2>1, <2>2, <1>1 DEF TrueSince
<1> QED BY <1>2, <1>3 DEF StatusInv

LEMMA CredTickKeeps ==
  ASSUME CredInv, CredTick
  PROVE  CredInv'
<1>1. /\ now \in Nat /\ now' = now + 1 /\ now' \in 0..Horizon
      /\ turned' = Turned(store', now') /\ UNCHANGED <<store, cached, query, revoked>>
  BY RateLimiterAssumption DEF CredInv, StatusInv, CredTick, Tick, Turned, StateOf, Usable
<1>2. CredTypeOK'
  BY <1>1 DEF CredInv, StatusInv, CredTypeOK, Turned
<1>3. query # Nil => now' - query.since <= QueryTicks
  BY <1>1, CredentialsAssumption, RateLimiterAssumption
     DEF CredInv, StatusInv, CredTypeOK, Query, CredTick
<1>4. StatusInv'
  BY <1>1, <1>2, <1>3, RowsKeepStatus DEF CredInv
<1> QED BY <1>1, <1>4 DEF CredInv, RevokedInv

LEMMA RowsChangeKeeps ==
  ASSUME CredInv, NEW k \in Keys, NEW row \in KeyRow, store' = [store EXCEPT ![k] = row],
         turned' = Turned(store', now), UNCHANGED <<now, cached, query>>,
         revoked' \subseteq revoked \union {k},
         k \in revoked' => ~row.active
  PROVE  CredInv'
<1>1. store'[k] = row /\ (\A o \in Keys \ {k} : store'[o] = store[o]) /\ row # Nil
  BY CredentialsAssumption DEF CredInv, StatusInv, CredTypeOK
<1>2. CredTypeOK'
  BY DEF CredInv, StatusInv, CredTypeOK, Turned, RevokedInv
<1>3. StatusInv'
  BY <1>2, RowsKeepStatus DEF CredInv, StatusInv
<1>4. RevokedInv'
  BY <1>1 DEF CredInv, RevokedInv
<1> QED BY <1>3, <1>4 DEF CredInv

LEMMA ProvisionKeeps ==
  ASSUME CredInv, NEW k \in Keys, NEW t \in Expiries, Provision(k, t)
  PROVE  CredInv'
<1> DEFINE row == [active |-> TRUE, expiresAt |-> t]
<1>1. row \in KeyRow
  BY RequestsAssumption DEF KeyRow
<1>2. /\ store' = [store EXCEPT ![k] = row] /\ turned' = Turned(store', now)
      /\ UNCHANGED <<now, cached, query, revoked>> /\ store[k] = Nil
  BY DEF Provision, rlVars
<1>3. k \notin revoked
  BY <1>2 DEF CredInv, RevokedInv
<1> HIDE DEF row
<1> QED BY <1>1, <1>2, <1>3, RowsChangeKeeps

LEMMA RevokeKeeps ==
  ASSUME CredInv, NEW k \in Keys, Revoke(k)
  PROVE  CredInv'
<1> DEFINE row == [store[k] EXCEPT !.active = FALSE]
<1>1. store[k] # Nil /\ store[k] \in KeyRow
  BY DEF Revoke, CredInv, StatusInv, CredTypeOK
<1>2. row \in KeyRow /\ ~row.active
  BY <1>1 DEF KeyRow
<1>3. store' = [store EXCEPT ![k] = row]
  BY DEF Revoke
<1>4. /\ turned' = Turned(store', now) /\ UNCHANGED <<now, cached, query>>
      /\ revoked' = revoked \union {k}
  BY DEF Revoke, rlVars
<1> HIDE DEF row
<1> QED BY <1>2, <1>3, <1>4, RowsChangeKeeps

LEMMA InquireKeeps ==
  ASSUME CredInv, Inquire, UNCHANGED <<now, store, cached, revoked, turned>>
  PROVE  CredInv'
<1>1. CASE query # Nil
  BY <1>1 DEF Inquire, CredInv, StatusInv, RevokedInv, CredTypeOK, TrueSince, StateOf, Usable
<1>2. CASE query = Nil
  <2>1. query' = [since |-> now, state |-> Nil] /\ now \in 0..Horizon
    BY <1>2 DEF Inquire, CredInv, StatusInv
  <2>2. query' \in Query /\ query'.since = now /\ query'.state = Nil
    BY <2>1 DEF Query
  <2>3. Nil \notin {"ready", "empty"} /\ QueryTicks \in Nat
    BY CredentialsAssumption DEF State
  <2>4. CredTypeOK'
    BY <2>2 DEF CredInv, StatusInv, CredTypeOK
  <2>5. StatusInv'
    BY <2>2, <2>3, <2>4, RateLimiterAssumption DEF CredInv, StatusInv, TrueSince, StateOf, Usable
  <2> QED BY <2>5 DEF CredInv, RevokedInv
<1> QED BY <1>1, <1>2

LEMMA CountUsableKeeps ==
  ASSUME CredInv, CountUsable
  PROVE  CredInv'
<1>1. PICK state \in {StateOf(store, now), "unavailable"} :
        query' = [query EXCEPT !.state = state]
  BY DEF CountUsable
<1>2. query # Nil /\ query \in Query /\ UNCHANGED <<now, store, cached, revoked, turned>>
  BY DEF CountUsable, CredInv, StatusInv, CredTypeOK, rlVars
<1>3. state \in State
  BY DEF StateOf, State
<1>4. query' \in Query /\ query'.since = query.since /\ query'.state = state
  BY <1>1, <1>2, <1>3 DEF Query
<1>5. CredTypeOK'
  BY <1>2, <1>4 DEF CredInv, StatusInv, CredTypeOK
<1>6. TrueSince(query.state, query.since)'
  BY <1>2, <1>4 DEF TrueSince, StateOf, Usable
<1>7. (cached # Nil => TrueSince(cached.state, cached.at - QueryTicks)')
  BY <1>2 DEF CredInv, StatusInv, TrueSince, StateOf, Usable
<1>8. StatusInv'
  BY <1>2, <1>4, <1>5, <1>6, <1>7 DEF CredInv, StatusInv
<1> QED BY <1>2, <1>8 DEF CredInv, RevokedInv

LEMMA KeepStatusKeeps ==
  ASSUME CredInv, KeepStatus, UNCHANGED <<now, store, revoked, turned>>
  PROVE  CredInv'
<1>1. query # Nil /\ query \in Query /\ query.state # Nil /\ now \in 0..Horizon
  BY DEF KeepStatus, CredInv, StatusInv, CredTypeOK
<1>2. query' = Nil /\ cached' = [at |-> now, state |-> query.state]
  BY DEF KeepStatus
<1>3. cached' \in Status /\ cached'.at = now /\ cached'.state = query.state
  BY <1>1, <1>2 DEF Query, Status
<1>4. CredTypeOK'
  BY <1>2, <1>3 DEF CredInv, StatusInv, CredTypeOK
<1>5. now - QueryTicks <= query.since /\ now \in Int /\ query.since \in Int /\ QueryTicks \in Int
  BY <1>1, CredentialsAssumption, RateLimiterAssumption DEF CredInv, StatusInv, Query
<1>6. TrueSince(query.state, query.since)
  BY <1>1 DEF CredInv, StatusInv
<1>7. turned # Nil => turned \in Int
  BY RateLimiterAssumption DEF CredInv, StatusInv, CredTypeOK
<1>8. TrueSince(cached.state, cached.at - QueryTicks)'
  BY <1>3, <1>5, <1>6, <1>7 DEF TrueSince, StateOf, Usable
<1>9. StatusInv'
  BY <1>1, <1>2, <1>3, <1>4, <1>5, <1>8 DEF StatusInv
<1> QED BY <1>9 DEF CredInv, RevokedInv

LEMMA IdleCredentials ==
  ASSUME CredInv, UNCHANGED <<now, credVars>>
  PROVE  CredInv'
BY DEF CredInv, StatusInv, RevokedInv, CredTypeOK, TrueSince, StateOf, Usable, credVars

LEMMA ForgetKeepsCredentials ==
  ASSUME CredInv, Forget
  PROVE  CredInv'
BY DEF Forget, CredInv, StatusInv, RevokedInv, CredTypeOK

-----------------------------------------------------------------------------
(* The requests                                                            *)

Served == {"touch", "admit", "effect", "writes", "audit"}

\* The answers that go with what was written.
MayAnswer(effect, answer) ==
  /\ answer = "done" => effect = "complete"
  /\ effect = "begun" => answer \in {"refused", "internal_error", "lost"}
  /\ effect = "complete" => answer \in {"done", "lost"}

\* What a request knows at each of its awaits, and how it may have ended.
RequestOK(r) ==
  /\ r.pc # "idle" => r.answer = "none"
  /\ r.pc \in {"lookup"} \union Served => r.kind = "call"
  /\ r.pc = "ready" => r.kind = "health"
  /\ r.pc \in Served => r.key \in Keys /\ ~r.late
  /\ r.pc = "lookup" =>
       /\ r.always => r.key \in Keys /\ Usable(store[r.key], now)
       /\ r.late => r.key \in revoked
  /\ r.pc = "status" /\ r.kind = "call" => ~r.always
  /\ r.pc = "idle" => MayAnswer(r.effect, r.answer)
  /\ r.effect # "none" => r.pc \in {"writes", "audit", "idle"}
  /\ r.effect = "begun" => r.pc \in {"writes", "idle"}
  /\ r.effect = "complete" => r.pc \in {"audit", "idle"}
  /\ r.pc = "writes" => r.effect = "begun"
  /\ r.audited => r.pc \in {"audit", "idle"} /\ r.effect # "begun"
  /\ r.answer \in {"unauthorized", "not_provisioned"} => ~r.always
  /\ r.late => r.effect = "none" /\ r.answer # "read"

RequestInv ==
  /\ req \in [Slots -> Request]
  /\ served \in 0..MaxRequests
  /\ \A s \in Slots : RequestOK(req[s])

ReqInv == LimiterInv /\ CredInv /\ RequestInv

LEMMA RequestOfSlot ==
  ASSUME RequestInv, NEW s \in Slots
  PROVE  req[s] \in Request /\ RequestOK(req[s])
BY DEF RequestInv

\* A step that leaves the rows, the clock and every other request alone.
LEMMA OneRequest ==
  ASSUME RequestInv, NEW s \in Slots, NEW r \in Request, RequestOK(r),
         req' = [req EXCEPT ![s] = r], served' \in 0..MaxRequests,
         UNCHANGED <<now, store, revoked>>
  PROVE  RequestInv'
<1>1. req' \in [Slots -> Request] /\ req'[s] = r /\ \A o \in Slots \ {s} : req'[o] = req[o]
  BY DEF RequestInv
<1>2. \A q : RequestOK(q) => RequestOK(q)'
  BY DEF RequestOK, Usable
<1>3. \A o \in Slots : RequestOK(req'[o])
  BY <1>1 DEF RequestInv
<1>4. \A o \in Slots : RequestOK(req[o])'
  BY <1>3 DEF RequestOK, Usable
<1> QED BY <1>1, <1>4 DEF RequestInv

\* What becomes of a request when it ends.
LEMMA EndedIsOK ==
  ASSUME NEW r \in Request, RequestOK(r), r.pc # "idle", NEW answer \in Answers,
         answer \in {"unauthorized", "not_provisioned"} => ~r.always,
         answer = "read" => ~r.late,
         MayAnswer(r.effect, answer)
  PROVE  Ended(r, answer) \in Request /\ RequestOK(Ended(r, answer))
<1> DEFINE e == Ended(r, answer)
<1>1. /\ e \in Request /\ e.pc = "idle" /\ e.answer = answer
      /\ e.effect = r.effect /\ e.audited = r.audited /\ e.late = r.late
      /\ e.always => r.always
  BY DEF Ended, Request, ReqPc, Kinds
<1> HIDE DEF e
<1> QED BY <1>1 DEF RequestOK, Served, e

\* What becomes of a request that is told the status.
LEMMA InformedIsOK ==
  ASSUME NEW r \in Request, RequestOK(r), r.pc \in {"lookup", "status", "ready"},
         NEW state \in State, r.kind = "call" => ~r.always
  PROVE  Informed(r, state) \in Request /\ RequestOK(Informed(r, state))
<1>1. r.effect = "none" /\ r.pc # "idle"
  BY DEF RequestOK
<1>2. CASE r.kind = "health"
  <2> DEFINE q == [r EXCEPT !.told = state, !.pc = "schema"]
  <2>1. /\ q \in Request /\ q.pc = "schema" /\ q.answer = r.answer /\ q.late = r.late
        /\ q.effect = r.effect /\ q.audited = r.audited /\ q.always = r.always
    BY DEF Request, ReqPc
  <2>2. Informed(r, state) = q
    BY <1>2 DEF Informed
  <2> HIDE DEF q
  <2>3. RequestOK(q)
    BY <1>1, <2>1 DEF RequestOK, Served
  <2> QED BY <2>1, <2>2, <2>3
<1>3. CASE r.kind = "call"
  <2> DEFINE q == [r EXCEPT !.told = state]
  <2>1. /\ q \in Request /\ q.pc = r.pc /\ q.answer = r.answer /\ q.late = r.late /\ q.kind = r.kind
        /\ q.effect = r.effect /\ q.audited = r.audited /\ q.always = r.always /\ q.key = r.key
    BY DEF Request
  <2>2. Informed(r, state) = Ended(q, Rejection(state))
    BY <1>3 DEF Informed
  <2> HIDE DEF q
  <2>3. RequestOK(q)
    BY <2>1 DEF RequestOK
  <2>4. Rejection(state) \in {"unauthorized", "not_provisioned"} /\ Rejection(state) \in Answers
    BY DEF Rejection, Answers
  <2>5. Ended(q, Rejection(state)) \in Request /\ RequestOK(Ended(q, Rejection(state)))
    BY <1>1, <1>3, <2>1, <2>3, <2>4, EndedIsOK DEF MayAnswer
  <2> QED BY <2>2, <2>5
<1> QED BY <1>2, <1>3 DEF Request, Kinds

\* A request that ends, and nothing else.
LEMMA AnswerKeeps ==
  ASSUME RequestInv, NEW s \in Slots, req[s].pc # "idle", NEW answer \in Answers,
         answer \in {"unauthorized", "not_provisioned"} => ~req[s].always,
         answer = "read" => ~req[s].late,
         MayAnswer(req[s].effect, answer),
         Answer(s, answer), UNCHANGED <<now, store, revoked, served>>
  PROVE  RequestInv'
<1> DEFINE r == Ended(req[s], answer)
<1>1. r \in Request /\ RequestOK(r)
  BY RequestOfSlot, EndedIsOK DEF MayAnswer
<1>2. req' = [req EXCEPT ![s] = r]
  BY DEF Answer
<1> HIDE DEF r
<1> QED BY <1>1, <1>2, OneRequest DEF RequestInv

\* A request that goes on, with nothing else to remember.
LEMMA GotoKeeps ==
  ASSUME RequestInv, NEW s \in Slots, NEW pc \in ReqPc, Goto(s, pc),
         UNCHANGED <<now, store, revoked, served>>,
         \A r \in Request :
           /\ r.pc = pc /\ r.key = req[s].key /\ r.kind = req[s].kind /\ r.answer = req[s].answer
           /\ r.always = req[s].always /\ r.late = req[s].late
           /\ r.effect = req[s].effect /\ r.audited = req[s].audited
           => RequestOK(r)
  PROVE  RequestInv'
<1> DEFINE r == [req[s] EXCEPT !.pc = pc]
<1>1. /\ r \in Request /\ r.pc = pc /\ r.key = req[s].key /\ r.kind = req[s].kind
      /\ r.answer = req[s].answer /\ r.always = req[s].always /\ r.late = req[s].late
      /\ r.effect = req[s].effect /\ r.audited = req[s].audited
  BY RequestOfSlot DEF Request
<1>2. req' = [req EXCEPT ![s] = r]
  BY DEF Goto
<1> HIDE DEF r
<1> QED BY <1>1, <1>2, OneRequest DEF RequestInv

\* The request that arrives.
Arrived(k, kind, usable, late, pc) ==
  [NoRequest EXCEPT !.key = k, !.kind = kind, !.always = usable, !.late = late, !.pc = pc]

IsArrival(r, k, kind, usable, late, pc) ==
  /\ r \in Request /\ r.pc = pc /\ r.key = k /\ r.kind = kind /\ r.answer = "none"
  /\ r.effect = "none" /\ r.audited = FALSE /\ r.always = usable /\ r.late = late

LEMMA ArrivedIsRequest ==
  ASSUME NEW k \in Keys \union {Unknown, Nil}, NEW kind \in Kinds,
         NEW usable \in BOOLEAN, NEW late \in BOOLEAN, NEW pc \in ReqPc
  PROVE  IsArrival(Arrived(k, kind, usable, late, pc), k, kind, usable, late, pc)
BY DEF IsArrival, Arrived, NoRequest, Request, Kinds, Answers, Effects

LEMMA ArriveKeeps ==
  ASSUME ReqInv, NEW s \in Slots, NEW k \in Keys \union {Unknown, Nil}, NEW kind \in Kinds,
         Arrive(s, k, kind)
  PROVE  RequestInv'
<1> DEFINE usable == IF k \in Keys /\ Usable(store[k], now) THEN TRUE ELSE FALSE
           late == IF k \in revoked THEN TRUE ELSE FALSE
           pc == IF kind = "health" THEN "ready" ELSE "lookup"
<1>0. PICK r : r = Arrived(k, kind, usable, late, pc)
  OBVIOUS
<1>1. IsArrival(r, k, kind, usable, late, pc)
  <2>1. pc \in ReqPc /\ usable \in BOOLEAN /\ late \in BOOLEAN
    BY DEF ReqPc
  <2> HIDE DEF pc, usable, late
  <2> QED BY <1>0, <2>1, ArrivedIsRequest
<1>2. req' = [req EXCEPT ![s] = r]
  <2>1. usable = (k \in Keys /\ Usable(store[k], now))
    OBVIOUS
  <2>2. late = (k \in revoked)
    <3>1. CASE k \in revoked
      <4>1. (k \in revoked) = TRUE
        BY <3>1
      <4> QED BY <4>1, <3>1
    <3>2. CASE k \notin revoked
      <4>1. (k \in revoked) = FALSE
        BY <3>2
      <4> QED BY <4>1, <3>2
    <3> QED BY <3>1, <3>2
  <2> HIDE DEF usable, late
  <2> QED BY <1>0, <2>1, <2>2 DEF Arrive, Arrived
<1>3. served' = served + 1 /\ served' \in 0..MaxRequests /\ UNCHANGED <<now, store, revoked>>
  BY RequestsAssumption DEF Arrive, ReqInv, RequestInv, rlVars, credVars
<1>4. RequestOK(r)
  BY <1>1 DEF IsArrival, RequestOK, Served, Kinds
<1>5. r \in Request
  BY <1>1 DEF IsArrival
<1> QED BY <1>2, <1>3, <1>4, <1>5, OneRequest DEF ReqInv

\* Whoever is told a status, or waits for one.
LEMMA AskStatusKeeps ==
  ASSUME ReqInv, NEW s \in Slots, NEW r \in Request, RequestOK(r),
         r.pc \in {"lookup", "ready"}, r.kind = "call" => ~r.always,
         AskStatus(s, r), UNCHANGED <<now, store, cached, revoked, turned, served>>
  PROVE  CredInv' /\ RequestInv'
<1>0. RequestInv /\ CredInv /\ served' \in 0..MaxRequests
  BY DEF ReqInv, RequestInv
<1>1. CASE Fresh /\ req' = [req EXCEPT ![s] = Informed(r, cached.state)] /\ UNCHANGED query
  <2>1. cached.state \in State
    BY <1>0, <1>1 DEF CredInv, StatusInv, CredTypeOK, Fresh, Status
  <2>2. Informed(r, cached.state) \in Request /\ RequestOK(Informed(r, cached.state))
    BY <2>1, InformedIsOK
  <2>3. RequestInv'
    BY <1>0, <1>1, <2>2, OneRequest
  <2> QED BY <1>0, <1>1, <2>3, IdleCredentials DEF credVars
<1>2. CASE ~Fresh /\ req' = [req EXCEPT ![s] = [r EXCEPT !.pc = "status"]] /\ Inquire
  <2> DEFINE q == [r EXCEPT !.pc = "status"]
  <2>1. /\ q \in Request /\ q.pc = "status" /\ q.answer = r.answer /\ q.late = r.late
        /\ q.kind = r.kind /\ q.effect = r.effect /\ q.audited = r.audited /\ q.always = r.always
    BY DEF Request, ReqPc
  <2>2. req' = [req EXCEPT ![s] = q]
    BY <1>2
  <2> HIDE DEF q
  <2>3. RequestOK(q)
    BY <2>1 DEF RequestOK, Served
  <2>4. RequestInv'
    BY <1>0, <2>1, <2>2, <2>3, OneRequest
  <2> QED BY <1>0, <1>2, <2>4, InquireKeeps
<1> QED BY <1>1, <1>2 DEF AskStatus

LEMMA LookupFindsKeeps ==
  ASSUME ReqInv, NEW s \in Slots, LookupFinds(s)
  PROVE  RequestInv'
<1>1. /\ req[s].pc = "lookup" /\ req[s].key \in Keys /\ Usable(store[req[s].key], now)
      /\ Goto(s, "touch") /\ UNCHANGED <<now, store, revoked, served>>
  BY DEF LookupFinds, At, Resolves, rlVars, credVars
<1>2. RequestInv /\ RequestOK(req[s])
  BY RequestOfSlot DEF ReqInv
\* A revoked key has no usable row.
<1>3. ~req[s].late
  BY <1>1, <1>2 DEF RequestOK, ReqInv, CredInv, RevokedInv, Usable
<1>4. \A r \in Request :
        /\ r.pc = "touch" /\ r.key = req[s].key /\ r.kind = req[s].kind /\ r.answer = req[s].answer
        /\ r.always = req[s].always /\ r.late = req[s].late
        /\ r.effect = req[s].effect /\ r.audited = req[s].audited
        => RequestOK(r)
  BY <1>1, <1>2, <1>3 DEF RequestOK, Served
<1> QED BY <1>1, <1>2, <1>4, GotoKeeps DEF ReqPc

LEMMA LookupMissesKeeps ==
  ASSUME ReqInv, NEW s \in Slots, LookupMisses(s)
  PROVE  CredInv' /\ RequestInv'
<1>1. /\ req[s].pc = "lookup" /\ ~(req[s].key \in Keys /\ Usable(store[req[s].key], now))
      /\ AskStatus(s, req[s]) /\ UNCHANGED <<now, store, cached, revoked, turned, served>>
  BY DEF LookupMisses, At, Resolves, rlVars
<1>2. req[s] \in Request /\ RequestOK(req[s])
  BY RequestOfSlot DEF ReqInv
<1>3. ~req[s].always
  BY <1>1, <1>2 DEF RequestOK
<1> QED BY <1>1, <1>2, <1>3, AskStatusKeeps

LEMMA LookupFailsKeeps ==
  ASSUME ReqInv, NEW s \in Slots, LookupFails(s)
  PROVE  RequestInv'
<1>1. /\ req[s].pc = "lookup" /\ Answer(s, "internal_error") /\ UNCHANGED <<now, store, revoked, served>>
  BY DEF LookupFails, At, rlVars, credVars
<1>2. RequestInv /\ RequestOK(req[s]) /\ "internal_error" \in Answers
  BY RequestOfSlot DEF ReqInv, Answers
<1>3. req[s].effect = "none"
  BY <1>1, <1>2 DEF RequestOK
<1> QED BY <1>1, <1>2, <1>3, AnswerKeeps DEF MayAnswer

LEMMA TouchKeeps ==
  ASSUME ReqInv, NEW s \in Slots, Touch(s)
  PROVE  RequestInv'
<1>1. req[s].pc = "touch" /\ Goto(s, "admit") /\ UNCHANGED <<now, store, revoked, served>>
  BY DEF Touch, At, rlVars, credVars
<1>2. RequestInv /\ RequestOK(req[s])
  BY RequestOfSlot DEF ReqInv
<1>3. \A r \in Request :
        /\ r.pc = "admit" /\ r.key = req[s].key /\ r.kind = req[s].kind /\ r.answer = req[s].answer
        /\ r.always = req[s].always /\ r.late = req[s].late
        /\ r.effect = req[s].effect /\ r.audited = req[s].audited
        => RequestOK(r)
  BY <1>1, <1>2 DEF RequestOK, Served
<1> QED BY <1>1, <1>2, <1>3, GotoKeeps DEF ReqPc

LEMMA AdmitKeeps ==
  ASSUME ReqInv, NEW s \in Slots, Admit(s)
  PROVE  LimiterInv' /\ RequestInv'
<1>1. /\ req[s].pc = "admit"
      /\ (OpenWindow(req[s].key) \/ CountAttempt(req[s].key))
      /\ (Goto(s, "effect") \/ Answer(s, "refused"))
      /\ UNCHANGED <<credVars, served>>
  BY DEF Admit, At
<1>2. RequestInv /\ RequestOK(req[s]) /\ "refused" \in Answers
  BY RequestOfSlot DEF ReqInv, Answers
<1>3. req[s].key \in Keys /\ req[s].effect = "none"
  BY <1>1, <1>2 DEF RequestOK, Served
<1>4. LimiterInv'
  BY <1>1, <1>3, OpenWindowKeepsInv, CountAttemptKeepsInv DEF ReqInv
<1>5. UNCHANGED <<now, store, revoked, served>>
  BY <1>1 DEF OpenWindow, CountAttempt, credVars
<1>6. CASE Goto(s, "effect")
  <2>1. \A r \in Request :
          /\ r.pc = "effect" /\ r.key = req[s].key /\ r.kind = req[s].kind /\ r.answer = req[s].answer
          /\ r.always = req[s].always /\ r.late = req[s].late
          /\ r.effect = req[s].effect /\ r.audited = req[s].audited
          => RequestOK(r)
    BY <1>1, <1>2 DEF RequestOK, Served
  <2> QED BY <1>2, <1>4, <1>5, <1>6, <2>1, GotoKeeps DEF ReqPc
<1>7. CASE Answer(s, "refused")
  BY <1>1, <1>2, <1>3, <1>4, <1>5, <1>7, AnswerKeeps DEF MayAnswer
<1> QED BY <1>1, <1>6, <1>7

LEMMA ThrottleKeeps ==
  ASSUME ReqInv, NEW s \in Slots, Throttle(s)
  PROVE  LimiterInv' /\ RequestInv'
<1>1. /\ req[s].pc = "admit" /\ Refuse(req[s].key) /\ Answer(s, "rate_limited")
      /\ UNCHANGED <<now, store, revoked, served>>
  BY DEF Throttle, At, Refuse, credVars
<1>2. RequestInv /\ RequestOK(req[s]) /\ "rate_limited" \in Answers
  BY RequestOfSlot DEF ReqInv, Answers
<1>3. req[s].key \in Keys /\ req[s].effect = "none"
  BY <1>1, <1>2 DEF RequestOK, Served
<1> QED BY <1>1, <1>2, <1>3, RefuseKeepsInv, AnswerKeeps DEF ReqInv, MayAnswer

LEMMA ServeKeeps ==
  ASSUME ReqInv, NEW s \in Slots, Serve(s)
  PROVE  RequestInv'
<1>1. req[s].pc = "effect" /\ UNCHANGED <<now, store, revoked, served>>
  BY DEF Serve, At, rlVars, credVars
<1>2. RequestInv /\ RequestOK(req[s]) /\ req[s] \in Request /\ {"read", "refused", "internal_error"} \subseteq Answers
  BY RequestOfSlot DEF ReqInv, Answers
<1>3. /\ req[s].effect = "none" /\ ~req[s].late /\ ~req[s].audited
      /\ req[s].kind = "call" /\ req[s].key \in Keys /\ req[s].answer = "none"
  BY <1>1, <1>2 DEF RequestOK, Served
<1>4. ASSUME NEW answer \in {"read", "refused", "internal_error"}, Answer(s, answer)
      PROVE  RequestInv'
  <2>1. MayAnswer(req[s].effect, answer)
    BY <1>3, <1>4 DEF MayAnswer
  <2> QED BY <1>1, <1>2, <1>3, <1>4, <2>1, AnswerKeeps
<1>5. CASE req' = [req EXCEPT ![s].effect = "begun", ![s].pc = "writes"]
  <2> DEFINE r == [req[s] EXCEPT !.effect = "begun", !.pc = "writes"]
  <2>1. /\ r \in Request /\ r.pc = "writes" /\ r.effect = "begun" /\ r.key = req[s].key /\ r.kind = req[s].kind
        /\ r.answer = req[s].answer /\ r.always = req[s].always /\ r.late = req[s].late
        /\ r.audited = req[s].audited
    BY <1>2 DEF Request, ReqPc, Effects
  <2>2. req' = [req EXCEPT ![s] = r]
    BY <1>2, <1>5 DEF RequestInv
  <2> HIDE DEF r
  <2>3. ~r.late /\ ~r.audited /\ r.kind = "call" /\ r.answer = "none"
    BY <1>3, <2>1
  <2>4. RequestOK(r)
    BY <1>3, <2>1, <2>3 DEF RequestOK, Served
  <2> QED BY <1>1, <1>2, <2>1, <2>2, <2>4, OneRequest DEF RequestInv
\* A query that is audited before it is answered.
<1>6. CASE Goto(s, "audit")
  <2>1. \A r \in Request :
          /\ r.pc = "audit" /\ r.key = req[s].key /\ r.kind = req[s].kind /\ r.answer = req[s].answer
          /\ r.always = req[s].always /\ r.late = req[s].late
          /\ r.effect = req[s].effect /\ r.audited = req[s].audited
          => RequestOK(r)
    BY <1>1, <1>2, <1>3 DEF RequestOK, Served
  <2> QED BY <1>1, <1>2, <1>6, <2>1, GotoKeeps DEF ReqPc
<1> QED BY <1>4, <1>5, <1>6 DEF Serve

LEMMA WriteKeeps ==
  ASSUME ReqInv, NEW s \in Slots, Write(s)
  PROVE  RequestInv'
<1>1. req[s].pc = "writes" /\ UNCHANGED <<now, store, revoked, served>>
  BY DEF Write, At, rlVars, credVars
<1>2. RequestInv /\ RequestOK(req[s]) /\ req[s] \in Request /\ {"refused", "internal_error"} \subseteq Answers
  BY RequestOfSlot DEF ReqInv, Answers
<1>3. /\ req[s].effect = "begun" /\ ~req[s].late /\ ~req[s].audited
      /\ req[s].kind = "call" /\ req[s].key \in Keys /\ req[s].answer = "none"
  BY <1>1, <1>2 DEF RequestOK, Served, Request
<1>4. ASSUME NEW answer \in {"refused", "internal_error"}, Answer(s, answer)
      PROVE  RequestInv'
  <2>1. MayAnswer(req[s].effect, answer)
    BY <1>3, <1>4 DEF MayAnswer
  <2> QED BY <1>1, <1>2, <1>3, <1>4, <2>1, AnswerKeeps
<1>5. CASE req' = [req EXCEPT ![s].effect = "complete", ![s].pc = "audit"]
  <2> DEFINE r == [req[s] EXCEPT !.effect = "complete", !.pc = "audit"]
  <2>1. /\ r \in Request /\ r.pc = "audit" /\ r.effect = "complete" /\ r.key = req[s].key
        /\ r.kind = req[s].kind /\ r.answer = req[s].answer /\ r.always = req[s].always
        /\ r.late = req[s].late /\ r.audited = req[s].audited
    BY <1>2 DEF Request, ReqPc, Effects
  <2>2. req' = [req EXCEPT ![s] = r]
    BY <1>2, <1>5 DEF RequestInv
  <2> HIDE DEF r
  <2>3. ~r.late /\ ~r.audited /\ r.kind = "call" /\ r.answer = "none"
    BY <1>3, <2>1
  <2>4. RequestOK(r)
    BY <1>3, <2>1, <2>3 DEF RequestOK, Served
  <2> QED BY <1>1, <1>2, <2>1, <2>2, <2>4, OneRequest DEF RequestInv
<1> QED BY <1>4, <1>5 DEF Write

LEMMA AuditKeeps ==
  ASSUME ReqInv, NEW s \in Slots, Audit(s)
  PROVE  RequestInv'
<1>1. req[s].pc = "audit" /\ UNCHANGED <<now, store, revoked, served>>
  BY DEF Audit, At, rlVars, credVars
<1>2. RequestInv /\ RequestOK(req[s]) /\ req[s] \in Request /\ {"done", "read"} \subseteq Answers
  BY RequestOfSlot DEF ReqInv, Answers
<1>3. PICK audited \in BOOLEAN :
        req' = [req EXCEPT ![s] = Ended([@ EXCEPT !.audited = audited], Success(@))]
  BY DEF Audit
<1> DEFINE q == [req[s] EXCEPT !.audited = audited]
<1>4. /\ q \in Request /\ q.pc = "audit" /\ q.effect = req[s].effect /\ q.key = req[s].key
      /\ q.kind = req[s].kind /\ q.effect \in {"none", "complete"}
      /\ q.answer = req[s].answer /\ q.always = req[s].always /\ q.late = req[s].late
  BY <1>1, <1>2 DEF Request, RequestOK, Effects
<1>5. req' = [req EXCEPT ![s] = Ended(q, Success(req[s]))]
  BY <1>3
<1> HIDE DEF q
<1>6. RequestOK(q)
  BY <1>1, <1>2, <1>4 DEF RequestOK, Served
<1>7. /\ Success(req[s]) \in {"done", "read"}
      /\ MayAnswer(q.effect, Success(req[s])) /\ ~q.late
  BY <1>1, <1>2, <1>4 DEF Success, MayAnswer, RequestOK, Served
<1>8. Ended(q, Success(req[s])) \in Request /\ RequestOK(Ended(q, Success(req[s])))
  BY <1>2, <1>4, <1>6, <1>7, EndedIsOK DEF MayAnswer
<1> QED BY <1>1, <1>2, <1>5, <1>8, OneRequest DEF RequestInv

LEMMA ProbeReadyKeeps ==
  ASSUME ReqInv, NEW s \in Slots, ProbeReady(s)
  PROVE  CredInv' /\ RequestInv'
<1>1. req[s].pc = "ready" /\ UNCHANGED <<now, store, cached, revoked, turned, served>>
  BY DEF ProbeReady, At, rlVars
<1>2. RequestOK(req[s]) /\ req[s] \in Request
  BY RequestOfSlot DEF ReqInv
<1>3. PICK down \in BOOLEAN : AskStatus(s, [req[s] EXCEPT !.down = down])
  BY DEF ProbeReady
<1> DEFINE r == [req[s] EXCEPT !.down = down]
<1>4. /\ r \in Request /\ r.pc = "ready" /\ r.effect = req[s].effect /\ r.key = req[s].key
      /\ r.kind = req[s].kind /\ r.answer = req[s].answer /\ r.always = req[s].always
      /\ r.late = req[s].late /\ r.audited = req[s].audited
  BY <1>1, <1>2 DEF Request
<1> HIDE DEF r
<1>5. RequestOK(r)
  BY <1>1, <1>2, <1>4 DEF RequestOK, Served
<1>6. r.kind # "call"
  BY <1>4, <1>5 DEF RequestOK
<1>7. AskStatus(s, r)
  BY <1>3 DEF r
<1> QED BY <1>1, <1>4, <1>5, <1>6, <1>7, AskStatusKeeps

LEMMA StatusTimesOutKeeps ==
  ASSUME ReqInv, NEW s \in Slots, StatusTimesOut(s)
  PROVE  RequestInv'
<1>1. /\ req[s].pc = "status" /\ req[s].kind = "health"
      /\ req' = [req EXCEPT ![s] = Informed(req[s], "unavailable")]
      /\ UNCHANGED <<now, store, revoked, served>>
  BY DEF StatusTimesOut, At, rlVars, credVars
<1>2. RequestInv /\ RequestOK(req[s]) /\ req[s] \in Request /\ "unavailable" \in State
  BY RequestOfSlot DEF ReqInv, State
<1>3. Informed(req[s], "unavailable") \in Request /\ RequestOK(Informed(req[s], "unavailable"))
  BY <1>1, <1>2, InformedIsOK
<1> QED BY <1>1, <1>2, <1>3, OneRequest DEF RequestInv

LEMMA ProbeSchemaKeeps ==
  ASSUME ReqInv, NEW s \in Slots, ProbeSchema(s)
  PROVE  RequestInv'
<1>1. req[s].pc = "schema" /\ UNCHANGED <<now, store, revoked, served>>
  BY DEF ProbeSchema, At, rlVars, credVars
<1>2. PICK answer \in {"degraded", "ok"} : Answer(s, answer)
  BY DEF ProbeSchema
<1>3. RequestInv /\ RequestOK(req[s]) /\ answer \in Answers
  BY RequestOfSlot DEF ReqInv, Answers
<1>4. req[s].effect = "none"
  BY <1>1, <1>3 DEF RequestOK
<1> QED BY <1>1, <1>2, <1>3, <1>4, AnswerKeeps DEF MayAnswer

\* Everyone who waited for the query is told the same.
LEMMA StatusAnsweredKeeps ==
  ASSUME ReqInv, StatusAnswered
  PROVE  CredInv' /\ RequestInv'
<1>1. /\ KeepStatus /\ UNCHANGED <<now, store, revoked, turned, served>>
      /\ req' = [s \in Slots |-> IF req[s].pc = "status" THEN Informed(req[s], query.state) ELSE req[s]]
  BY DEF StatusAnswered, At, rlVars
<1>2. RequestInv /\ CredInv
  BY DEF ReqInv
<1>3. query.state \in State
  BY <1>1, <1>2 DEF KeepStatus, CredInv, StatusInv, CredTypeOK, Query
<1>4. \A s \in Slots : req'[s] \in Request /\ RequestOK(req'[s])
  <2> SUFFICES ASSUME NEW s \in Slots PROVE req'[s] \in Request /\ RequestOK(req'[s])
    OBVIOUS
  <2>1. req[s] \in Request /\ RequestOK(req[s])
    BY <1>2, RequestOfSlot
  <2>2. CASE req[s].pc = "status"
    <3>1. req[s].kind = "call" => ~req[s].always
      BY <2>1, <2>2 DEF RequestOK
    <3> QED BY <1>1, <1>3, <2>1, <2>2, <3>1, InformedIsOK
  <2>3. CASE req[s].pc # "status"
    BY <1>1, <2>1, <2>3
  <2> QED BY <2>2, <2>3
<1>5. \A s \in Slots : RequestOK(req[s])'
  BY <1>1, <1>4 DEF RequestOK, Usable
<1>6. req' \in [Slots -> Request]
  BY <1>1, <1>4
<1> QED BY <1>1, <1>2, <1>5, <1>6, KeepStatusKeeps DEF RequestInv

LEMMA RestartKeeps ==
  ASSUME ReqInv, Restart
  PROVE  RequestInv'
<1>1. /\ UNCHANGED <<now, store, revoked, served>>
      /\ req' = [s \in Slots |-> IF req[s].pc = "idle" THEN req[s] ELSE Ended(req[s], "lost")]
  BY DEF Restart, Forget, At
<1>2. RequestInv
  BY DEF ReqInv
<1>4. \A s \in Slots : req'[s] \in Request /\ RequestOK(req'[s])
  <2> SUFFICES ASSUME NEW s \in Slots PROVE req'[s] \in Request /\ RequestOK(req'[s])
    OBVIOUS
  <2>1. req[s] \in Request /\ RequestOK(req[s]) /\ "lost" \in Answers
    BY <1>2, RequestOfSlot DEF Answers
  <2>2. CASE req[s].pc # "idle"
    BY <1>1, <2>1, <2>2, EndedIsOK DEF MayAnswer
  <2>3. CASE req[s].pc = "idle"
    BY <1>1, <2>1, <2>3
  <2> QED BY <2>2, <2>3
<1>5. \A s \in Slots : RequestOK(req[s])'
  BY <1>1, <1>4 DEF RequestOK, Usable
<1>6. req' \in [Slots -> Request]
  BY <1>1, <1>4
<1> QED BY <1>1, <1>2, <1>5, <1>6 DEF RequestInv

\* The clock and the rows change: `always` follows them.
LEMMA FollowedKeeps ==
  ASSUME RequestInv, req' = Followed(store', now'), revoked \subseteq revoked', UNCHANGED served
  PROVE  RequestInv'
<1>1. \A s \in Slots : req'[s] \in Request /\ RequestOK(req[s])'
  <2> SUFFICES ASSUME NEW s \in Slots PROVE req'[s] \in Request /\ RequestOK(req[s])'
    OBVIOUS
  <2>1. req[s] \in Request /\ RequestOK(req[s])
    BY RequestOfSlot
  <2>2. CASE req[s].pc = "idle"
    <3>1. req'[s] = req[s]
      BY <2>2 DEF Followed, At
    <3> QED BY <2>1, <2>2, <3>1 DEF RequestOK, Served
  <2>3. CASE req[s].pc # "idle"
    <3> DEFINE usable == req[s].key \in Keys /\ Usable(store'[req[s].key], now')
    <3>0. usable \in BOOLEAN /\ req[s].always \in BOOLEAN
      BY <2>1 DEF Request
    <3>1. req'[s] = [req[s] EXCEPT !.always = req[s].always /\ usable]
      BY <2>3 DEF Followed, At
    <3>2. /\ req'[s] \in Request
          /\ req'[s].pc = req[s].pc /\ req'[s].key = req[s].key /\ req'[s].kind = req[s].kind
          /\ req'[s].answer = req[s].answer /\ req'[s].late = req[s].late
          /\ req'[s].effect = req[s].effect /\ req'[s].audited = req[s].audited
          /\ (req'[s].always <=> req[s].always /\ usable)
      <4> HIDE DEF usable
      <4> QED BY <2>1, <3>0, <3>1 DEF Request
    <3> QED BY <2>1, <2>3, <3>2 DEF RequestOK, Served
  <2> QED BY <2>2, <2>3
<1>2. req' = [s \in Slots |-> req'[s]]
  BY DEF Followed
<1> QED BY <1>1, <1>2 DEF RequestInv

LEMMA OutsideKeeps ==
  ASSUME ReqInv, Outside
  PROVE  ReqInv'
<1>0. LimiterInv /\ CredInv /\ RequestInv /\ req' = Followed(store', now') /\ UNCHANGED served
  BY DEF ReqInv, Outside
<1>1. CASE CredTick
  <2>1. LimiterInv'
    BY <1>0, <1>1, TickKeepsInv DEF CredTick
  <2>2. RequestInv'
    BY <1>0, <1>1, FollowedKeeps DEF CredTick
  <2> QED BY <1>0, <1>1, <2>1, <2>2, CredTickKeeps DEF ReqInv
<1>2. ASSUME NEW k \in Keys, Revoke(k) PROVE ReqInv'
  <2>1. LimiterInv' /\ RequestInv'
    BY <1>0, <1>2, IdleLimiter, FollowedKeeps DEF Revoke
  <2> QED BY <1>0, <1>2, <2>1, RevokeKeeps DEF ReqInv
<1>3. ASSUME NEW k \in Keys, NEW t \in Expiries, Provision(k, t) PROVE ReqInv'
  <2>1. LimiterInv' /\ RequestInv'
    BY <1>0, <1>3, IdleLimiter, FollowedKeeps DEF Provision
  <2> QED BY <1>0, <1>3, <2>1, ProvisionKeeps DEF ReqInv
<1> QED BY <1>1, <1>2, <1>3 DEF Outside

-----------------------------------------------------------------------------
(* The specification                                                       *)

LEMMA ReqInitInv == ReqInit => ReqInv
<1> SUFFICES ASSUME ReqInit PROVE ReqInv
  OBVIOUS
<1>1. LimiterInv /\ now \in 0..Horizon
  BY RateLimiterAssumption, NothingCounted DEF ReqInit, RlInit
<1>2. CredInv
  BY <1>1 DEF ReqInit, CredInit, CredInv, StatusInv, CredTypeOK, RevokedInv
<1>3. NoRequest \in Request /\ NoRequest.pc = "idle" /\ NoRequest.answer = "none"
      /\ NoRequest.effect = "none" /\ ~NoRequest.audited /\ ~NoRequest.always /\ ~NoRequest.late
  BY DEF NoRequest, Request, ReqPc, Kinds, Answers, Effects
<1>4. RequestOK(NoRequest)
  BY <1>3 DEF RequestOK, Served, MayAnswer
<1>5. RequestInv
  BY <1>3, <1>4, RequestsAssumption DEF ReqInit, RequestInv
<1> QED BY <1>1, <1>2, <1>5 DEF ReqInv

\* What a step of a request does to what it shares with the others.
LEMMA StepShares ==
  ASSUME ReqInv, NEW s \in Slots, Step(s)
  PROVE  ReqInv'
<1>0. LimiterInv /\ CredInv /\ RequestInv
  BY DEF ReqInv
<1>1. CASE LookupFinds(s)
  BY <1>0, <1>1, LookupFindsKeeps, IdleLimiter, IdleCredentials DEF LookupFinds, ReqInv, rlVars
<1>2. CASE LookupMisses(s)
  BY <1>0, <1>2, LookupMissesKeeps, IdleLimiter DEF LookupMisses, ReqInv
<1>3. CASE LookupFails(s)
  BY <1>0, <1>3, LookupFailsKeeps, IdleLimiter, IdleCredentials DEF LookupFails, ReqInv, rlVars
<1>4. CASE Touch(s)
  BY <1>0, <1>4, TouchKeeps, IdleLimiter, IdleCredentials DEF Touch, ReqInv, rlVars
<1>5. CASE Admit(s)
  <2>1. UNCHANGED <<now, credVars>>
    BY <1>5 DEF Admit, OpenWindow, CountAttempt
  <2> QED BY <1>0, <1>5, <2>1, AdmitKeeps, IdleCredentials DEF ReqInv
<1>6. CASE Throttle(s)
  <2>1. UNCHANGED <<now, credVars>>
    BY <1>6 DEF Throttle, Refuse
  <2> QED BY <1>0, <1>6, <2>1, ThrottleKeeps, IdleCredentials DEF ReqInv
<1>7. CASE Serve(s)
  BY <1>0, <1>7, ServeKeeps, IdleLimiter, IdleCredentials DEF Serve, ReqInv, rlVars
<1>12. CASE Write(s)
  BY <1>0, <1>12, WriteKeeps, IdleLimiter, IdleCredentials DEF Write, ReqInv, rlVars
<1>8. CASE Audit(s)
  BY <1>0, <1>8, AuditKeeps, IdleLimiter, IdleCredentials DEF Audit, ReqInv, rlVars
<1>9. CASE ProbeReady(s)
  BY <1>0, <1>9, ProbeReadyKeeps, IdleLimiter DEF ProbeReady, ReqInv
<1>10. CASE StatusTimesOut(s)
  BY <1>0, <1>10, StatusTimesOutKeeps, IdleLimiter, IdleCredentials DEF StatusTimesOut, ReqInv, rlVars
<1>11. CASE ProbeSchema(s)
  BY <1>0, <1>11, ProbeSchemaKeeps, IdleLimiter, IdleCredentials DEF ProbeSchema, ReqInv, rlVars
<1> QED BY <1>1, <1>2, <1>3, <1>4, <1>5, <1>6, <1>7, <1>8, <1>9, <1>10, <1>11, <1>12 DEF Step

LEMMA ReqStepInv == ASSUME ReqInv, [ReqNext]_allVars PROVE ReqInv'
<1>0. LimiterInv /\ CredInv /\ RequestInv
  BY DEF ReqInv
<1>1. ASSUME NEW s \in Slots, NEW k \in Keys \union {Unknown, Nil}, NEW kind \in Kinds,
             Arrive(s, k, kind)
      PROVE  ReqInv'
  BY <1>0, <1>1, ArriveKeeps, IdleLimiter, IdleCredentials DEF Arrive, ReqInv, rlVars
<1>2. ASSUME NEW s \in Slots, Step(s) PROVE ReqInv'
  BY <1>2, StepShares
<1>3. CASE StatusAnswered
  BY <1>0, <1>3, StatusAnsweredKeeps, IdleLimiter DEF StatusAnswered, ReqInv
<1>4. CASE CountUsable /\ UNCHANGED reqVars
  <2>1. UNCHANGED <<rlVars, store, revoked>> /\ UNCHANGED <<now, store, revoked, req, served>>
    BY <1>4 DEF CountUsable, rlVars, reqVars
  <2>2. RequestInv'
    BY <1>0, <2>1 DEF RequestInv, RequestOK, Usable
  <2> QED BY <1>0, <1>4, <2>1, <2>2, CountUsableKeeps, IdleLimiter DEF ReqInv
<1>5. CASE Outside
  BY <1>5, OutsideKeeps
<1>6. CASE Restart
  BY <1>0, <1>6, RestartKeeps, ForgetKeepsInv, ForgetKeepsCredentials DEF Restart, ReqInv
<1>7. CASE UNCHANGED allVars
  <2>1. RequestInv'
    BY <1>0, <1>7 DEF allVars, rlVars, credVars, reqVars, RequestInv, RequestOK, Usable
  <2> QED BY <1>0, <1>7, <2>1, IdleLimiter, IdleCredentials DEF allVars, rlVars, ReqInv
<1> QED BY <1>1, <1>2, <1>3, <1>4, <1>5, <1>6, <1>7 DEF ReqNext

LEMMA ReqInvariant == ReqSpec => []ReqInv
BY ReqInitInv, ReqStepInv, PTL DEF ReqSpec

\* The state of the limiter, of the credentials and of the requests is what it
\* is declared to be, whatever the requests, the operators and restarts do.
THEOREM ReqTypeCorrect == ReqSpec => []ReqTypeOK
<1>1. ReqInv => ReqTypeOK
  BY DEF ReqInv, LimiterInv, CredInv, StatusInv, RequestInv, ReqTypeOK
<1> QED BY <1>1, ReqInvariant, PTL

\* The limiter as the API uses it, one counter per key and restarts included:
\* in any span as long as a window a key is admitted fewer than twice its limit,
\* which is more than its limit if the span meets two windows.
THEOREM ApiBoundsBursts == ReqSpec => []BurstIsBounded
<1>1. ReqInv => BurstIsBounded
  BY DEF ReqInv, LimiterInv
<1> QED BY <1>1, ReqInvariant, PTL

\* Every request is verified against the store: nobody is refused for the
\* status of it whose key could be used from the arrival of the request on.
THEOREM UsableKeysAreAdmitted == ReqSpec => []UsableIsAdmitted
<1>1. ReqInv => UsableIsAdmitted
  BY DEF ReqInv, RequestInv, RequestOK, UsableIsAdmitted, Rejections
<1> QED BY <1>1, ReqInvariant, PTL

\* A request that arrives after its key was revoked is not served, in any
\* order of the awaits and whatever is provisioned meanwhile.
THEOREM RevokedKeysAreRefused == ReqSpec => []RevokedIsRefused
<1>1. ReqInv => RevokedIsRefused
  BY DEF ReqInv, RequestInv, RequestOK, RevokedIsRefused
<1> QED BY <1>1, ReqInvariant, PTL

\* "done" is answered exactly if the service completed, a write that stopped on
\* the way is answered as a failure or refusal of the service, any other answer
\* means that nothing was written, and the audit log has no entry of a write
\* that did not complete, whatever the limits, the failures and the restarts.
THEOREM AnswersAreHonest == ReqSpec => []AnswersMatchEffects
<1>1. ReqInv => AnswersMatchEffects
  BY DEF ReqInv, RequestInv, RequestOK, MayAnswer, AnswersMatchEffects, At
<1> QED BY <1>1, ReqInvariant, PTL

LEMMA EndedTold ==
  ASSUME NEW r \in Request, NEW answer
  PROVE  /\ Ended(r, answer).told \in {r.told, Nil}
         /\ answer \in Rejections => Ended(r, answer).told = r.told
BY DEF Ended, Request

LEMMA InformedTold ==
  ASSUME NEW r \in Request, NEW state \in State
  PROVE  Informed(r, state).told = state
<1> DEFINE q == [r EXCEPT !.told = state]
<1>1. q \in Request /\ q.told = state /\ [q EXCEPT !.pc = "schema"].told = state
  BY DEF Request
<1>2. Informed(r, state) = [q EXCEPT !.pc = "schema"] \/ Informed(r, state) = Ended(q, Rejection(state))
  BY DEF Informed
<1>3. Rejection(state) \in Rejections
  BY DEF Rejection, Rejections
<1> HIDE DEF q
<1> QED BY <1>1, <1>2, <1>3, EndedTold

\* Where a request has the status from.
Told(s) ==
  \/ req'[s].told \in {req[s].told, Nil, "unavailable"}
  \/ Fresh /\ req'[s].told = cached.state
  \/ query # Nil /\ req'[s].told = query.state

LEMMA OneRequestTold ==
  ASSUME RequestInv, NEW o \in Slots, NEW r, req' = [req EXCEPT ![o] = r],
         \/ r.told \in {req[o].told, Nil, "unavailable"}
         \/ Fresh /\ r.told = cached.state
  PROVE  \A s \in Slots : Told(s)
BY DEF RequestInv, Told

LEMMA AnswerTold ==
  ASSUME RequestInv, NEW o \in Slots, NEW answer, Answer(o, answer)
  PROVE  \A s \in Slots : Told(s)
BY RequestOfSlot, EndedTold, OneRequestTold DEF Answer

LEMMA GotoTold ==
  ASSUME RequestInv, NEW o \in Slots, NEW pc, Goto(o, pc)
  PROVE  \A s \in Slots : Told(s)
<1> DEFINE r == [req[o] EXCEPT !.pc = pc]
<1>1. req' = [req EXCEPT ![o] = r] /\ r.told = req[o].told
  BY RequestOfSlot DEF Goto, Request
<1> HIDE DEF r
<1> QED BY <1>1, OneRequestTold

LEMMA AskStatusTold ==
  ASSUME ReqInv, NEW o \in Slots, NEW r \in Request, r.told = req[o].told, AskStatus(o, r)
  PROVE  \A s \in Slots : Told(s)
<1>0. RequestInv
  BY DEF ReqInv
<1>1. CASE Fresh /\ req' = [req EXCEPT ![o] = Informed(r, cached.state)]
  <2>1. cached.state \in State
    BY <1>1 DEF ReqInv, CredInv, StatusInv, CredTypeOK, Fresh, Status
  <2> QED BY <1>0, <1>1, <2>1, InformedTold, OneRequestTold
<1>2. CASE req' = [req EXCEPT ![o] = [r EXCEPT !.pc = "status"]]
  <2> DEFINE q == [r EXCEPT !.pc = "status"]
  <2>1. q.told = req[o].told /\ req' = [req EXCEPT ![o] = q]
    BY <1>2 DEF Request
  <2> HIDE DEF q
  <2> QED BY <1>0, <2>1, OneRequestTold
<1> QED BY <1>1, <1>2 DEF AskStatus

LEMMA StepTold ==
  ASSUME ReqInv, NEW o \in Slots, Step(o)
  PROVE  \A s \in Slots : Told(s)
<1>0. RequestInv /\ req[o] \in Request
  BY RequestOfSlot DEF ReqInv
<1>1. CASE LookupFinds(o) \/ Touch(o)
  BY <1>0, <1>1, GotoTold DEF LookupFinds, Touch
<1>2. CASE LookupFails(o) \/ Throttle(o) \/ ProbeSchema(o)
  BY <1>0, <1>2, AnswerTold DEF LookupFails, Throttle, ProbeSchema
<1>3. CASE Admit(o)
  BY <1>0, <1>3, GotoTold, AnswerTold DEF Admit
<1>4. CASE LookupMisses(o)
  BY <1>0, <1>4, AskStatusTold DEF LookupMisses
<1>5. CASE ProbeReady(o)
  <2>1. PICK down \in BOOLEAN : AskStatus(o, [req[o] EXCEPT !.down = down])
    BY <1>5 DEF ProbeReady
  <2>2. [req[o] EXCEPT !.down = down] \in Request /\ [req[o] EXCEPT !.down = down].told = req[o].told
    BY <1>0 DEF Request
  <2> QED BY <2>1, <2>2, AskStatusTold
<1>6. CASE StatusTimesOut(o)
  <2>1. Informed(req[o], "unavailable").told = "unavailable"
    BY <1>0, InformedTold DEF State
  <2> QED BY <1>0, <1>6, <2>1, OneRequestTold DEF StatusTimesOut
<1>7. CASE Serve(o)
  <2>1. CASE \E answer \in {"read", "refused", "internal_error"} : Answer(o, answer)
    BY <1>0, <2>1, AnswerTold
  <2>2. CASE req' = [req EXCEPT ![o].effect = "begun", ![o].pc = "writes"]
    BY <1>0, <2>2 DEF RequestInv, Request, Told
  <2>3. CASE Goto(o, "audit")
    BY <1>0, <2>3, GotoTold
  <2> QED BY <1>7, <2>1, <2>2, <2>3 DEF Serve
<1>9. CASE Write(o)
  <2>1. CASE \E answer \in {"refused", "internal_error"} : Answer(o, answer)
    BY <1>0, <2>1, AnswerTold
  <2>2. CASE req' = [req EXCEPT ![o].effect = "complete", ![o].pc = "audit"]
    BY <1>0, <2>2 DEF RequestInv, Request, Told
  <2> QED BY <1>9, <2>1, <2>2 DEF Write
<1>8. CASE Audit(o)
  <2>1. PICK audited \in BOOLEAN :
          req' = [req EXCEPT ![o] = Ended([@ EXCEPT !.audited = audited], Success(@))]
    BY <1>8 DEF Audit
  <2> DEFINE q == [req[o] EXCEPT !.audited = audited]
  <2>2. q \in Request /\ q.told = req[o].told
    BY <1>0 DEF Request
  <2>3. req' = [req EXCEPT ![o] = Ended(q, Success(req[o]))]
    BY <2>1
  <2> HIDE DEF q
  <2>4. Ended(q, Success(req[o])).told \in {req[o].told, Nil}
    BY <2>2, EndedTold
  <2> QED BY <1>0, <2>3, <2>4, OneRequestTold
<1> QED BY <1>1, <1>2, <1>3, <1>4, <1>5, <1>6, <1>7, <1>8, <1>9 DEF Step

LEMMA NextTold ==
  ASSUME ReqInv, ReqNext
  PROVE  \A s \in Slots : Told(s)
<1>0. RequestInv
  BY DEF ReqInv
<1>1. ASSUME NEW o \in Slots, NEW k, NEW kind, Arrive(o, k, kind)
      PROVE  \A s \in Slots : Told(s)
  <2>1. PICK usable, late, pc : req' = [req EXCEPT ![o] = Arrived(k, kind, usable, late, pc)]
    BY <1>1 DEF Arrive, Arrived
  <2>2. Arrived(k, kind, usable, late, pc).told = Nil
    BY DEF Arrived, NoRequest
  <2> QED BY <1>0, <2>1, <2>2, OneRequestTold
<1>2. CASE StatusAnswered
  <2>1. query # Nil /\ query.state \in State
    BY <1>2 DEF StatusAnswered, KeepStatus, ReqInv, CredInv, StatusInv, CredTypeOK, Query
  <2>2. ASSUME NEW s \in Slots PROVE Told(s)
    <3>1. req[s] \in Request
      BY <1>0, RequestOfSlot
    <3>2. req'[s] = req[s] \/ req'[s] = Informed(req[s], query.state)
      BY <1>2 DEF StatusAnswered
    <3> QED BY <2>1, <3>1, <3>2, InformedTold DEF Told
  <2> QED BY <2>2
<1>3. CASE CountUsable /\ UNCHANGED reqVars
  BY <1>3 DEF reqVars, Told
<1>4. CASE Outside
  <2>1. ASSUME NEW s \in Slots PROVE Told(s)
    <3>1. req[s] \in Request
      BY <1>0, RequestOfSlot
    <3>2. req'[s].told = req[s].told
      BY <1>4, <3>1 DEF Outside, Followed, Request
    <3> QED BY <3>2 DEF Told
  <2> QED BY <2>1
<1>5. CASE Restart
  <2>1. ASSUME NEW s \in Slots PROVE Told(s)
    <3>1. req[s] \in Request
      BY <1>0, RequestOfSlot
    <3>2. req'[s] = req[s] \/ req'[s] = Ended(req[s], "lost")
      BY <1>5 DEF Restart
    <3> QED BY <3>1, <3>2, EndedTold DEF Told
  <2> QED BY <2>1
<1> QED BY <1>1, <1>2, <1>3, <1>4, <1>5, StepTold DEF ReqNext

\* The status that is told was true within the last StatusTtl + QueryTicks,
\* however many wait for one query and however it fails.
THEOREM StatusesAreRecent == ReqSpec => StatusIsRecent
<1> DEFINE Recent ==
      \A s \in Slots :
        req[s].told = Nil /\ req'[s].told \in {"ready", "empty"} =>
          \/ req'[s].told = StateOf(store, now)
          \/ turned # Nil /\ now - turned <= StatusTtl + QueryTicks
<1>1. ReqInv /\ [ReqNext]_allVars => [Recent]_allVars
  <2> SUFFICES ASSUME ReqInv, ReqNext, NEW s \in Slots,
                      req[s].told = Nil, req'[s].told \in {"ready", "empty"}
               PROVE  \/ req'[s].told = StateOf(store, now)
                      \/ turned # Nil /\ now - turned <= StatusTtl + QueryTicks
    OBVIOUS
  <2>0. /\ now \in Nat /\ StatusTtl \in Nat /\ QueryTicks \in Nat
        /\ (turned # Nil => turned \in Nat) /\ Nil \notin {"ready", "empty"}
    BY CredentialsAssumption, RateLimiterAssumption
       DEF ReqInv, CredInv, StatusInv, CredTypeOK, State
  <2>1. Told(s)
    BY NextTold
  <2>2. CASE Fresh /\ req'[s].told = cached.state
    <3>1. /\ cached.at \in Nat /\ now - cached.at < StatusTtl
          /\ TrueSince(cached.state, cached.at - QueryTicks)
      BY <2>2, RateLimiterAssumption DEF Fresh, ReqInv, CredInv, StatusInv, CredTypeOK, Status
    <3> QED BY <2>0, <2>2, <3>1 DEF TrueSince
  <2>3. CASE query # Nil /\ req'[s].told = query.state
    <3>1. /\ query.since \in Nat /\ now - query.since <= QueryTicks
          /\ TrueSince(query.state, query.since)
      BY <2>3, RateLimiterAssumption DEF ReqInv, CredInv, StatusInv, CredTypeOK, Query
    <3> QED BY <2>0, <2>3, <3>1 DEF TrueSince
  <2> QED BY <2>0, <2>1, <2>2, <2>3 DEF Told
<1> QED BY <1>1, ReqInvariant, PTL DEF ReqSpec, StatusIsRecent

=============================================================================
