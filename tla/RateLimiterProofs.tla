-------------------------- MODULE RateLimiterProofs --------------------------
(***************************************************************************)
(* Proofs about RateLimiter, for any keys, limit, window and number of     *)
(* errors.                                                                 *)
(*                                                                         *)
(* A key that exists was set Window - ttl ticks ago, so the requests of    *)
(* its window are those of the ages up to that one, and older requests are *)
(* of the window before.  WindowInv counts both: the request that opened   *)
(* the window before is older than the history goes back, and takes one    *)
(* of the Limit with it.                                                   *)
(***************************************************************************)
EXTENDS RateLimiter, SumLemmas

\* The requests in h of at most m ticks ago, and the age of a key that exists.
Upto(h, m) == SumFunctionOnSet(h, 0..m)
Age(k) == Window - ttl[k]

\* A key that does not exist: nothing has passed since the last tick, and the
\* opener of the last window is out of the span.
ClosedInv(k) ==
    ttl[k] = 0 =>
        count[k] = 0 /\ passed[k][0] = 0 /\ Upto(passed[k], Window - 1) <= Limit - 1

\* A key that exists: those that passed in its window were counted, its opener
\* among the oldest of them; before it at most Limit - 1 have passed.
OpenInv(k) ==
    ttl[k] > 0 =>
        /\ count[k] > 0
        /\ Upto(passed[k], Age(k)) <= Capped(count[k], Limit)
        /\ Upto(passed[k], Age(k) - 1) <= Capped(count[k], Limit) - 1
        /\ Upto(passed[k], Window - 1) <= Upto(passed[k], Age(k)) + (Limit - 1)

\* The counter counts no more than the script was run in this window.
CountInv(k) == ttl[k] > 0 => Capped(count[k], Limit) <= Upto(counted[k], Age(k))

WindowInv == \A k \in Keys : ClosedInv(k) /\ OpenInv(k) /\ CountInv(k)

-----------------------------------------------------------------------------
\* The state is well typed at first.
LEMMA InitTypeOK == Init => TypeOK
  BY LimitAssumption, ErrorsAssumption DEF Init, TypeOK, Ages

\* Every step keeps the types: the counter stays within its cap, the time to
\* live within the window.
LEMMA NextTypeOK == TypeOK /\ [Next]_vars => TypeOK'
<1> SUFFICES ASSUME TypeOK, [Next]_vars PROVE TypeOK'
  OBVIOUS
<1> USE LimitAssumption, ErrorsAssumption
<1>0. 0 \in Ages
  BY DEF Ages
<1>1. ASSUME NEW k \in Keys, IncrExpireScript(k)
      PROVE  /\ count' \in [Keys -> 0..(Limit + 1)]
             /\ ttl' \in [Keys -> 0..Window]
             /\ counted' \in [Keys -> [Ages -> Nat]]
  BY <1>0, <1>1 DEF IncrExpireScript, TypeOK, Capped
<1>2. ASSUME NEW k \in Keys, RateLimited(k) PROVE TypeOK'
  <2>1. IncrExpireScript(k) /\ errors' = errors
    BY <1>2 DEF RateLimited
  <2>2. passed' \in [Keys -> [Ages -> Nat]]
    <3>1. passed[k] \in [Ages -> Nat] /\ [passed[k] EXCEPT ![0] = @ + 1] \in [Ages -> Nat]
      BY <1>0 DEF TypeOK
    <3>2. passed' = passed \/ passed' = [passed EXCEPT ![k] = [passed[k] EXCEPT ![0] = @ + 1]]
      BY <1>2 DEF RateLimited, TypeOK
    <3>3. QED
      BY <3>1, <3>2 DEF TypeOK
  <2>3. answer' \in [Keys -> {"none", "passed", "refused", "error"}]
    BY <1>2 DEF RateLimited, TypeOK
  <2>4. QED
    BY <1>1, <2>1, <2>2, <2>3 DEF TypeOK
<1>3. ASSUME NEW k \in Keys, RedisError(k) PROVE TypeOK'
  BY <1>1, <1>3 DEF RedisError, TypeOK
<1>4. CASE Tick
  <2>1. \A a \in Ages : a # 0 => a - 1 \in Ages
    BY DEF Ages
  <2>2. passed' \in [Keys -> [Ages -> Nat]] /\ counted' \in [Keys -> [Ages -> Nat]]
    BY <1>4, <2>1 DEF Tick, Older, TypeOK
  <2>3. QED
    BY <1>4, <2>2 DEF Tick, TypeOK
<1>5. CASE UNCHANGED vars
  BY <1>5 DEF vars, TypeOK
<1>6. QED
  BY <1>2, <1>3, <1>4, <1>5 DEF Next

-----------------------------------------------------------------------------
\* Sums over the recent past

\* The sum over the recent past: the present, and one age more at a time.
LEMMA UptoStep ==
    ASSUME NEW h \in [Ages -> Nat]
    PROVE  /\ Upto(h, -1) = 0
           /\ Upto(h, 0) = h[0] /\ h[0] \in Nat
           /\ \A m \in Ages : Upto(h, m) \in Nat /\ Upto(h, m - 1) \in Nat
           /\ \A m \in Ages : Upto(h, m) = h[m] + Upto(h, m - 1)
<1> USE LimitAssumption
<1>1. ASSUME NEW m \in Ages \cup {-1}
      PROVE  IsFiniteSet(0..m) /\ \A a \in 0..m : h[a] \in Nat
  <2>1. m \in Int /\ \A a \in 0..m : a \in Ages
    BY DEF Ages
  <2>2. QED
    BY <2>1, FS_Interval
<1>2. \A m \in Ages \cup {-1} : Upto(h, m) \in Nat
  BY <1>1, SumNat DEF Upto
<1>3. ASSUME NEW m \in Ages
      PROVE  Upto(h, m) = h[m] + Upto(h, m - 1)
  <2>1. m \in 0..m /\ (0..m) \ {m} = 0..(m - 1)
    BY DEF Ages
  <2>2. SumFunctionOnSet(h, 0..m) = h[m] + SumFunctionOnSet(h, (0..m) \ {m})
    BY <1>1, <2>1, SumRemove
  <2>3. QED
    BY <2>1, <2>2 DEF Upto
<1>4. Upto(h, -1) = 0
  <2>1. 0..(-1) = {}
    OBVIOUS
  <2>2. QED
    BY <2>1, SumEmpty DEF Upto
<1>5. 0 \in Ages /\ 0 - 1 = -1 /\ \A m \in Ages : m - 1 \in Ages \cup {-1}
  BY DEF Ages
<1>6. h[0] \in Nat /\ Upto(h, 0) = h[0]
  BY <1>3, <1>4, <1>5
<1>7. QED
  BY <1>2, <1>3, <1>4, <1>5, <1>6

\* The sum grows with the span.
LEMMA UptoMonotone ==
    ASSUME NEW h \in [Ages -> Nat], NEW m \in Ages
    PROVE  Upto(h, m) <= Upto(h, Window - 1)
<1>1. 0..m \in SUBSET (0..(Window - 1)) /\ \A a \in 0..(Window - 1) : h[a] \in Nat
  BY LimitAssumption DEF Ages
<1>2. IsFiniteSet(0..(Window - 1))
  BY LimitAssumption, FS_Interval
<1>3. QED
  BY <1>1, <1>2, SumMonotone DEF Upto

\* A change of the present changes every sum by the same.
LEMMA UptoPresent ==
    ASSUME NEW h \in [Ages -> Nat], NEW n \in Nat, NEW m \in Ages
    PROVE  Upto([h EXCEPT ![0] = n], m) + h[0] = Upto(h, m) + n
<1> DEFINE g == [h EXCEPT ![0] = n]
<1>1. /\ m \in Int /\ 0 \in 0..m /\ 0 \in Ages
      /\ \A a \in 0..m : a \in Ages
  BY LimitAssumption DEF Ages
<1>2. /\ \A a \in 0..m : h[a] \in Nat /\ g[a] \in Nat
      /\ \A a \in (0..m) \ {0} : g[a] = h[a]
      /\ g[0] = n
  BY <1>1
<1> HIDE DEF g
<1>3. IsFiniteSet(0..m)
  BY <1>1, FS_Interval
<1>4. SumFunctionOnSet(g, 0..m) + h[0] = SumFunctionOnSet(h, 0..m) + g[0]
  BY <1>1, <1>2, <1>3, SumChange
<1>5. QED
  BY <1>2, <1>4 DEF Upto, g

\* A tick moves the sums by one age.
LEMMA UptoOlder ==
    ASSUME NEW h \in [Keys -> [Ages -> Nat]], NEW k \in Keys, NEW m \in Ages
    PROVE  Upto(Older(h)[k], m) = Upto(h[k], m - 1)
<1> USE LimitAssumption
<1> DEFINE g == Older(h)[k]
           N == Window - 1
           T == {n \in Nat : n \in 0..N /\ Upto(g, n) = Upto(h[k], n - 1)}
<1>1. \A a \in Ages : a # 0 => a - 1 \in Ages
  BY DEF Ages
<1>2. g \in [Ages -> Nat] /\ \A a \in Ages : g[a] = IF a = 0 THEN 0 ELSE h[k][a - 1]
  BY <1>1 DEF Older
<1>3. h[k] \in [Ages -> Nat] /\ N \in Nat /\ Ages = 0..N
  BY DEF Ages
<1> HIDE DEF g
<1>4. 0 \in T
  <2>1. Upto(g, 0) = 0
    BY <1>2, <1>3, UptoStep
  <2>2. Upto(h[k], -1) = 0
    BY <1>3, UptoStep
  <2>3. QED
    BY <1>3, <2>1, <2>2
<1>5. ASSUME NEW n \in 0..(N - 1), n \in T PROVE n + 1 \in T
  <2>1. n \in Ages /\ n + 1 \in Ages /\ n + 1 # 0 /\ (n + 1) - 1 = n /\ n \in Nat
    BY <1>3
  <2>2. Upto(g, n + 1) = g[n + 1] + Upto(g, n)
    BY <1>2, <2>1, UptoStep
  <2>3. Upto(h[k], n) = h[k][n] + Upto(h[k], n - 1)
    BY <1>3, <2>1, UptoStep
  <2>4. g[n + 1] = h[k][n]
    BY <1>2, <2>1
  <2>5. Upto(g, n) = Upto(h[k], n - 1)
    BY <1>5
  <2>6. QED
    BY <1>3, <2>1, <2>2, <2>3, <2>4, <2>5
<1>6. m \in T
  <2> HIDE DEF T
  <2>1. \A n \in 0..N : n \in T
    BY <1>3, <1>4, <1>5, CountUp
  <2>2. QED
    BY <1>3, <2>1
<1>7. QED
  BY <1>6 DEF g

-----------------------------------------------------------------------------
\* At first no key exists and nothing has passed.
LEMMA InitWindowInv == Init => WindowInv
<1> SUFFICES ASSUME Init, NEW k \in Keys
             PROVE  ClosedInv(k) /\ OpenInv(k) /\ CountInv(k)
  BY DEF WindowInv
<1> USE LimitAssumption
<1>1. ttl[k] = 0 /\ count[k] = 0 /\ answer[k] = "none"
  BY DEF Init
<1>2. passed[k] = [a \in Ages |-> 0] /\ 0 \in Ages
  BY DEF Init, Ages
<1>3. Upto(passed[k], Window - 1) <= Cardinality(0..(Window - 1)) * 0
  <2>1. IsFiniteSet(0..(Window - 1)) /\ \A a \in 0..(Window - 1) : passed[k][a] = 0
    BY <1>2, FS_Interval DEF Ages
  <2>2. QED
    BY <2>1, SumBound DEF Upto
<1>4. Cardinality(0..(Window - 1)) * 0 = 0
  BY FS_Interval
<1>5. Upto(passed[k], Window - 1) <= Limit - 1
  <2>1. Window - 1 \in Ages /\ passed[k] \in [Ages -> Nat]
    BY <1>2 DEF Ages
  <2>2. Upto(passed[k], Window - 1) \in Nat
    BY <2>1, UptoStep
  <2>3. QED
    BY <1>3, <1>4, <2>2
<1>6. QED
  BY <1>1, <1>2, <1>5 DEF ClosedInv, OpenInv, CountInv

\* The request that the script counts is let through (d = 1) or not (d = 0).
Lets(k, d) ==
    /\ d \in {0, 1}
    /\ d = 1 => count[k] < Limit
    /\ passed'[k] = [passed[k] EXCEPT ![0] = @ + d]

\* A run of the script keeps the accounts of its key, whether its answer arrives
\* or not.
LEMMA ScriptKeepsWindow ==
    ASSUME TypeOK, NEW k \in Keys, ClosedInv(k), OpenInv(k), CountInv(k), IncrExpireScript(k),
           NEW d, Lets(k, d)
    PROVE  (ClosedInv(k) /\ OpenInv(k) /\ CountInv(k))'
<1> USE LimitAssumption
<1>0. d \in {0, 1} /\ (d = 1 => count[k] < Limit) /\ passed'[k] = [passed[k] EXCEPT ![0] = @ + d]
  BY DEF Lets
<1> DEFINE h == passed[k]
           g == passed'[k]
           c == count[k]
           m == Window - ttl'[k]
           cap == Capped(c, Limit)
           cap2 == Capped(c + 1, Limit)
<1>1. /\ h \in [Ages -> Nat] /\ counted[k] \in [Ages -> Nat]
      /\ c \in 0..(Limit + 1) /\ ttl[k] \in 0..Window /\ 0 \in Ages
  BY DEF TypeOK, Ages
<1>2. /\ count'[k] = Capped(c + 1, Limit + 1)
      /\ ttl'[k] = IF c = 0 THEN Window ELSE ttl[k]
      /\ counted'[k] = [counted[k] EXCEPT ![0] = Capped(@ + 1, Limit)]
  BY DEF IncrExpireScript, TypeOK
<1>3. c = 0 <=> ttl[k] = 0
  BY <1>1 DEF ClosedInv, OpenInv
<1>4. ttl'[k] \in 1..Window /\ m \in Ages /\ Window - 1 \in Ages
  <2>1. ttl'[k] \in 1..Window
    BY <1>1, <1>2, <1>3
  <2>2. QED
    BY <2>1 DEF Ages
<1>5. /\ count'[k] > 0 /\ Capped(count'[k], Limit) = cap2
      /\ d = 1 => cap2 = cap + 1
      /\ cap <= cap2 /\ cap2 <= cap + 1 /\ cap2 >= 1
      /\ cap \in Nat /\ cap2 \in Nat
  BY <1>0, <1>1, <1>2 DEF Capped
<1>6. g \in [Ages -> Nat] /\ h[0] \in Nat /\ d \in Nat /\ h[0] + d \in Nat
  BY <1>0, <1>1
<1>7. \A n \in Ages : Upto(g, n) = Upto(h, n) + d /\ Upto(h, n) \in Nat
  <2>1. SUFFICES ASSUME NEW n \in Ages PROVE Upto(g, n) = Upto(h, n) + d /\ Upto(h, n) \in Nat
    OBVIOUS
  <2>2. g = [h EXCEPT ![0] = h[0] + d]
    BY <1>0
  <2> HIDE DEF g, h
  <2>3. Upto(g, n) + h[0] = Upto(h, n) + (h[0] + d)
    BY <1>1, <1>6, <2>2, UptoPresent
  <2>4. Upto(g, n) \in Nat /\ Upto(h, n) \in Nat
    BY <1>1, <1>6, UptoStep
  <2>5. QED
    BY <1>6, <2>3, <2>4
<1> HIDE DEF g, h, c, cap, cap2, m
<1>8. /\ Upto(g, m) <= cap2
      /\ Upto(g, m - 1) <= cap2 - 1
      /\ Upto(g, Window - 1) <= Upto(g, m) + (Limit - 1)
  <2>1. CASE c = 0
    <3>1. m = 0 /\ m - 1 = -1 /\ cap = 0
      BY <1>1, <1>2, <2>1 DEF m, cap, Capped
    <3>2. h[0] = 0 /\ Upto(h, Window - 1) <= Limit - 1
      BY <1>3, <2>1 DEF ClosedInv, h
    <3>3. Upto(h, 0) = 0 /\ Upto(g, -1) = 0
      BY <1>1, <1>6, <3>2, UptoStep
    <3>4. Upto(g, 0) = d /\ Upto(g, Window - 1) <= (Limit - 1) + d
      BY <1>1, <1>4, <1>6, <1>7, <3>2, <3>3
    <3>5. QED
      BY <1>0, <1>5, <3>1, <3>3, <3>4
  <2>2. CASE c # 0
    <3>1. /\ m = Window - ttl[k] /\ m = Age(k)
          /\ Upto(h, m) <= cap
          /\ Upto(h, m - 1) <= cap - 1
          /\ Upto(h, Window - 1) <= Upto(h, m) + (Limit - 1)
      BY <1>1, <1>2, <1>3, <2>2 DEF OpenInv, Age, m, h, c, cap
    <3>2. Upto(g, m) <= cap2 /\ Upto(g, Window - 1) <= Upto(g, m) + (Limit - 1)
      BY <1>0, <1>4, <1>5, <1>7, <3>1
    <3>3. CASE m = 0
      <4>1. Upto(g, -1) = 0
        BY <1>6, UptoStep
      <4>2. m - 1 = -1
        BY <3>3
      <4>3. QED
        BY <1>5, <3>2, <4>1, <4>2
    <3>4. CASE m # 0
      <4>1. m - 1 \in Ages
        BY <1>4, <3>4 DEF Ages
      <4>2. Upto(g, m - 1) = Upto(h, m - 1) + d /\ Upto(h, m - 1) \in Nat
        BY <1>7, <4>1
      <4>3. QED
        BY <1>0, <1>5, <3>1, <3>2, <4>2
    <3>5. QED
      BY <3>3, <3>4
  <2>3. QED
    BY <2>1, <2>2
<1>9. cap2 <= Upto(counted'[k], m)
  <2> DEFINE e == counted[k]
             n == Capped(e[0] + 1, Limit)
             i == counted'[k]
  <2>1. e[0] \in Nat /\ n \in Nat /\ (n = e[0] + 1 \/ n = Limit) /\ i = [e EXCEPT ![0] = n]
    BY <1>1, <1>2 DEF Capped
  <2>2. i \in [Ages -> Nat] /\ i[0] = n
    BY <1>1, <2>1
  <2> HIDE DEF e, n, i
  <2>3. Upto(i, m) + e[0] = Upto(e, m) + n
    BY <1>1, <1>4, <2>1, UptoPresent DEF e
  <2>4. Upto(i, m) \in Nat /\ Upto(e, m) \in Nat /\ Upto(i, 0) = n
    BY <1>1, <1>4, <2>2, UptoStep DEF e
  <2>5. cap <= Upto(e, m)
    <3>1. CASE c = 0
      <4>1. cap = 0
        BY <3>1 DEF cap, Capped
      <4>2. QED
        BY <2>4, <4>1
    <3>2. CASE c # 0
      BY <1>1, <1>2, <1>3, <3>2 DEF CountInv, Age, m, cap, c, e
    <3>3. QED
      BY <3>1, <3>2
  <2>6. CASE n = e[0] + 1
    <3>1. Upto(i, m) = Upto(e, m) + 1
      BY <2>1, <2>3, <2>4, <2>6
    <3>2. QED
      BY <1>5, <2>4, <2>5, <3>1 DEF i
  <2>7. CASE n = Limit
    <3>1. 0..0 \in SUBSET (0..m) /\ m \in Int /\ \A a \in 0..m : i[a] \in Nat
      BY <1>4, <2>2 DEF Ages
    <3>2. IsFiniteSet(0..m)
      BY <3>1, FS_Interval
    <3>3. Upto(i, 0) <= Upto(i, m)
      BY <3>1, <3>2, SumMonotone DEF Upto
    <3>4. cap2 <= Limit
      BY <1>1 DEF cap2, Capped
    <3>5. QED
      BY <1>5, <2>4, <2>7, <3>3, <3>4 DEF i
  <2>8. QED
    BY <2>1, <2>6, <2>7 DEF i
<1>10. ttl'[k] > 0 /\ ttl'[k] # 0
  BY <1>4
<1>11. QED
  BY <1>5, <1>8, <1>9, <1>10 DEF ClosedInv, OpenInv, CountInv, Age, m, g, c, cap2

\* RateLimitMiddleware keeps the accounts.
LEMMA RateLimitedKeepsWindow ==
    ASSUME TypeOK, WindowInv, NEW j \in Keys, RateLimited(j) PROVE WindowInv'
<1> SUFFICES ASSUME NEW k \in Keys
             PROVE  (ClosedInv(k) /\ OpenInv(k) /\ CountInv(k))'
  BY DEF WindowInv
<1> USE LimitAssumption
<1>1. IncrExpireScript(j)
  BY DEF RateLimited
<1>2. CASE k # j
  BY <1>1, <1>2 DEF RateLimited, IncrExpireScript, TypeOK, WindowInv, ClosedInv, OpenInv,
                    CountInv, Age
<1>3. CASE k = j
  <2>1. /\ count[k] \in 0..(Limit + 1) /\ ttl[k] \in 0..Window
        /\ passed[k] \in [Ages -> Nat] /\ 0 \in Ages
    BY DEF TypeOK, Ages
  <2>2. count'[k] = Capped(count[k] + 1, Limit + 1) /\ IncrExpireScript(k)
    BY <1>1, <1>3 DEF IncrExpireScript, TypeOK
  <2>3. ClosedInv(k) /\ OpenInv(k) /\ CountInv(k)
    BY DEF WindowInv
  <2>4. CASE count[k] < Limit
    <3>1. Allowed(k)
      BY <2>1, <2>2, <2>4 DEF Allowed, Capped
    <3>2. passed'[k] = [passed[k] EXCEPT ![0] = @ + 1] /\ answer'[k] = "passed"
      BY <1>3, <3>1 DEF RateLimited, TypeOK
    <3>3. Lets(k, 1)
      BY <2>4, <3>2 DEF Lets
    <3>4. (ClosedInv(k) /\ OpenInv(k) /\ CountInv(k))'
      BY <2>2, <2>3, <3>3, ScriptKeepsWindow
    <3>5. QED
      BY <3>2, <3>4
  <2>5. CASE ~(count[k] < Limit)
    <3>1. ~Allowed(k) /\ count'[k] = Limit + 1
      BY <2>1, <2>2, <2>5 DEF Allowed, Capped
    <3>2. passed' = passed
      BY <1>3, <3>1 DEF RateLimited
    <3>3. Lets(k, 0)
      BY <2>1, <3>2 DEF Lets
    <3>4. (ClosedInv(k) /\ OpenInv(k) /\ CountInv(k))'
      BY <2>2, <2>3, <3>3, ScriptKeepsWindow
    <3>5. QED
      BY <3>1, <3>4
  <2>6. QED
    BY <2>4, <2>5
<1>4. QED
  BY <1>2, <1>3

\* An error of Redis lets nobody through, counted or not.
LEMMA RedisErrorKeepsWindow ==
    ASSUME TypeOK, WindowInv, NEW j \in Keys, RedisError(j) PROVE WindowInv'
<1> SUFFICES ASSUME NEW k \in Keys
             PROVE  (ClosedInv(k) /\ OpenInv(k) /\ CountInv(k))'
  BY DEF WindowInv
<1> USE LimitAssumption
<1>1. passed' = passed /\ answer' = [answer EXCEPT ![j] = "error"]
  BY DEF RedisError
<1>2. ClosedInv(k) /\ OpenInv(k) /\ CountInv(k)
  BY DEF WindowInv
<1>3. CASE k # j
  BY <1>3 DEF RedisError, IncrExpireScript, TypeOK, WindowInv, ClosedInv, OpenInv,
              CountInv, Age
<1>4. CASE k = j /\ IncrExpireScript(j)
  <2>1. passed[k] \in [Ages -> Nat] /\ 0 \in Ages
    BY DEF TypeOK, Ages
  <2>2. Lets(k, 0)
    BY <1>1, <2>1 DEF Lets
  <2>3. (ClosedInv(k) /\ OpenInv(k) /\ CountInv(k))'
    BY <1>2, <1>4, <2>2, ScriptKeepsWindow
  <2>4. answer'[k] = "error"
    BY <1>1, <1>4 DEF TypeOK
  <2>5. QED
    BY <2>3, <2>4
<1>5. CASE k = j /\ UNCHANGED <<count, ttl, counted>>
  BY <1>1, <1>2, <1>5 DEF TypeOK, ClosedInv, OpenInv, CountInv, Age
<1>6. QED
  BY <1>3, <1>4, <1>5 DEF RedisError

\* A tick makes everything a unit older; a window that ends loses its opener.
LEMMA TickKeepsWindow ==
    ASSUME TypeOK, WindowInv, Tick PROVE WindowInv'
<1> SUFFICES ASSUME NEW k \in Keys
             PROVE  (ClosedInv(k) /\ OpenInv(k) /\ CountInv(k))'
  BY DEF WindowInv
<1> USE LimitAssumption
<1> DEFINE h == passed[k]
           g == Older(passed)[k]
           N == Window - 1
<1>1. ClosedInv(k) /\ OpenInv(k) /\ CountInv(k)
  BY DEF WindowInv
<1>2. /\ h \in [Ages -> Nat] /\ counted[k] \in [Ages -> Nat]
      /\ passed \in [Keys -> [Ages -> Nat]] /\ counted \in [Keys -> [Ages -> Nat]]
      /\ count[k] \in 0..(Limit + 1) /\ ttl[k] \in 0..Window
      /\ N \in Ages /\ 0 \in Ages /\ N \in Nat
  BY DEF TypeOK, Ages
<1>3. /\ ttl'[k] = IF ttl[k] > 0 THEN ttl[k] - 1 ELSE 0
      /\ count'[k] = IF ttl[k] = 1 THEN 0 ELSE count[k]
      /\ passed'[k] = g /\ counted'[k] = Older(counted)[k]
      /\ answer'[k] = answer[k]
  BY DEF Tick
<1>4. /\ \A m \in Ages : Upto(g, m) = Upto(h, m - 1)
      /\ \A m \in Ages : Upto(Older(counted)[k], m) = Upto(counted[k], m - 1)
  BY <1>2, UptoOlder
<1>5. g[0] = 0
  BY <1>2 DEF Older
<1>6. /\ Upto(h, N) \in Nat /\ Upto(h, N - 1) \in Nat /\ h[N] \in Nat
      /\ Upto(h, N) = h[N] + Upto(h, N - 1)
  BY <1>2, UptoStep
<1> HIDE DEF g, h, N
<1>7. Upto(g, N) = Upto(h, N - 1) /\ Upto(g, N) <= Upto(h, N)
  BY <1>2, <1>4, <1>6
<1>8. CASE ttl[k] = 0
  <2>1. /\ ttl'[k] = 0 /\ count'[k] = 0
        /\ Upto(h, N) <= Limit - 1
    BY <1>1, <1>3, <1>8 DEF ClosedInv, h, N
  <2>2. Upto(g, N) <= Limit - 1
    BY <1>6, <1>7, <2>1
  <2>3. QED
    <3>1. (OpenInv(k) /\ CountInv(k))'
      BY <2>1 DEF OpenInv, CountInv
    <3>2. ClosedInv(k)'
      BY <1>3, <1>5, <2>1, <2>2 DEF ClosedInv, N
    <3>3. QED
      BY <3>1, <3>2
<1>9. CASE ttl[k] = 1
  <2>1. /\ ttl'[k] = 0 /\ count'[k] = 0
    BY <1>3, <1>9
  <2>2. Age(k) = N
    BY <1>9 DEF Age, N
  <2>3. Upto(h, N - 1) <= Capped(count[k], Limit) - 1
    BY <1>1, <1>9, <2>2 DEF OpenInv, h
  <2>4. Capped(count[k], Limit) \in Nat /\ Capped(count[k], Limit) <= Limit
    BY <1>2 DEF Capped
  <2>5. Upto(g, N) <= Limit - 1
    BY <1>6, <1>7, <2>3, <2>4
  <2>6. QED
    <3>1. (OpenInv(k) /\ CountInv(k))'
      BY <2>1 DEF OpenInv, CountInv
    <3>2. ClosedInv(k)'
      BY <1>3, <1>5, <2>1, <2>5 DEF ClosedInv, N
    <3>3. QED
      BY <3>1, <3>2
<1>10. CASE ttl[k] > 1
  <2> DEFINE a == Age(k)
             cap == Capped(count[k], Limit)
  <2>0. ttl[k] \in 2..Window
    BY <1>2, <1>10
  <2>1. a \in Ages /\ a + 1 \in Ages /\ (a + 1) - 1 = a
    BY <2>0 DEF Age, Ages
  <2>2. /\ ttl'[k] > 0 /\ ttl'[k] # 0 /\ count'[k] = count[k]
        /\ Window - ttl'[k] = a + 1
    BY <1>2, <1>3, <1>10 DEF Age
  <2>3. /\ count[k] > 0
        /\ Upto(h, a) <= cap
        /\ Upto(h, a - 1) <= cap - 1
        /\ Upto(h, N) <= Upto(h, a) + (Limit - 1)
        /\ cap <= Upto(counted[k], a)
    BY <1>1, <2>0 DEF OpenInv, CountInv, h, N
  <2>4. Upto(h, a) \in Nat
    BY <1>2, <2>1, UptoStep
  <2> HIDE DEF a, cap
  <2>5. /\ Upto(g, a + 1) = Upto(h, a) /\ Upto(g, a) = Upto(h, a - 1)
        /\ Upto(Older(counted)[k], a + 1) = Upto(counted[k], a)
    BY <1>4, <2>1
  <2>6. Upto(g, N) <= Upto(g, a + 1) + (Limit - 1)
    BY <1>6, <1>7, <2>3, <2>4, <2>5
  <2>7. (OpenInv(k) /\ CountInv(k))'
    BY <1>3, <2>1, <2>2, <2>3, <2>5, <2>6 DEF OpenInv, CountInv, Age, cap, N
  <2>8. (ClosedInv(k))'
    BY <1>1, <1>3, <1>10, <2>2 DEF ClosedInv
  <2>9. QED
    BY <2>7, <2>8
<1>11. ttl[k] = 0 \/ ttl[k] = 1 \/ ttl[k] > 1
  <2>1. ttl[k] \in 0..Window
    BY <1>2
  <2>2. QED
    BY <2>1
<1>12. QED
  BY <1>8, <1>9, <1>10, <1>11

\* Every step keeps the accounts of every key.
LEMMA NextWindowInv == TypeOK /\ WindowInv /\ [Next]_vars => WindowInv'
<1> SUFFICES ASSUME TypeOK, WindowInv, [Next]_vars PROVE WindowInv'
  OBVIOUS
<1>1. CASE UNCHANGED vars
  BY <1>1 DEF vars, WindowInv, ClosedInv, OpenInv, CountInv, Age
<1>2. QED
  BY <1>1, RateLimitedKeepsWindow, RedisErrorKeepsWindow, TickKeepsWindow DEF Next

-----------------------------------------------------------------------------
\* Every variable of the limiter has its type: the counter of Redis is capped,
\* and no key is kept for longer than one window.
THEOREM TypeCorrect == Spec => []TypeOK
  BY InitTypeOK, NextTypeOK, PTL DEF Spec

\* WindowInv holds throughout.
THEOREM WindowInvariant == Spec => []WindowInv
  BY InitTypeOK, NextTypeOK, InitWindowInv, NextWindowInv, PTL DEF Spec

\* In any span of one window fewer than 2 * Limit requests get through the fixed
\* window of incrExpireScript, whatever the limit, the window and the errors of
\* Redis: at most Limit of the current window and Limit - 1 of the one before.
THEOREM RateBounded == Spec => []BelowTwiceLimit
<1>1. ASSUME TypeOK, WindowInv PROVE BelowTwiceLimit
  <2> SUFFICES ASSUME NEW k \in Keys PROVE Recent(passed, k) < 2 * Limit
    BY DEF BelowTwiceLimit
  <2> USE LimitAssumption
  <2>1. /\ passed[k] \in [Ages -> Nat] /\ count[k] \in 0..(Limit + 1) /\ ttl[k] \in 0..Window
        /\ Window - 1 \in Ages
    BY <1>1 DEF TypeOK, Ages
  <2>2. ClosedInv(k) /\ OpenInv(k) /\ Recent(passed, k) = Upto(passed[k], Window - 1)
    BY <1>1 DEF WindowInv, Recent, Upto, Ages
  <2>3. Upto(passed[k], Window - 1) \in Nat
    BY <2>1, UptoStep
  <2>4. CASE ttl[k] = 0
    BY <2>2, <2>3, <2>4 DEF ClosedInv
  <2>5. CASE ttl[k] > 0
    <3>1. Age(k) \in Ages
      BY <2>1, <2>5 DEF Age, Ages
    <3>2. Upto(passed[k], Age(k)) \in Nat
      BY <2>1, <3>1, UptoStep
    <3>3. Capped(count[k], Limit) \in Nat /\ Capped(count[k], Limit) <= Limit
      BY <2>1 DEF Capped
    <3>4. QED
      BY <2>2, <2>3, <2>5, <3>2, <3>3 DEF OpenInv
  <2>6. QED
    BY <2>1, <2>4, <2>5
<1>2. QED
  BY <1>1, TypeCorrect, WindowInvariant, PTL

\* Nobody is refused, at the first attempt over the limit or at a later one,
\* unless the script was run Limit times for the key within the last window.
THEOREM RefusalsAreEarned == Spec => RefusedWhenBusy
<1>1. ASSUME TypeOK, WindowInv, NEW k \in Keys,
             RateLimited(k), answer'[k] = "refused"
      PROVE  Recent(counted, k) >= Limit
  <2> USE LimitAssumption
  <2>1. /\ counted[k] \in [Ages -> Nat] /\ count[k] \in 0..(Limit + 1) /\ ttl[k] \in 0..Window
        /\ Window - 1 \in Ages
    BY <1>1 DEF TypeOK, Ages
  <2>2. /\ ClosedInv(k) /\ OpenInv(k) /\ CountInv(k)
        /\ Recent(counted, k) = Upto(counted[k], Window - 1)
    BY <1>1 DEF WindowInv, Recent, Upto, Ages
  <2>3. ~Allowed(k)
    BY <1>1 DEF RateLimited, TypeOK
  <2>4. count'[k] = Capped(count[k] + 1, Limit + 1)
    BY <1>1 DEF RateLimited, IncrExpireScript, TypeOK
  <2>5. count[k] >= Limit
    BY <2>1, <2>3, <2>4 DEF Allowed, Capped
  <2>6. ttl[k] > 0
    BY <2>1, <2>2, <2>5 DEF ClosedInv
  <2>7. Age(k) \in Ages
    BY <2>1, <2>6 DEF Age, Ages
  <2>8. Upto(counted[k], Age(k)) <= Upto(counted[k], Window - 1)
    BY <2>1, <2>7, UptoMonotone
  <2>9. Upto(counted[k], Age(k)) \in Nat /\ Upto(counted[k], Window - 1) \in Nat
    BY <2>1, <2>7, UptoStep
  <2>10. Limit <= Upto(counted[k], Age(k))
    <3>1. Capped(count[k], Limit) = Limit
      BY <2>1, <2>5 DEF Capped
    <3>2. QED
      BY <2>2, <2>6, <3>1 DEF CountInv
  <2>11. QED
    BY <2>2, <2>8, <2>9, <2>10
<1>2. TypeOK /\ WindowInv /\ [Next]_vars =>
        [\A k \in Keys : RateLimited(k) /\ answer'[k] = "refused"
                          => Recent(counted, k) >= Limit]_vars
  BY <1>1
<1>3. QED
  BY <1>2, TypeCorrect, WindowInvariant, PTL DEF Spec, RefusedWhenBusy
=============================================================================
